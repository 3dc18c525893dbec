SPECIFICATION Spec
CONSTANTS
    r1 = r1
    r2 = r2
    Arns <- MCArns
    EnableCrossNamespace = FALSE
    Nil = Nil
    NoAgent = NoAgent
    Limit <- MCQuiet
CHECK_DEADLOCK FALSE
INVARIANTS
    RoleGiven
