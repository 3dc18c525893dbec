SPECIFICATION FairSpec
CONSTANTS
    r1 = r1
    r2 = r2
    Arns <- MCArns
    EnableCrossNamespace = FALSE
    Nil = Nil
    NoAgent = NoAgent
    Limit <- MCLimit
CHECK_DEADLOCK FALSE
INVARIANTS
    RoleEntitled
    ResolutionUndone
    SuccessHasRole
    RefInv
PROPERTIES
    RoleConverges
