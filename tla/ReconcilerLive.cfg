SPECIFICATION FairSpec
CONSTANTS
    c1 = c1
    c2 = c2
    c3 = c3
    o1 = o1
    t1 = t1
    a1 = a1
    a2 = a2
    a3 = a3
    Nil = Nil
    NoOverride = NoOverride
    Confs <- MCFewConfs
    DefaultConf = c1
    Overrides <- MCOverrides
    TagKeys <- MCNone
    Ids <- MCIds3
    Invalid <- MCInvalid
    BusyErrs = {"recoverable"}
    DefaultsLate = FALSE
    Limit <- MCLive
    Budget = 3
CHECK_DEADLOCK FALSE
PROPERTIES
    Convergence
    DeletionCompletes
    AgentsGo
