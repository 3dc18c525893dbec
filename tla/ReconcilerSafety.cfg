SPECIFICATION Spec
CONSTANTS
    c1 = c1
    c2 = c2
    c3 = c3
    o1 = o1
    t1 = t1
    a1 = a1
    a2 = a2
    a3 = a3
    Nil = Nil
    NoOverride = NoOverride
    Confs <- MCConfs
    DefaultConf = c1
    Overrides <- MCOverrides
    TagKeys <- MCTagKeys
    Ids <- MCIds3
    Invalid <- MCInvalid
    BusyErrs = {"recoverable", "terminal"}
    DefaultsLate = TRUE
    Limit <- MCAnyFault
    Budget = 3
CHECK_DEADLOCK FALSE
SYMMETRY Symmetry
INVARIANTS
    TypeOK
    FinalizerHeld
    AtMostOne
    IInv
    SuccessIsTrue
    SyncInv
PROPERTIES
    IdStable
    LifecycleSpec
    
