SPECIFICATION Spec
CONSTANTS
    c1 = c1
    c2 = c2
    c3 = c3
    o1 = o1
    t1 = t1
    a1 = a1
    a2 = a2
    a3 = a3
    Nil = Nil
    NoOverride = NoOverride
    Confs <- MCConfs
    DefaultConf = c1
    Overrides <- MCOverrides
    TagKeys <- MCTagKeys
    Ids <- MCIds2
    Invalid <- MCInvalid
    BusyErrs = {"recoverable"}
    DefaultsLate = TRUE
    Limit <- MCNoFault
    Budget = 4
CHECK_DEADLOCK FALSE
PROPERTIES
    CrOutlivesAgent
