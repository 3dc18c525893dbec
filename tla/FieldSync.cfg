SPECIFICATION FairSpec
CONSTANTS
    Nil = Nil
    NoAgent = NoAgent
    Half = 4
    Ints64 <- MCInts64
    Floats64 <- MCFloats64
    Round32 <- MCRound32
    MaxFloat32 = 8
    SmallestFloat32 = 2
    TypeOrder <- MCTypeOrder
    DefaultTTL = 2
    DefaultTemperature = 0
    UserSpecs <- MCUserSpecs
    DriftSpecs <- MCDriftSpecs
    RejectedTTLs <- MCRejectedTTLs
    Limit <- MCLimit
    Budget = 2
CHECK_DEADLOCK FALSE
INVARIANTS
    NothingInvented
    VerdictIsTrue
    ErrorVisible
    SuccessAgrees
    FieldInv
PROPERTIES
    PatchKeepsWhatWasRead
    AgentRests
    FieldsConverge
