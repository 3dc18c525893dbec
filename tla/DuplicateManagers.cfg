SPECIFICATION Spec
CONSTANTS
    w1 = w1
    w2 = w2
    w3 = w3
    i1 = i1
    i2 = i2
    NoThread = NoThread
    Threads <- MCThreads
    RmIds <- MCRmIds
INVARIANTS
    OneManager
