CONSTANTS
    Keys = {k1, k2}
    Workers = {w1, w2}
    None = None
SPECIFICATION Spec
SYMMETRY Symmetry
INVARIANTS
    TypeOK
    QueuesWellFormed
    ProcessingIsActive
    DrainedOnReturn
PROPERTIES
    KeepsQueuePromise
    ShutdownAdvances
