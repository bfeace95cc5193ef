CONSTANTS
    Keys = {k1, k2}
    Workers = {w1}
    None = None
SPECIFICATION FairSpec
PROPERTIES
    ShutdownTerminates
    FastLaneServed
    KeepsFairPromise
