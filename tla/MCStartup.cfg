CONSTANTS
    Programs <- SmallPrograms
    Configs <- SmallConfigs
    MaxQueued = 2
SPECIFICATION FairSpec
CHECK_DEADLOCK FALSE
INVARIANTS
    TypeOK
    ControllersSeeAll
    
    OwnLimiters
    WatchesAsNamed
    
PROPERTIES
    StopsWhenTold
