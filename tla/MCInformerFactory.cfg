CONSTANTS
    labelers = labelers
    others = others
    u1 = u1
    u2 = u2
    c1 = c1
    c2 = c2
    Types = {labelers, others}
    Resources = {labelers}
    Users = {u1, u2}
    Channels = {c1, c2}
    NoChannel = NoChannel
    Passes <- OwnContext
    OptionLists <- Lists
SPECIFICATION FairSpec
INVARIANTS
    TypeOK
    OneInformerPerType
    MadeAsConfigured
    ShutdownComplete
    ReadyMeansSynced
PROPERTIES
    WaitGroupRespected
    RunsOnce
    CallsEnd
