CONSTANTS
    Own = Own
    Replicas = {r1, r2}
    Foreign = {f}
    Reconcilers <- Kinds
    MaxWrites = 3
    MaxFaults = 1
SPECIFICATION FairSpec
INVARIANTS
    TypeOK
    ReconcilesHeld
    FinalizedBeforeGone
    
PROPERTIES
    ForeignKept
    Released
