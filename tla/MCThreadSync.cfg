SPECIFICATION FairSpec
CONSTANTS
    None = None
    Capacity = 1
    PendingLimit = 1
    MaxEvents = 3
    MaxBatch = 2
    MaxUpsets = 1
INVARIANTS
    TypeOK
    FenceCovered
CHECK_DEADLOCK FALSE
PROPERTY
    CatchesUp
