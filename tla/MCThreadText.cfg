SPECIFICATION TranscriptSpec
CONSTANTS
    None = None
    Capacity = 2
    PendingLimit = 2
    MaxEvents = 3
    MaxBatch = 1
    MaxUpsets = 0
INVARIANT
    AppliedOnce
CHECK_DEADLOCK FALSE
