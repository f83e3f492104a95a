SPECIFICATION Spec
CONSTANTS
    MaxMessages = 2
    MaxStops = 0
    MaxRepeats = 0
    StartsFail = FALSE
    EngineFails = FALSE
INVARIANT
    QueueEmptied
CHECK_DEADLOCK FALSE
