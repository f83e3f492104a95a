SPECIFICATION FairSpec
CONSTANTS
    MaxMessages = 3
    MaxStops = 1
    MaxRepeats = 1
    StartsFail = TRUE
    EngineFails = TRUE
INVARIANTS
    TypeOK
    NoneForgotten
    NothingWaits
PROPERTIES
    OneTurnAtATime
    FatesFinal
    MarkerLowered
CHECK_DEADLOCK FALSE
