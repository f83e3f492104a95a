SPECIFICATION FairSpec
CONSTANTS
    None = None
    Callers = {a, b}
    Calls = {"sendTurn", "steerTurn", "startReview", "compactThread", "rollbackConversation", "interruptTurn",
             "startSession", "stopSession", "stopRuntimeSession", "clearSessionResumeCursor"}
    Faults = {"dispatch", "exit"}
INVARIANTS
    TypeOK
    SettledStaysSettled
PROPERTIES
    IdleStopSparesWork
    CallsEnd
CHECK_DEADLOCK FALSE
