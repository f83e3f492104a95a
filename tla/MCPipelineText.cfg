SPECIFICATION Spec
CONSTANTS
    Order <- MCOrder
    Shell = "shell"
    Projects = "projects"
    Messages = "messages"
    Hot = "hot"
    Types = {"delta", "complete"}
    Metadata = {"project"}
    Matches <- MCMatches
    Snapshot = {"projects", "messages"}
    ReadLimit = 3
    MaxEvents = 3
    MaxRestarts = 0
    MaxRepairs = 1
    StorageFails = FALSE
    Added = {}
    RebuildFails = FALSE
INVARIANT TranscriptFollowsLog
CHECK_DEADLOCK FALSE
