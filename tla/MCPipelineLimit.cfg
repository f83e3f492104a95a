SPECIFICATION Spec
CONSTANTS
    Order <- MCOrder
    Shell = "shell"
    Projects = "projects"
    Messages = "messages"
    Hot = "hot"
    Types = {"project", "turn"}
    Metadata = {"project"}
    Matches <- MCMatches
    Snapshot = {"projects", "messages"}
    ReadLimit = 2
    MaxEvents = 4
    MaxRestarts = 1
    MaxRepairs = 1
    StorageFails = FALSE
    Added = {}
    RebuildFails = FALSE
PROPERTY SkipsOnlyRejected
CHECK_DEADLOCK FALSE
