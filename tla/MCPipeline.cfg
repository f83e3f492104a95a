SPECIFICATION FairSpec
CONSTANTS
    Order <- MCOrder
    Shell = "shell"
    Projects = "projects"
    Messages = "messages"
    Hot = "hot"
    Types = {"project", "delta", "turn"}
    Metadata = {"project"}
    Matches <- MCMatches
    Snapshot = {"projects", "messages"}
    ReadLimit = 3
    MaxEvents = 3
    MaxRestarts = 1
    MaxRepairs = 1
    StorageFails = TRUE
    Added = {"messages", "turns"}
    RebuildFails = FALSE
INVARIANTS
    TypeOK
    RowsExact
    CursorsHonest
    SnapshotHonest
PROPERTIES
    SkipsOnlyRejected
    ShellCatchesUp
CHECK_DEADLOCK FALSE
