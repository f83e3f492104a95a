-------------------------- MODULE ProjectionPipeline --------------------------
(***************************************************************************)
(* The projection cursors                                                  *)
(* (apps/server/src/orchestration/Layers/ProjectionPipeline.ts) and the    *)
(* repair of OrchestrationEngine.ts that resets them.                      *)
(*                                                                         *)
(* Each projector has rows and a row of projection_state with the last     *)
(* event it applied; the pseudo projector Hot stands for all hot ones.  A  *)
(* committed event moves the cursors of the projectors whose predicate     *)
(* accepts it and of Hot, a project event those of every snapshot          *)
(* projector, so the other cursors lag.  A bootstrap (at startup, to catch *)
(* up, or to repair) fast-forwards the lagging ones to Hot and replays     *)
(* each projector from its cursor, one transaction per event; a crash may  *)
(* come between any two transactions.  No event is committed during a      *)
(* bootstrap: it runs before the worker starts or under the maintenance    *)
(* lock.                                                                   *)
(***************************************************************************)
EXTENDS Integers, Sequences, SequencesExt, Filtering

CONSTANTS
    Order,          \* the projectors in bootstrap order, the deferred one last
    Shell,          \* threadShellSummaries, the deferred projector
    Projects,       \* the projector of the project rows
    Messages,       \* threadMessages
    Hot,            \* the cursor of the hot phase
    Types,          \* event types
    Metadata,       \* those of project events
    Matches,        \* projector -> the types its predicate accepts
    Snapshot,       \* hot projectors of PROJECT_METADATA_SNAPSHOT_PROJECTORS
    ReadLimit,      \* DEFAULT_READ_FROM_SEQUENCE_LIMIT
    MaxEvents,      \* bound: events committed
    MaxRestarts,    \* bound: crashes
    MaxRepairs,     \* bound: calls of repairState
    StorageFails,   \* BOOLEAN: may a bootstrap fail part of the way
    Added,          \* projectors an upgrade may add while the process is down
    RebuildFails    \* BOOLEAN: may the startup after an upgrade be cut off

Projectors    == Range(Order)
HotProjectors == Projectors \ {Shell}
Cursors       == Projectors \cup {Hot}
Missing       == -1

ASSUME PipelineConstants ==
    /\ Order \in Seq(Range(Order)) /\ Order # <<>> /\ Last(Order) = Shell
    /\ {Projects, Messages} \subseteq Snapshot
    /\ Snapshot \subseteq HotProjectors
    /\ Hot \notin Projectors
    /\ Matches \in [Projectors -> SUBSET Types]
    /\ \A p \in Projectors : Matches[p] \cap Metadata # {} => p = Projects
    /\ Added \subseteq HotProjectors
    /\ {StorageFails, RebuildFails} \subseteq BOOLEAN
    /\ ReadLimit \in Nat \ {0}
    /\ {MaxEvents, MaxRestarts, MaxRepairs} \subseteq Nat

VARIABLES
    log,            \* <<[type, text], ...>>; text is the payload of a completion
    cursor,         \* projection_state, Missing where there is no row
    rows,           \* per projector, the events applied to its rows, in order
    mode,           \* "down", "running", or why a bootstrap runs
    step,           \* the projector of Order being bootstrapped, 0 before the first
    pos, end,       \* where its reader is, and where readFromSequence stops
    pending,        \* the committed event whose deferred projection is due, or 0
    dirty,          \* deferredProjectionDirty
    inFlight,       \* deferredProjectionCatchUpInFlight
    backup,         \* temp_repair_projection_projects and _state
    upgraded,       \* a projector added by an upgrade is not rebuilt yet
    restarts, repairs

store   == <<log, cursor, rows>>
reader  == <<pos, end>>
control == <<mode, step, reader, pending, dirty, inFlight>>
bounds  == <<restarts, repairs>>
vars    == <<store, control, backup, upgraded, bounds>>

------------------------------------------------------------------------------
\* Operators

Bootstrapping == mode \in {"startup", "catchUp", "repair"}
Larger(a, b)  == IF a >= b THEN a ELSE b

\* projectionStateRepository.upsert: a cursor never moves back.
Moved(who, n) ==
    [p \in Cursors |-> IF p \in who THEN Larger(cursor[p], n) ELSE cursor[p]]

\* apply: the event reaches the rows of each projector in who.
Applied(who, n) ==
    [p \in Projectors |-> IF p \in who THEN Append(rows[p], n) ELSE rows[p]]

Accepts(p, n) == log[n].type \in Matches[p]

\* The text of the streamed message: a delta is appended to what the row holds,
\* a completion carries the whole text.
Text(applied, events) ==
    LET Apply(text, n) ==
            CASE events[n].type = "delta"    -> Append(text, n)
              [] events[n].type = "complete" ->
                    IF events[n].text = <<>> THEN text ELSE events[n].text
              [] OTHER -> text
    IN  FoldLeft(Apply, <<>>, applied)

------------------------------------------------------------------------------
\* A committed command (one event) and its deferred projection

\* projectHotEvent or projectMetadataEvent, in the transaction of the append.  A
\* completion is decided from the text in the message row.
Commit(t) ==
    LET n == Len(log) + 1
        accepting == {p \in HotProjectors : t \in Matches[p]}
        text == IF t = "complete" THEN Text(rows[Messages], log) ELSE <<>>
    IN
    /\ mode = "running"
    /\ pending = 0
    /\ Len(log) < MaxEvents
    /\ log' = Append(log, [type |-> t, text |-> text])
    /\ rows' = Applied(accepting, n)
    /\ cursor' = Moved({Hot} \cup (IF t \in Metadata THEN Snapshot ELSE accepting), n)
    /\ pending' = n
    /\ UNCHANGED <<mode, step, reader, dirty, inFlight, backup, upgraded, bounds>>

\* projectDeferredEvent
ProjectDeferred ==
    /\ mode = "running"
    /\ pending # 0
    /\ ~dirty
    /\ rows' = Applied(IF Accepts(Shell, pending) THEN {Shell} ELSE {}, pending)
    /\ cursor' = Moved({Shell}, pending)
    /\ pending' = 0
    /\ UNCHANGED <<log, mode, step, reader, dirty, inFlight, backup, upgraded, bounds>>

\* It fails, or an earlier one has: the event is left to the catch-up.
SkipDeferred ==
    /\ mode = "running"
    /\ pending # 0
    /\ dirty' = TRUE
    /\ inFlight' = TRUE
    /\ pending' = 0
    /\ UNCHANGED <<store, mode, step, reader, backup, upgraded, bounds>>

\* The command runs out of its 45 s first: nobody projects the event.
Interrupt ==
    /\ mode = "running"
    /\ pending # 0
    /\ pending' = 0
    /\ UNCHANGED <<store, mode, step, reader, dirty, inFlight, backup, upgraded, bounds>>

------------------------------------------------------------------------------
\* Bootstrap

\* No reader is open between two projectors.
NoReader == pos = Missing

Begin(why) ==
    /\ mode' = why
    /\ step' = 0
    /\ pos' = Missing
    /\ end' = Missing

Boot ==
    /\ mode = "down"
    /\ Begin("startup")
    /\ UNCHANGED <<store, pending, dirty, inFlight, backup, upgraded, bounds>>

CatchUp ==
    /\ mode = "running"
    /\ pending = 0
    /\ inFlight
    /\ Begin("catchUp")
    /\ UNCHANGED <<store, pending, dirty, inFlight, backup, upgraded, bounds>>

\* Mutant of Repair: the cursor of the hot phase is kept.
RepairKeepsHot ==
    /\ mode = "running"
    /\ pending = 0
    /\ repairs < MaxRepairs
    /\ repairs' = repairs + 1
    /\ backup' = [cursor |-> cursor, rows |-> rows[Projects]]
    /\ rows' = [rows EXCEPT ![Projects] = <<>>]
    /\ cursor' = [p \in Cursors |-> IF p \in Snapshot THEN Missing ELSE cursor[p]]
    /\ Begin("repair")
    /\ UNCHANGED <<log, pending, dirty, inFlight, upgraded, restarts>>

\* repairState: back up, then delete the project rows and the snapshot cursors.
Repair ==
    /\ mode = "running"
    /\ pending = 0
    /\ repairs < MaxRepairs
    /\ repairs' = repairs + 1
    /\ backup' = [cursor |-> cursor, rows |-> rows[Projects]]
    /\ rows' = [rows EXCEPT ![Projects] = <<>>]
    /\ cursor' = [p \in Cursors |-> IF p \in Snapshot \cup {Hot} THEN Missing ELSE cursor[p]]
    /\ Begin("repair")
    /\ UNCHANGED <<log, pending, dirty, inFlight, upgraded, restarts>>

\* Mutant of FastForward: a cursor that has no row is moved too.
FastForwardMissing ==
    /\ Bootstrapping
    /\ step = 0
    /\ cursor' = Moved(HotProjectors, cursor[Hot])
    /\ step' = 1
    /\ UNCHANGED <<log, rows, mode, reader, pending, dirty, inFlight, backup, upgraded, bounds>>

\* fastForwardHotProjectorCursors
FastForward ==
    /\ Bootstrapping
    /\ step = 0
    /\ cursor' = Moved({p \in HotProjectors : cursor[p] # Missing}, cursor[Hot])
    /\ step' = 1
    /\ UNCHANGED <<log, rows, mode, reader, pending, dirty, inFlight, backup, upgraded, bounds>>

\* Mutant of Open: the cursor moves before the events are applied.
OpenMovesCursor ==
    /\ Bootstrapping
    /\ step \in DOMAIN Order
    /\ NoReader
    /\ pos' = Larger(cursor[Order[step]], 0)
    /\ end' = IF pos' + ReadLimit < Len(log) THEN pos' + ReadLimit ELSE Len(log)
    /\ cursor' = Moved({Order[step]}, end')
    /\ UNCHANGED <<log, rows, mode, step, pending, dirty, inFlight, backup, upgraded, bounds>>

\* bootstrapProjector: read from the cursor, from the beginning without one.
Open ==
    /\ Bootstrapping
    /\ step \in DOMAIN Order
    /\ NoReader
    /\ pos' = Larger(cursor[Order[step]], 0)
    /\ end' = IF pos' + ReadLimit < Len(log) THEN pos' + ReadLimit ELSE Len(log)
    /\ UNCHANGED <<store, mode, step, pending, dirty, inFlight, backup, upgraded, bounds>>

\* The next event the projector accepts, in a transaction of its own.
Replay ==
    LET p == Order[step] IN
    /\ Bootstrapping
    /\ step \in DOMAIN Order
    /\ ~NoReader
    /\ \E n \in (pos + 1)..end :
        /\ Accepts(p, n)
        /\ \A k \in (pos + 1)..(n - 1) : ~Accepts(p, k)
        /\ rows' = Applied({p}, n)
        /\ cursor' = Moved({p}, n)
        /\ pos' = n
    /\ UNCHANGED <<log, mode, step, end, pending, dirty, inFlight, backup, upgraded, bounds>>

\* Mutants of Close: the cursor passes the end of the log; it stays behind the
\* trailing rejected events.
ClosePastEnd ==
    LET p == Order[step] IN
    /\ Bootstrapping
    /\ step \in DOMAIN Order
    /\ ~NoReader
    /\ \A n \in (pos + 1)..end : ~Accepts(p, n)
    /\ cursor' = IF pos < end THEN Moved({p}, end + 1) ELSE cursor
    /\ step' = step + 1
    /\ pos' = Missing
    /\ end' = Missing
    /\ UNCHANGED <<log, rows, mode, pending, dirty, inFlight, backup, upgraded, bounds>>

CloseBehind ==
    LET p == Order[step] IN
    /\ Bootstrapping
    /\ step \in DOMAIN Order
    /\ ~NoReader
    /\ \A n \in (pos + 1)..end : ~Accepts(p, n)
    /\ step' = step + 1
    /\ pos' = Missing
    /\ end' = Missing
    /\ UNCHANGED <<store, mode, pending, dirty, inFlight, backup, upgraded, bounds>>

\* No accepted event is left: keep the cursor past the trailing rejected ones.
Close ==
    LET p == Order[step] IN
    /\ Bootstrapping
    /\ step \in DOMAIN Order
    /\ ~NoReader
    /\ \A n \in (pos + 1)..end : ~Accepts(p, n)
    /\ cursor' = IF pos < end THEN Moved({p}, end) ELSE cursor
    /\ step' = step + 1
    /\ pos' = Missing
    /\ end' = Missing
    /\ UNCHANGED <<log, rows, mode, pending, dirty, inFlight, backup, upgraded, bounds>>

\* initializeHotProjectionCursor: Hot is at least the oldest hot cursor there is.
Finish ==
    LET present == {p \in HotProjectors : cursor[p] # Missing} IN
    /\ Bootstrapping
    /\ step = Len(Order) + 1
    /\ \/ present = {} /\ UNCHANGED cursor
       \/ \E oldest \in present :
            /\ \A p \in present : cursor[oldest] <= cursor[p]
            /\ cursor' = Moved({Hot}, cursor[oldest])
    /\ mode' = "running"
    /\ step' = 0
    /\ dirty' = (dirty /\ mode # "catchUp")
    /\ inFlight' = (inFlight /\ mode # "catchUp")
    /\ upgraded' = FALSE
    /\ UNCHANGED <<log, rows, reader, pending, backup, bounds>>

\* A storage error ends the bootstrap: a catch-up leaves what it did, a repair
\* puts the project rows and all the cursors back, a startup ends the process.
BootstrapFails ==
    /\ Bootstrapping
    /\ StorageFails
    /\ upgraded => RebuildFails
    /\ mode' = IF mode = "startup" THEN "down" ELSE "running"
    /\ step' = 0
    /\ pos' = Missing
    /\ end' = Missing
    /\ IF mode = "repair"
       THEN /\ cursor' = backup.cursor
            /\ rows' = [rows EXCEPT ![Projects] = backup.rows]
       ELSE UNCHANGED <<cursor, rows>>
    /\ inFlight' = (inFlight /\ mode # "catchUp")
    /\ UNCHANGED <<log, pending, dirty, backup, upgraded, bounds>>

Crash ==
    /\ mode # "down"
    /\ upgraded => RebuildFails
    /\ restarts < MaxRestarts
    /\ restarts' = restarts + 1
    /\ mode' = "down"
    /\ step' = 0
    /\ pos' = Missing
    /\ end' = Missing
    /\ pending' = 0
    /\ dirty' = FALSE
    /\ inFlight' = FALSE
    /\ UNCHANGED <<store, backup, upgraded, repairs>>

\* An upgrade brings a projector the old version did not have.
Upgrade(p) ==
    /\ mode = "down"
    /\ cursor[p] # Missing
    /\ rows' = [rows EXCEPT ![p] = <<>>]
    /\ cursor' = [cursor EXCEPT ![p] = Missing]
    /\ upgraded' = TRUE
    /\ UNCHANGED <<log, control, backup, bounds>>

------------------------------------------------------------------------------
\* Specification

Init ==
    /\ log = <<>>
    /\ cursor = [p \in Cursors |-> Missing]
    /\ rows = [p \in Projectors |-> <<>>]
    /\ mode = "down" /\ step = 0
    /\ pos = Missing /\ end = Missing
    /\ pending = 0 /\ dirty = FALSE /\ inFlight = FALSE
    /\ backup = [cursor |-> cursor, rows |-> <<>>]
    /\ upgraded = FALSE
    /\ restarts = 0 /\ repairs = 0

Bootstrap == FastForward \/ Open \/ Replay \/ Close \/ Finish

Next ==
    \/ \E t \in Types : Commit(t)
    \/ ProjectDeferred \/ SkipDeferred \/ Interrupt
    \/ Boot \/ CatchUp \/ Repair
    \/ Bootstrap \/ BootstrapFails
    \/ Crash \/ \E p \in Added : Upgrade(p)

Spec == Init /\ [][Next]_vars

\* A bootstrap that does not fail runs on.
FairSpec == Spec /\ WF_vars(Bootstrap) /\ WF_vars(Boot) /\ WF_vars(CatchUp)
                 /\ WF_vars(ProjectDeferred \/ SkipDeferred \/ Interrupt)

------------------------------------------------------------------------------
\* Properties

\* The cursors, rows and readers of the pipeline stay in their ranges.
TypeOK ==
    /\ \A n \in DOMAIN log : log[n].type \in Types
    /\ DOMAIN cursor = Cursors
    /\ \A p \in Cursors : cursor[p] \in Missing..Len(log)
    /\ \A p \in Projectors : Range(rows[p]) \subseteq 1..Len(log)
    /\ mode \in {"down", "running", "startup", "catchUp", "repair"}
    /\ step \in 0..(Len(Order) + 1)
    /\ pos \in Missing..Len(log) /\ end \in Missing..Len(log)
    /\ pending \in 0..Len(log)
    /\ {dirty, inFlight, upgraded} \subseteq BOOLEAN

Accepted(p, n) == Filtered(UpTo(n), {k \in 1..n : Accepts(p, k)})

\* While commands run, each event a hot projector accepts has reached its rows:
\* once and in order, whatever crashes, failed bootstraps, repairs and upgrades came
\* before, except that a repair applies the chat projectors again to rows it keeps.
RowsExact ==
    mode = "running" => \A p \in HotProjectors :
        /\ Range(Accepted(p, Len(log))) \subseteq Range(rows[p])
        /\ repairs = 0 \/ p \notin Snapshot \ {Projects} => rows[p] = Accepted(p, Len(log))

\* A hot cursor never passes an event its projector accepts and has not applied.
\* (The deferred cursor does, after an interrupted command: NoSkippedRefresh in
\* OrchestrationEngine.)
CursorsHonest ==
    \A p \in HotProjectors : \A n \in 1..cursor[p] : Accepts(p, n) => n \in Range(rows[p])

\* The snapshot sequence a client resumes from (the lesser of Hot and Shell) covers
\* no event the hot rows it was read with lack, even while a repair replays them.
SnapshotHonest ==
    mode \in {"running", "catchUp", "repair"} =>
        \A p \in HotProjectors, n \in 1..Larger(0, IF cursor[Hot] <= cursor[Shell]
                                               THEN cursor[Hot] ELSE cursor[Shell]) :
            Accepts(p, n) => n \in Range(rows[p])

\* A cursor that moves past events without applying them covers only events that
\* the predicate rejected (ProjectionPipeline.ts:2025-2027 "A lagging per-projector
\* cursor therefore covers only events that its predicate rejected").  The end of a
\* repair, which may put back the cursors it deleted, is not such a move.
SkipsOnlyRejected ==
    [][\A p \in HotProjectors :
            rows'[p] = rows[p] /\ ~(mode = "repair" /\ mode' = "running")
            => \A n \in (Larger(cursor[p], 0) + 1)..cursor'[p] :
                    log'[n].type \notin Matches[p]]_vars

\* The message row holds the text the events of the log spell out
\* (.docs/encyclopedia.md:67 "A read-optimized view derived from events").
TranscriptFollowsLog ==
    mode = "running" =>
        Text(rows[Messages], log) = Text([k \in 1..Len(log) |-> k], log)

\* A deferred projection that slipped is caught up, or storage has failed it (the flag
\* stays up) or the process ends.
ShellCatchesUp ==
    inFlight ~> ~inFlight /\ (mode = "running" /\ ~dirty => cursor[Shell] = Len(log))
==============================================================================
