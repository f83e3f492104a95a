------------------------- MODULE OrchestrationEngine -------------------------
(***************************************************************************)
(* The command worker of the orchestration engine                          *)
(* (apps/server/src/orchestration/Layers/OrchestrationEngine.ts).          *)
(*                                                                         *)
(* Callers put envelopes on an unbounded queue and wait; one worker takes  *)
(* them in order, takes the maintenance lock, decides the command against  *)
(* the in-memory read model, commits events + hot projections + receipt in *)
(* one transaction, then, outside the transaction, adopts the new read     *)
(* model, runs the deferred projector, publishes the events and answers.   *)
(* The whole of that runs under what is left of a 45 s budget and may be   *)
(* interrupted between any two steps; a failure goes through a handler     *)
(* that reconciles memory with the log before it answers.                  *)
(*                                                                         *)
(* Two abstractions.  Every event counts for the deferred projector        *)
(* (threadShellSummaries), and its thread is the one of its command.  The  *)
(* hot projections are always at Len(log), because they commit with the    *)
(* events; ProjectionPipeline models the cursors one by one.               *)
(***************************************************************************)
EXTENDS Naturals, Sequences, FiniteSets

CONSTANTS
    Dispatches,       \* calls of dispatch (envelopes)
    NoDispatch,       \* the worker holds no envelope
    Commands,         \* command ids; two dispatches may carry the same one
    CommandOf,        \* Dispatches -> Commands
    Threads,          \* aggregates
    ThreadOf,         \* Commands -> Threads
    MaxBatch,         \* bound: events one command is decided into
    ReadLimit,        \* DEFAULT_READ_FROM_SEQUENCE_LIMIT (1000 in the code)
    Deadlines,        \* BOOLEAN: may 45 s pass while a dispatch is unanswered
    Faults,           \* which storage operations may fail, of FaultKinds
    MaxRestarts,      \* bound: crashes of the process
    MaxMaintenance    \* bound: calls of repairState and refreshCommandReadModel

FaultKinds == {"transaction", "deferred", "bootstrap", "decider",
               "receiptRead", "receiptWrite", "reconcileRead"}

ASSUME EngineConstants ==
    /\ NoDispatch \notin Dispatches
    /\ CommandOf \in [Dispatches -> Commands]
    /\ ThreadOf \in [Commands -> Threads]
    /\ MaxBatch \in Nat \ {0}
    /\ ReadLimit \in Nat \ {0}
    /\ Deadlines \in BOOLEAN
    /\ Faults \subseteq FaultKinds
    /\ MaxRestarts \in Nat
    /\ MaxMaintenance \in Nat

VARIABLES
    \* durable: the SQLite database
    log,            \* orchestration_events; the sequence number is the index
    receipts,       \* orchestration_command_receipts
    shellCursor,    \* projection_state row of threadShellSummaries
    summaryAt,      \* per thread, the log length its shell summary was computed from
    \* callers and envelopes
    queue,          \* commandQueue
    execution,      \* envelope.executionState
    expired,        \* Date.now() has passed envelope.deadlineAtMs
    reply,          \* what the caller of dispatch has been told
    \* the worker
    pc, cur,        \* where it is, and the envelope it holds
    startSeq,       \* dispatchStartSequence
    noBudget,       \* remainingBudgetMs = 0
    next,           \* the committed event it handles next
    first,          \* the first event the current command committed
    failure,        \* the error it is handling
    \* the rest of the process memory
    model,          \* commandReadModel: the events projected into it, in order
    modelSeq,       \* commandReadModel.snapshotSequence
    dirty,          \* deferredProjectionDirty
    catchUp,        \* deferredProjectionCatchUpInFlight
    fiber,          \* the catch-up fiber has been forked and has not ended
    published,      \* what a subscriber of streamDomainEvents has seen
    booted,         \* the log length when this process started
    \* bounds
    restarts, maintenance

durable == <<log, receipts, shellCursor, summaryAt>>
callers == <<queue, execution, expired, reply>>
worker  == <<pc, cur, startSeq, noBudget, next, first, failure>>
memory  == <<model, modelSeq, dirty, catchUp, fiber, published, booted>>
bounds  == <<restarts, maintenance>>
vars    == <<durable, callers, worker, memory, bounds>>

------------------------------------------------------------------------------
\* Operators

Least(a, b)  == IF a <= b THEN a ELSE b
Stored(d)    == receipts[CommandOf[d]]
Waiting(d)   == reply[d].kind = "waiting"
InLog(d)     == \E i \in DOMAIN log : log[i].dispatch = d
UpTo(n)      == [i \in 1..n |-> i]
Between(a, b) == [i \in 1..(b - a) |-> a + i]

\* readFromSequence stops after ReadLimit events.
ReplayEnd(from) == Least(Len(log), from + ReadLimit)

\* The catch-up fiber, repair and refresh hold the lock for one step, so it
\* is free whenever the worker has not taken it.
LockFree == pc \in {"idle", "lock"}

\* withRefreshedThreadShellSummary recomputes a summary from the rows as they are.
Refreshed(a, b) ==
    [t \in Threads |-> IF \E i \in (a + 1)..b : ThreadOf[log[i].command] = t
                       THEN Len(log) ELSE summaryAt[t]]

\* bootstrapProjector for the deferred projector, up to event b.
BootstrapShell(b) ==
    /\ shellCursor' = b
    /\ summaryAt' = Refreshed(shellCursor, b)

\* Mutant of LoadModel: the read model stops at the snapshot sequence.
LoadModelUpToSnapshot(cursor) ==
    /\ model' = UpTo(Least(Len(log), cursor))
    /\ modelSeq' = Least(Len(log), cursor)

\* getCommandReadModel: the rows hold every event, the sequence is the least cursor.
LoadModel(cursor) ==
    /\ model' = UpTo(Len(log))
    /\ modelSeq' = Least(Len(log), cursor)

Settle(answer) ==
    /\ reply' = [reply EXCEPT ![cur] = answer]
    /\ pc' = "idle"
    /\ cur' = NoDispatch

Told(kind)   == [kind |-> kind, seq |-> 0]
Succeeded(n) == [kind |-> "ok", seq |-> n]

\* Where Effect.timeoutOption may find the command.
Interruptible == {"lookup", "decide", "committed", "deferred", "schedule", "fork",
                  "publish", "answer"}

Fail(why) ==
    /\ failure' = why
    /\ pc' = "failed"

------------------------------------------------------------------------------
\* Callers

\* dispatch: make the envelope, offer it, await the result.
Dispatch(d) ==
    /\ pc # "down"
    /\ reply[d].kind = "idle"
    /\ reply' = [reply EXCEPT ![d] = Told("waiting")]
    /\ queue' = Append(queue, d)
    /\ UNCHANGED <<durable, execution, expired, worker, memory, bounds>>

\* 45 s pass since the dispatch.
Expire(d) ==
    /\ Deadlines
    /\ Waiting(d)
    /\ ~expired[d]
    /\ expired' = [expired EXCEPT ![d] = TRUE]
    /\ UNCHANGED <<durable, queue, execution, reply, worker, memory, bounds>>

\* The caller's own timeout: abandon what is still queued.  A caller that finds
\* its envelope in flight goes on waiting, which changes nothing here.
Abandon(d) ==
    /\ Waiting(d)
    /\ expired[d]
    /\ execution[d] = "queued"
    /\ execution' = [execution EXCEPT ![d] = "abandoned"]
    /\ reply' = [reply EXCEPT ![d] = Told("timeout")]
    /\ UNCHANGED <<durable, queue, expired, worker, memory, bounds>>

------------------------------------------------------------------------------
\* The worker

\* Queue.take; the start sequence and the budget are read before the lock is held.
Take ==
    /\ pc = "idle"
    /\ queue # <<>>
    /\ cur' = Head(queue)
    /\ queue' = Tail(queue)
    /\ startSeq' = modelSeq
    /\ noBudget' = expired[Head(queue)]
    /\ pc' = "lock"
    /\ UNCHANGED <<durable, execution, expired, reply, next, first, failure, memory, bounds>>

\* Under the lock now: drop an abandoned envelope, else mark it in flight.
Skip ==
    /\ pc = "lock"
    /\ execution[cur] = "abandoned"
    /\ pc' = "idle"
    /\ cur' = NoDispatch
    /\ UNCHANGED <<durable, callers, startSeq, noBudget, next, first, failure, memory, bounds>>

\* Mutant of Start: an abandoned envelope is not recognised.
StartAbandoned ==
    /\ pc = "lock"
    /\ execution' = [execution EXCEPT ![cur] = "in-flight"]
    /\ IF noBudget THEN Fail("timeout")
                   ELSE pc' = "lookup" /\ UNCHANGED failure
    /\ UNCHANGED <<durable, queue, expired, reply, cur, startSeq, noBudget, next, first,
                   memory, bounds>>

Start ==
    /\ pc = "lock"
    /\ execution[cur] # "abandoned"
    /\ execution' = [execution EXCEPT ![cur] = "in-flight"]
    /\ IF noBudget THEN Fail("timeout")
                   ELSE pc' = "lookup" /\ UNCHANGED failure
    /\ UNCHANGED <<durable, queue, expired, reply, cur, startSeq, noBudget, next, first,
                   memory, bounds>>

\* A stored receipt answers the command without running it again.
AnswerStored ==
    /\ pc \in {"lookup", "resolve"}
    /\ pc = "resolve" => failure \in {"timeout", "defect"}
    /\ Stored(cur).status # "none"
    /\ Settle(IF Stored(cur).status = "accepted" THEN Succeeded(Stored(cur).seq)
                                                 ELSE Told("rejected"))
    /\ UNCHANGED <<durable, queue, execution, expired, startSeq, noBudget, next, first,
                   failure, memory, bounds>>

\* Mutant of NoReceipt: the stored receipt is not looked at.
NoReceiptUnread ==
    /\ pc = "lookup"
    /\ pc' = "decide"
    /\ UNCHANGED <<durable, callers, cur, startSeq, noBudget, next, first, failure, memory,
                   bounds>>

NoReceipt ==
    /\ pc = "lookup"
    /\ Stored(cur).status = "none"
    /\ pc' = "decide"
    /\ UNCHANGED <<durable, callers, cur, startSeq, noBudget, next, first, failure, memory,
                   bounds>>

LookupFails ==
    /\ pc = "lookup"
    /\ "receiptRead" \in Faults
    /\ Fail("internal")
    /\ UNCHANGED <<durable, callers, cur, startSeq, noBudget, next, first, memory, bounds>>

\* The decider refuses the command, throws, or the transaction rolls back.
DecideFails ==
    /\ pc = "decide"
    /\ \/ Fail("invariant")
       \/ "decider" \in Faults /\ Fail("defect")
       \/ "transaction" \in Faults /\ Fail("internal")
    /\ UNCHANGED <<durable, callers, cur, startSeq, noBudget, next, first, memory, bounds>>

\* Mutant of Commit: the receipt is not in the transaction.
CommitWithoutReceipt(n) ==
    /\ pc = "decide"
    /\ log' = log \o [i \in 1..n |-> [command |-> CommandOf[cur], dispatch |-> cur]]
    /\ first' = Len(log) + 1
    /\ pc' = "committed"
    /\ UNCHANGED <<receipts, shellCursor, summaryAt, callers, cur, startSeq, noBudget, next,
                   failure, memory, bounds>>

\* sql.withTransaction: n events, their hot projections and the receipt.
Commit(n) ==
    /\ pc = "decide"
    /\ log' = log \o [i \in 1..n |-> [command |-> CommandOf[cur], dispatch |-> cur]]
    /\ receipts' = [receipts EXCEPT ![CommandOf[cur]] =
                        [status |-> "accepted", seq |-> Len(log) + n]]
    /\ first' = Len(log) + 1
    /\ pc' = "committed"
    /\ UNCHANGED <<shellCursor, summaryAt, callers, cur, startSeq, noBudget, next, failure,
                   memory, bounds>>

\* commandReadModel = committedCommand.nextCommandReadModel
Adopt ==
    /\ pc = "committed"
    /\ model' = model \o Between(first - 1, Len(log))
    /\ modelSeq' = Len(log)
    /\ next' = first
    /\ pc' = "deferred"
    /\ UNCHANGED <<durable, callers, cur, startSeq, noBudget, first, failure, dirty, catchUp,
                   fiber, published, booted, bounds>>

\* Mutant of Advance: one turn too many.
AdvancePastLast(loop, after) ==
    IF next > Len(log) THEN pc' = after /\ next' = first
                       ELSE pc' = loop /\ next' = next + 1

\* The end of one turn of a loop over the committed events.
Advance(loop, after) ==
    IF next = Len(log) THEN pc' = after /\ next' = first
                       ELSE pc' = loop /\ next' = next + 1

\* A dirty deferred projection is left to the catch-up.
DeferToCatchUp ==
    /\ pc = "deferred"
    /\ dirty
    /\ pc' = "schedule"
    /\ UNCHANGED <<durable, callers, cur, startSeq, noBudget, next, first, failure, memory,
                   bounds>>

\* Mutant of ProjectDeferred: it runs although an earlier event has failed.
ProjectDeferredDirty ==
    /\ pc = "deferred"
    /\ summaryAt' = Refreshed(next - 1, next)
    /\ shellCursor' = IF next > shellCursor THEN next ELSE shellCursor
    /\ Advance("deferred", "publish")
    /\ UNCHANGED <<log, receipts, callers, cur, startSeq, noBudget, first, failure, memory,
                   bounds>>

\* projectDeferredEvent: refresh the summary and move the cursor, never back.
ProjectDeferred ==
    /\ pc = "deferred"
    /\ ~dirty
    /\ summaryAt' = Refreshed(next - 1, next)
    /\ shellCursor' = IF next > shellCursor THEN next ELSE shellCursor
    /\ Advance("deferred", "publish")
    /\ UNCHANGED <<log, receipts, callers, cur, startSeq, noBudget, first, failure, memory,
                   bounds>>

DeferredFails ==
    /\ pc = "deferred"
    /\ ~dirty
    /\ "deferred" \in Faults
    /\ dirty' = TRUE
    /\ pc' = "schedule"
    /\ UNCHANGED <<durable, callers, cur, startSeq, noBudget, next, first, failure, model,
                   modelSeq, catchUp, fiber, published, booted, bounds>>

\* scheduleDeferredProjectionCatchUp: the first to set the flag forks the fiber.
Claim ==
    /\ pc = "schedule"
    /\ IF catchUp THEN Advance("deferred", "publish")
                  ELSE pc' = "fork" /\ UNCHANGED next
    /\ catchUp' = TRUE
    /\ UNCHANGED <<durable, callers, cur, startSeq, noBudget, first, failure, model, modelSeq,
                   dirty, fiber, published, booted, bounds>>

\* Mutant of Fork: nothing is published afterwards.
ForkAndAnswer ==
    /\ pc = "fork"
    /\ fiber' = TRUE
    /\ Advance("deferred", "answer")
    /\ UNCHANGED <<durable, callers, cur, startSeq, noBudget, first, failure, model, modelSeq,
                   dirty, catchUp, published, booted, bounds>>

Fork ==
    /\ pc = "fork"
    /\ fiber' = TRUE
    /\ Advance("deferred", "publish")
    /\ UNCHANGED <<durable, callers, cur, startSeq, noBudget, first, failure, model, modelSeq,
                   dirty, catchUp, published, booted, bounds>>

Publish ==
    /\ pc = "publish"
    /\ published' = Append(published, next)
    /\ Advance("publish", "answer")
    /\ UNCHANGED <<durable, callers, cur, startSeq, noBudget, first, failure, model, modelSeq,
                   dirty, catchUp, fiber, booted, bounds>>

Answer ==
    /\ pc = "answer"
    /\ Settle(Succeeded(Len(log)))
    /\ UNCHANGED <<durable, queue, execution, expired, startSeq, noBudget, next, first,
                   failure, memory, bounds>>

\* Mutant of Interrupt: the timeout ends the command and nobody handles it.
InterruptUnhandled ==
    /\ pc \in Interruptible
    /\ expired[cur]
    /\ pc' = "idle"
    /\ cur' = NoDispatch
    /\ UNCHANGED <<durable, callers, startSeq, noBudget, next, first, failure, memory, bounds>>

\* Effect.timeoutOption interrupts the command wherever it is; before the
\* commit the transaction rolls back.
Interrupt ==
    /\ pc \in Interruptible
    /\ expired[cur]
    /\ Fail("timeout")
    /\ UNCHANGED <<durable, callers, cur, startSeq, noBudget, next, first, memory, bounds>>

------------------------------------------------------------------------------
\* The failure handlers

\* Mutants of Reconcile: nothing is projected; nothing is published; only the
\* last event is published.
ReconcileUnprojected ==
    /\ pc = "failed"
    /\ pc' = "resolve"
    /\ published' = published \o Between(startSeq, ReplayEnd(startSeq))
    /\ UNCHANGED <<durable, callers, cur, startSeq, noBudget, next, first, failure, model,
                   modelSeq, dirty, catchUp, fiber, booted, bounds>>

ReconcileUnpublished ==
    /\ pc = "failed"
    /\ pc' = "resolve"
    /\ model' = model \o Between(startSeq, ReplayEnd(startSeq))
    /\ modelSeq' = ReplayEnd(startSeq)
    /\ UNCHANGED <<durable, callers, cur, startSeq, noBudget, next, first, failure, dirty,
                   catchUp, fiber, published, booted, bounds>>

ReconcileLast ==
    /\ pc = "failed"
    /\ pc' = "resolve"
    /\ model' = model \o Between(startSeq, ReplayEnd(startSeq))
    /\ modelSeq' = ReplayEnd(startSeq)
    /\ published' = IF ReplayEnd(startSeq) > startSeq
                    THEN Append(published, ReplayEnd(startSeq)) ELSE published
    /\ UNCHANGED <<durable, callers, cur, startSeq, noBudget, next, first, failure, dirty,
                   catchUp, fiber, booted, bounds>>

\* Project and publish what the log holds after the start sequence.
Reconcile ==
    /\ pc = "failed"
    /\ LET end == ReplayEnd(startSeq) IN
        IF end > startSeq
        THEN /\ model' = model \o Between(startSeq, end)
             /\ modelSeq' = end
             /\ published' = published \o Between(startSeq, end)
        ELSE UNCHANGED <<model, modelSeq, published>>
    /\ pc' = "resolve"
    /\ UNCHANGED <<durable, callers, cur, startSeq, noBudget, next, first, failure, dirty,
                   catchUp, fiber, booted, bounds>>

\* A failed reconciliation is logged and the handler goes on.
ReconcileFails ==
    /\ pc = "failed"
    /\ "reconcileRead" \in Faults
    /\ pc' = "resolve"
    /\ UNCHANGED <<durable, callers, cur, startSeq, noBudget, next, first, failure, memory,
                   bounds>>

\* An invariant error leaves a rejected receipt; failing to store it is ignored.
RecordRejection ==
    /\ pc = "resolve"
    /\ failure = "invariant"
    /\ \/ receipts' = [receipts EXCEPT ![CommandOf[cur]] =
                            [status |-> "rejected", seq |-> modelSeq]]
       \/ "receiptWrite" \in Faults /\ UNCHANGED receipts
    /\ pc' = "refuse"
    /\ UNCHANGED <<log, shellCursor, summaryAt, callers, cur, startSeq, noBudget, next, first,
                   failure, memory, bounds>>

\* Deferred.fail: a timeout or a defect only when no receipt could be read.
AnswerFailure ==
    /\ \/ pc = "refuse"
       \/ pc = "resolve" /\ failure = "internal"
       \/ /\ pc = "resolve"
          /\ failure \in {"timeout", "defect"}
          /\ Stored(cur).status = "none" \/ "receiptRead" \in Faults
    /\ Settle(Told(IF failure = "defect" THEN "internal" ELSE failure))
    /\ UNCHANGED <<durable, queue, execution, expired, startSeq, noBudget, next, first,
                   failure, memory, bounds>>

------------------------------------------------------------------------------
\* The catch-up fiber, maintenance, crash and restart

\* scheduleDeferredProjectionCatchUp: one bootstrap replay under the lock.
CatchUp ==
    /\ fiber
    /\ LockFree
    /\ BootstrapShell(ReplayEnd(shellCursor))
    /\ dirty' = FALSE
    /\ catchUp' = FALSE
    /\ fiber' = FALSE
    /\ UNCHANGED <<log, receipts, callers, worker, model, modelSeq, published, booted, bounds>>

\* Mutant of CatchUpFails: the flag stays up.
CatchUpFailsFlagged ==
    /\ fiber
    /\ LockFree
    /\ "bootstrap" \in Faults
    /\ \E b \in shellCursor..ReplayEnd(shellCursor) : BootstrapShell(b)
    /\ fiber' = FALSE
    /\ UNCHANGED <<log, receipts, callers, worker, model, modelSeq, dirty, catchUp, published,
                   booted, bounds>>

\* It fails part of the way; the projection stays dirty.
CatchUpFails ==
    /\ fiber
    /\ LockFree
    /\ "bootstrap" \in Faults
    /\ \E b \in shellCursor..ReplayEnd(shellCursor) : BootstrapShell(b)
    /\ catchUp' = FALSE
    /\ fiber' = FALSE
    /\ UNCHANGED <<log, receipts, callers, worker, model, modelSeq, dirty, published, booted,
                   bounds>>

Maintain ==
    /\ LockFree
    /\ maintenance < MaxMaintenance
    /\ maintenance' = maintenance + 1

\* refreshCommandReadModel
Refresh ==
    /\ Maintain
    /\ LoadModel(shellCursor)
    /\ UNCHANGED <<durable, callers, worker, dirty, catchUp, fiber, published, booted,
                   restarts>>

\* repairState: the shell cursor is not among those it deletes.
Repair ==
    /\ Maintain
    /\ BootstrapShell(ReplayEnd(shellCursor))
    /\ LoadModel(ReplayEnd(shellCursor))
    /\ UNCHANGED <<log, receipts, callers, worker, dirty, catchUp, fiber, published, booted,
                   restarts>>

\* A failed rebuild puts projection_state and the read model back, not the thread rows.
RepairFails ==
    /\ Maintain
    /\ "bootstrap" \in Faults
    /\ \E b \in shellCursor..ReplayEnd(shellCursor) : summaryAt' = Refreshed(shellCursor, b)
    /\ UNCHANGED <<log, receipts, shellCursor, callers, worker, memory, restarts>>

Crash ==
    /\ pc # "down"
    /\ restarts < MaxRestarts
    /\ restarts' = restarts + 1
    /\ pc' = "down"
    /\ cur' = NoDispatch
    /\ queue' = <<>>
    /\ reply' = [d \in Dispatches |-> IF Waiting(d) THEN Told("lost") ELSE reply[d]]
    /\ dirty' = FALSE
    /\ catchUp' = FALSE
    /\ fiber' = FALSE
    /\ published' = <<>>
    /\ UNCHANGED <<durable, execution, expired, startSeq, noBudget, next, first, failure,
                   model, modelSeq, booted, maintenance>>

\* makeOrchestrationEngine: bootstrap, load the read model, fork the worker.
Boot ==
    /\ pc = "down"
    /\ BootstrapShell(ReplayEnd(shellCursor))
    /\ LoadModel(ReplayEnd(shellCursor))
    /\ booted' = Len(log)
    /\ pc' = "idle"
    /\ UNCHANGED <<log, receipts, callers, cur, startSeq, noBudget, next, first, failure,
                   dirty, catchUp, fiber, published, bounds>>

------------------------------------------------------------------------------
\* Specification

Init ==
    /\ log = <<>>
    /\ receipts = [c \in Commands |-> [status |-> "none", seq |-> 0]]
    /\ shellCursor = 0
    /\ summaryAt = [t \in Threads |-> 0]
    /\ queue = <<>>
    /\ execution = [d \in Dispatches |-> "queued"]
    /\ expired = [d \in Dispatches |-> FALSE]
    /\ reply = [d \in Dispatches |-> [kind |-> "idle", seq |-> 0]]
    /\ pc = "down" /\ cur = NoDispatch
    /\ startSeq = 0 /\ noBudget = FALSE
    /\ next = 0 /\ first = 0 /\ failure = "internal"
    /\ model = <<>> /\ modelSeq = 0
    /\ dirty = FALSE /\ catchUp = FALSE /\ fiber = FALSE
    /\ published = <<>> /\ booted = 0
    /\ restarts = 0 /\ maintenance = 0

Caller == \E d \in Dispatches : Dispatch(d) \/ Expire(d) \/ Abandon(d)

Handle ==
    \/ Take \/ Skip \/ Start
    \/ AnswerStored \/ NoReceipt \/ LookupFails
    \/ DecideFails \/ \E n \in 1..MaxBatch : Commit(n)
    \/ Adopt \/ DeferToCatchUp \/ ProjectDeferred \/ DeferredFails \/ Claim \/ Fork
    \/ Publish \/ Answer
    \/ Reconcile \/ ReconcileFails \/ RecordRejection \/ AnswerFailure

Maintenance == CatchUp \/ CatchUpFails \/ Refresh \/ Repair \/ RepairFails

Next == Caller \/ Handle \/ Interrupt \/ Maintenance \/ Crash \/ Boot

Spec == Init /\ [][Next]_vars

\* Effect keeps running a fiber that can run: the worker and the forked catch-up.
FairSpec == Spec /\ WF_vars(Handle) /\ WF_vars(CatchUp \/ CatchUpFails) /\ WF_vars(Boot)

------------------------------------------------------------------------------
\* Properties

Receipt == [status : {"none", "accepted", "rejected"}, seq : Nat]
Reply   == [kind : {"idle", "waiting", "ok", "rejected", "invariant", "internal", "timeout",
                    "lost"}, seq : Nat]

StoreOK ==
    /\ log \in Seq([command : Commands, dispatch : Dispatches])
    /\ receipts \in [Commands -> Receipt]
    /\ shellCursor \in 0..Len(log)
    /\ summaryAt \in [Threads -> 0..Len(log)]

EnvelopesOK ==
    /\ queue \in Seq(Dispatches)
    /\ execution \in [Dispatches -> {"queued", "in-flight", "abandoned"}]
    /\ reply \in [Dispatches -> Reply]

WorkerOK ==
    /\ pc \in {"down", "idle", "lock", "lookup", "decide", "committed", "deferred", "schedule",
               "fork", "publish", "answer", "failed", "resolve", "refuse"}
    /\ cur \in Dispatches \cup {NoDispatch}
    /\ startSeq \in 0..Len(log)
    /\ next \in 0..Len(log)
    /\ first \in 0..Len(log)
    /\ failure \in {"invariant", "internal", "timeout", "defect"}

MemoryOK ==
    /\ model \in Seq(Nat)
    /\ modelSeq \in 0..Len(log)
    /\ published \in Seq(Nat)
    /\ booted \in 0..Len(log)
    /\ restarts \in Nat
    /\ maintenance \in Nat

FlagsOK ==
    /\ expired \in [Dispatches -> BOOLEAN]
    /\ noBudget \in BOOLEAN
    /\ dirty \in BOOLEAN
    /\ catchUp \in BOOLEAN
    /\ fiber \in BOOLEAN

\* The variables of the engine stay in their ranges; the cursors, the start
\* sequence and the loop counters stay inside the log.
TypeOK == StoreOK /\ EnvelopesOK /\ WorkerOK /\ MemoryOK /\ FlagsOK

\* However often a command id is dispatched, retried after a timeout or after a
\* crash, its events enter the log once, in one piece, and the accepted receipt
\* names the last of them.
CommittedOnce ==
    \A c \in Commands :
        LET mine == {i \in DOMAIN log : log[i].command = c} IN
        /\ receipts[c].status = "accepted" <=> mine # {}
        /\ mine # {} => /\ receipts[c].seq \in mine
                        /\ \A i \in mine : /\ i <= receipts[c].seq
                                           /\ i..receipts[c].seq \subseteq mine
                        /\ \A i, j \in mine : log[i].dispatch = log[j].dispatch

\* The decider sees every event of the log: an interrupted or failed command, a
\* repair or a restart never leaves the worker deciding on an older state.
DecidesOnWholeLog ==
    pc = "decide" => \A i \in DOMAIN log : \E j \in DOMAIN model : model[j] = i

\* A subscriber never sees an event before the one that precedes it.
NoGapInStream ==
    \A i \in DOMAIN published :
        published[i] > booted + 1 => \E j \in 1..(i - 1) : published[j] = published[i] - 1

\* When the worker is between commands, everything this process committed has
\* been published, whatever happened to the commands.
NothingUnpublished ==
    LockFree => \A n \in (booted + 1)..Len(log) : \E i \in DOMAIN published : published[i] = n

\* The deferred cursor never passes an event whose summary refresh has not run
\* (OrchestrationEngine.ts:150-151 "instead of continuing to advance the inline
\* cursor and potentially skipping the failed sequence").
NoSkippedRefresh ==
    \A i \in 1..shellCursor : summaryAt[ThreadOf[log[i].command]] >= i

\* Every caller is answered, or its process dies.
EveryDispatchAnswered == \A d \in Dispatches : Waiting(d) ~> ~Waiting(d)

\* The flag that says a catch-up is in flight, and keeps any other from starting,
\* comes down again (OrchestrationEngine.ts:150 "recover with one background
\* bootstrap replay").
CatchUpEnds == catchUp ~> ~catchUp

\* The engine keeps the promises of CommandLedger.
Ledger == INSTANCE CommandLedger WITH
    Dispatches <- Dispatches, Commands <- Commands, CommandOf <- CommandOf, MaxBatch <- MaxBatch,
    log <- log, receipts <- receipts, reply <- reply
LedgerSpec == Ledger!Spec
==============================================================================
