# Verification of the orchestration and session core

TLA+ modules, TLC configurations and TLAPS proofs for the server of this repository
(`apps/server`, an Effect application that turns commands of web and desktop clients
into events, and events into work for coding agents). Line numbers refer to the sources
the manifest `PROJECT.json` maps each definition to.

## The system

Clients send *commands*. One worker, the orchestration engine, takes them from a queue,
decides each against an in-memory read model, and commits the resulting *events* to
SQLite together with the rows the events change and a receipt for the command id. A
published event wakes the reactors (provider commands, checkpoints, automation runs,
deletion), which call providers, git and terminals and dispatch further commands. What
clients see is read from the projected rows, with a snapshot sequence from which they go
on with the live stream.

| Component | State it keeps | Operations | Interacts with | What must hold |
|---|---|---|---|---|
| Orchestration engine (`orchestration/Layers/OrchestrationEngine.ts`) | queue, envelopes, read model, dirty and in-flight flags, maintenance lock; in SQLite the events and receipts | `dispatch`, the worker, two failure handlers, deferred catch-up, `refreshCommandReadModel`, `repairState`, startup | event store, receipts, pipeline, snapshot query; publishes to every reactor | a command id commits once, answers agree with the log, memory follows the log, the stream has no hole, everybody is answered |
| Projection pipeline (`ProjectionPipeline.ts`, `ProjectionState.ts`, `projectMetadataProjection.ts`) | rows per projector, one cursor per projector and phase | project an event (hot, metadata, deferred), `bootstrap` (fast-forward, replay, hot cursor) | engine, event store | rows hold exactly the accepted events, cursors never skip one |
| Event store, receipts | `orchestration_events`, `orchestration_command_receipts` | append, read from a sequence (1000 at most), upsert a receipt | engine, pipeline | one order, no loss |
| Snapshot query | none | command read model, shells, details, snapshot sequence | engine, WebSocket layer | the snapshot sequence covers nothing the rows lack |
| Decider, invariants, projector | none (pure) | command + state to events, event + state to state | engine | the decider's preconditions suffice for the projector |
| Provider service and session directory (`provider/Layers/ProviderService.ts`, `ProviderSessionDirectory.ts`) | persisted bindings, binding-write locks, recently completed turns, idle timers with their generations, idle stops in flight | start, send, steer, review, compact, roll back, stop; the handler of adapter events; the idle stop | adapters, command reactor | a settled turn is not revived, an idle stop takes no session away from work, every call ends |
| Provider command reactor (`ProviderCommandReactor.ts`) | the queue of follow-up messages, the marks of a drain and of a promotion, the starts handled lately; all in memory | queue, start, re-queue, promote, drain, stop; edit and resend, rollback, approvals | engine (events in, promotions out), provider service (turns, the listing of sessions, runtime events) | one turn at a time, every message once, none left waiting |
| Runtime ingestion, session reaper | buffered deltas, dedup sets | runtime events to commands, stop of sessions without a turn | engine, provider service | a turn ends once |
| Adapters, ACP runtime and watchdog | agent processes, pending requests | protocol | provider service | a turn is failed at most once, never while it waits for a human |
| Checkpoint reactor and store | git refs, projected checkpoints | capture, revert, diff | engine, git | turn counts and refs agree |
| Thread deletion, profile archive | archived statistics | purge a thread | engine | deletion is complete and can be repeated |
| Automation service, scheduler, reactor | definitions, runs, leases | schedule, start, reconcile | engine | a due run starts once, ends once |
| Startup reconciliation | none | close turns of a dead process | engine | no turn runs for ever |
| Pull request cache, drainable worker, status broadcaster | in-flight loads, generations; queue and count; cached status | get and invalidate; enqueue and drain; refresh and stream | PR and git services, reactors | no stale publication, no lost waiter, no lost wake-up |
| WebSocket server (`wsRpc.ts`, `wsStreamBackpressure.ts`) | one bounded live buffer per subscription | `subscribeThread`, `replayEvents`, failure of a slow stream | engine's stream, snapshot query, client transport | a stream that lost an event fails instead of going on |
| Web client (`wsTransport.ts`, `routes/__root.tsx`, `store.ts`) | streams, per-thread fence, early events, open requests, the store | subscribe, unsubscribe, snapshot, event, poll, replay, welcome, reconnect | WebSocket server | every event reaches the store, once |
| Terminals, desktop shell and updater | sessions, buffers, update state | — | — | — |

What makes it hard: the worker's 45 s budget interrupts a command between any two steps,
also after its transaction; steps after the commit are not atomic with it; failure
handlers replay the log from a sequence read before the lock was taken; maintenance runs
between commands; a client merges a snapshot, a live stream, replays and reconnections, each
from another moment, and the first two start in either order; a reactor's handler dispatches
several commands, any of which may fail, and then only logs it; the provider service is entered by reactors, clients, adapter events and
a timer at once, and only some of its writes are under a lock; cursors move for events a projector does not accept; bootstraps replay
one transaction per event and a crash may come between two; a replay reads at most 1000
events.

## Modules

`CommandLedger` is the abstract specification of `dispatch`: log, receipts and replies,
nothing else. Events of a command enter the log in one piece, once per command id; an
answer agrees with what is stored; a failure is only reported for a dispatch whose events
are not in the log.

`OrchestrationEngine` is `OrchestrationEngine.ts`. Its variables are the durable tables,
the queue and the envelopes, the worker's local state (`pc` is the point of
`processEnvelope` it has reached; one action per step between two effects), the rest of
the process memory, and the bounds. `Dispatch`, `Expire`, `Abandon` are the caller;
`Take` to `Answer` the path of a command; `Interrupt` is `Effect.timeoutOption`;
`Reconcile` to `AnswerFailure` the two failure handlers; `Claim`, `Fork`, `CatchUp` and
`CatchUpFails` are `scheduleDeferredProjectionCatchUp`; `Refresh`, `Repair`,
`RepairFails` the maintenance calls, one atomic step each under the lock; `Crash` and
`Boot` the process. An event is its command and dispatch; the read model is the list of
events projected into it. Every event counts for the deferred projector.

`ProjectionPipeline` is the cursors. One event per command, one projector of each kind,
the rows as the list of events that reached them, and for messages the text those events
produce. A bootstrap is `FastForward`, then `Open`, `Replay`, `Close` for each projector,
then `Finish`. `BootstrapFails`, `Interrupt` and `Crash` end it, or a command, anywhere.

`KeyedSingleFlightCache` is `KeyedSingleFlightCache.ts`: the three maps `cache` (with
`recent`, its insertion order), the `inFlight` records in `load`, and `generations` with
`nextGeneration`. Every block under the lock is one step. `GetCached`, `Join` and
`StartLoad` are the three outcomes of `get`; `Receive` and `Leave` the two ways a caller
comes to `releaseWaiter`, with its result or interrupted; `InterruptLoad` and `Left` the
interruption of the load by its last waiter; `LoadEnds` and the two `Finish` actions the
fiber of a load, which finishes in a later step than it ends, because `finish` has to take
the lock; `Invalidate` the three invalidations. Time only passes as `Expire`. `source`, the
version of the remote data, and `asked`, the version at the last invalidation, are not in
the code: freshness is measured against them. An unused load record is chosen by `CHOOSE`,
since one is as good as another.

`ThreadDetailSync` is one client following one thread, across the server and the client. Its
engine part is `OrchestrationEngine` reduced to what a subscriber can see: the hot and the
shell cursor, whose least is the fence of a snapshot, and the event that is published next
(`Commit` to `Reconcile`). `Restarted`, `ReadSnapshot`, `Subscribe`, `Offered`, `Drop` and
`NoticeFailure` are `subscribeThread`, which merges the read of a snapshot with the live stream.
The stream subscribes to the engine in the fiber that fills its buffer (`wsStreamBackpressure.ts:100`,
`OrchestrationEngine.ts:790`), so that a new stream is `starting` and `ReadSnapshot` and `Subscribe`
come in either order. A buffer that overflows fails the stream. `Reconnect`, `StartStream`, `RequestFails` and `StopStream` are the
transport, `Navigate` to `Welcome` the subscriptions of the event router, `DeliverSnapshot` and
`DeliverEarly`, `DeliverKnown`, `DeliverNew` its callbacks, `AskReplay` to `ReceiveReplay`
`replayThreadEvents`. `requests` holds the calls that wait for a session: the code makes them
asynchronously, so a subscription and a snapshot request may reach the transport in either
order. Two variables are not in the code: `given`, the events that reached the store, and `missed`,
those published between the read of the stream's snapshot and its subscription, which the stream
will not deliver.

`ThreadTranscript` extends it with what the store makes of them: the throttled queue, the first
delta that is applied at once, and the rule that keeps the longer text when a snapshot meets a
live message. Each of its steps is a step of `ThreadDetailSync` or leaves its variables alone.

`ProviderSessions` is the runtime of one thread in `ProviderService.ts`: the adapter's session
and event queue, the binding, the map of recently completed turns (`settled`), the
binding-write lock with the row its holder has read, the idle timer and the idle stop, whose
generations are reduced to whether the one in hand is the current one. Each caller makes one
call, and `at` is the step it is at, one per effect of the code: `BeginWork` to `Fails` is
`runIdleSensitiveProviderWork`, `Route`, `Recover` and `Adopt` are `resolveRoutableSession` with
`recoverSessionForThread`, `Dispatch` and `Refused` the adapter's answer, and the `Write`
actions what each operation stores afterwards. `BeginControl` and `Control` are `interruptTurn`,
`respondToRequest` and `respondToUserInput`, which may recover a session but neither wait for an
idle stop nor put one off; the run has the first of them, which stands for the three. `ReadEvent` and `WriteEvent` are the two halves
of `processRuntimeEvent` under the lock; `FireTimer`, `LookIdle`, `KillIdle`, `WriteIdle` the
idle stop; `BeginStart` to `Bind` `startSession`; `BeginStop` to `Unbind` the three calls that
stop a session. A turn is named by the call that sent it. `handled`, the turns whose completion
was processed, is not in the code.

`TurnQueue` is the queue of one thread in `ProviderCommandReactor.ts`, with the two fibers that
touch it in `fiber`. The worker takes the events in `inbox`: `TakeQueued`, `Look` and `Recover`
are `processTurnQueued`; `TakeStart`, `Look`, `Requeue` or `Dispatch`, then `StartTurn` and
`Answered` or `StartFails`, are `processTurnStartRequested`; `TakeStop` and `StopSession`
`processSessionStopRequested`. The drainer's `TakeEnd` is `processQueueDrainEvent`. `Drain` is
`drainQueuedTurnsForThread` up to its dispatch and `Promote` or `PromotionFails` the engine's
answer; either fiber may be in it. `Publish` is the engine, which publishes a start twice when it
reconciles. `Send` is the decider's routing by `projected`, the session as it knows it, and
`Project` the runtime ingestion that brings it up to date. A message is a number. The marks are
those of the code: `draining`, `promised` (`pendingQueuedDispatchThreads`) and `handled`, the keys
of starts seen.

What a handler asks of the engine, the database or the provider may fail wherever the code does not
catch it (`EngineFails`), and then the rest of the handler is skipped and the failure logged
(`ProviderCommandReactor.ts:2440`). `StartCutShort` is a start whose thread cannot be read (1676) or whose session
cannot be set to starting (1723); `AnswerLost` a turn that runs although what follows `sendTurn`
fails, which the code treats as a refusal; `FailureUnrecorded` a refusal whose activity (1798) or
error (1806) the engine fails, so that `FailureRecorded`, with its drain (1812), does not happen;
`PromotionFails` a promotion (which may leave `draining` up, see Not modelled), `StopIgnored` and the alternatives of `StopSession` a stop. The listing
of sessions has no error to return. Two variables are not in the code: `fate`, what became of each
message, and `adrift`, which is up from the moment a handler was cut short before its drain, or
the end of a turn was drained while the worker was about to queue a message, until the next
promotion or stop.

The `MC` modules give the constants their values. `OrchestrationEngineProofs`,
`CommandLedgerProofs`, `ProjectionPipelineProofs`, `ThreadDetailSyncProofs`,
`KeyedSingleFlightCacheProofs`, `ProviderSessionsProofs` and `TurnQueueProofs` hold the proofs.
`Filtering` is what `Array.filter`, `toSorted` and deletions from a `Map` do to a sequence,
written as a function so that it can be proved about; `FilteringProofs` has the lemmas. Definitions whose comment starts with
"Mutant" are deliberately wrong variants of the definition after them; nothing uses them
except the sensitivity checks `PROJECT.json` lists.

## Runs

| Run | Expected | What it shows |
|---|---|---|
| `MCEngineDeadlines` | pass | with timeouts anywhere, failing transactions, deciders and receipt writes and a crash: `CommittedOnce`, `DecidesOnWholeLog`, `NoGapInStream`, `NothingUnpublished`, the refinement `LedgerSpec`, and `EveryDispatchAnswered` |
| `MCEngineStorage` | pass | without timeouts but with every other fault, a crash and a maintenance call: also `NoSkippedRefresh` and `CatchUpEnds` |
| `MCEngineSkip` | violation | a timeout after the commit loses a summary refresh (`NoSkippedRefresh`) |
| `MCPipeline` | pass | rows and cursors through a repair, an upgrade that adds projectors, failures and a crash; the deferred projector catches up |
| `MCPipelineLimit` | violation | a repair of more than one read's worth of events, then a fast-forward, skips events (`SkipsOnlyRejected`) |
| `MCPipelineText` | violation | a repair doubles streamed text (`TranscriptFollowsLog`) |
| `MCThreadSync` | pass | with a buffer and an early list of one event, overflows, replays, resubscriptions and one upset (failed projection, command that times out, lost connection, navigation or snapshot poll), and streams that subscribe before or after they read their snapshot: `FenceCovered` and `CatchesUp`, both but for the events in `missed` |
| `MCThreadText` | violation | a snapshot between a commit and its deferred projection has new rows and an old fence; the live event is applied again (`AppliedOnce`) |
| `MCProviderSessions` | pass | two callers with any two of ten operations, refused dispatches, agents that die: `SettledStaysSettled`, `IdleStopSparesWork`, `CallsEnd` |
| `MCTurnQueue` | pass | three messages, queued or steering, with a stop, a start published twice, refused turns, and any command, read or stop of a handler failing: `NoneForgotten`, `NothingWaits`, `OneTurnAtATime`, `FatesFinal` and `MarkerLowered` |
| `MCTurnStuck` | violation | the live turn ends, and its end is drained, between the look at the provider and the re-queue of a start that met it; the message is stuck in the queue (`QueueEmptied`) |
| `MCCache` | pass | with every order of gets, invalidations, interruptions, expiries and late finishes: `AnswersFresh`, `SingleFlight`, `CancelledByLastWaiter`, `MapsAgree`, `Bounded`, and `EveryGetEnds` |

The violations are disagreements between the code and its own comments or documents; the
`findings` of `PROJECT.json` quote them.

### Bounds

Three dispatches, two of them with one command id, suffice for a retry racing the
original and a third command that finds what the first left behind. Two events per
command make both loops turn twice. One crash and one maintenance call can fall anywhere.
`ReadLimit` is above the events of the run except in
`MCPipelineLimit`, where 2 stands for the code's 1000. Three or four events reach every order
of accepted and rejected events around a repair or an upgrade. The cache has three callers,
so that one can start a load, one join it and one replace it; two keys and one entry, so that
an insertion evicts; two loads, an old one and its replacement; and one change of the
source, which separates data before an invalidation from data after it. A thread of three
events, two of them in one command, fills a buffer of one, loses an event and has another one
to go on with; with two events a buffer that silently slides would go unnoticed. Two calls on a
session are a turn and whatever comes between it and its end; every call makes its way through
all its steps, and the agent may die or end a turn between any two. Three messages are a live
turn, one that is queued or promoted and one that meets either; a fourth exceeds what a run can
explore. One repeated start and one stop fall between any two steps of both fibers.

One constant leaves a case out of the passing runs because the properties do not hold in it.
`RebuildFails` is FALSE in `MCPipeline`: when the startup after an upgrade is cut off while it
rebuilds a new projector, its cursor stands in the middle of the log and the next start's
fast-forward passes over what is missing (`ProjectionPipeline.ts:2003`, against the comment at
2025 to 2028); `RowsExact` and `SkipsOnlyRejected` are violated with TRUE.
The passing runs of the thread stream and of the turn queue leave no case out; what cannot hold in
them is in the properties instead. `FenceCovered` and `CatchesUp` except the events in `missed`, and
they must: with a buffer that never overflows (`Capacity` 2, `MaxBatch` 1) and no upsets, TLC finds
a settled subscription with `1..seq` not in `given`, where the order of the stream's two fibers is the only
cause. A replay asks only for what is beyond the fence, so it does not bring such an event
either; another snapshot does. `NoneForgotten` speaks of messages that wait, and the failure
of the one command that was to start a message makes it `lost`; `NothingWaits` excepts a queue that
is `adrift`, and `MCTurnStuck` shows that it must, with an engine that never fails.

Deadlock is not checked because the callers of a
bounded run stop calling.

### Fairness

`FairSpec` assumes that a fiber that can run is run: the worker, the forked catch-up, the
startup, in the pipeline each step of a bootstrap, and in the cache a caller that has its
answer and a load that has ended. It also assumes that a load ends: the loads of
`PullRequestService` are `gh` and `git` subprocesses with a timeout. Nothing is assumed of
callers, of time (`Expire`), of failures or crashes.

In `ThreadDetailSync` it is the fibers of the server and the callbacks of the client that run:
publication, the snapshot read, the subscription, the delivery of what was sent, the reconnection after a
failure, and the calls the router has made. Nothing is assumed of polls, replays, the catch-up
of the shell cursor or of connections staying up; only the number of upsets is bounded, since a
connection that is lost again and again delivers nothing. In `ProviderSessions` calls, the
event handler and the idle stop proceed, the timer fires some time, and the adapter ends its
turns and answers; the waits in `CallsEnd` are those of the service on itself. `FireTimer`
assumes that no call and no event is under way when the timer fires: it is set for minutes
(`ProviderService.ts:50`), and what it starts interleaves freely from then on. In `TurnQueue`
both fibers run and the engine and the provider answer them; nothing is assumed of clients, of
the end of a turn or of the projection of the session.

## Proofs

Everything below is proved for every value of the constants that satisfies
`EngineConstants`, `PipelineConstants`, `SyncConstants`, `CacheConstants`, `SessionConstants` or
`QueueConstants`: any number of dispatches and commands, of projectors and events, of buffer sizes
and upsets, of keys, callers and loads, of calls on a session up to the eight turns the service
remembers, or of messages, stops and repeated starts; any faults, crashes and bounds. Every safety
invariant and every action property of a passing run is stated by a theorem. Where a theorem needs
more than the constants, its hypotheses say so and are discussed with it.

### Engine

- `TypeCorrect`: `Spec => []TypeOK` (`OrchestrationEngineProofs`). `TypeOK` is not
  inductive: that `cur` is a dispatch when the worker indexes `reply` with it, and that
  `next` stays inside the log while the loops over the committed events advance it, needs
  `LoopOK`. `ReplayEndRange`, `RefreshedRange` and `BatchAppended` are the facts about
  the operators it rests on.
- `CommandsCommittedOnce`: `Spec => []CommittedOnce` (`CommandLedgerProofs`). The log and
  the receipts change in two actions only (`StoreFrame`): `Commit` and `RecordRejection`.
  Both are safe because the command has no receipt at that point, which `ReceiptInv`
  carries from the lookup to the transaction and to the handler of a refusal.
- `EngineImplementsLedger`: `Spec => LedgerSpec` (`CommandLedgerProofs`), under
  `ReceiptsReadable`: if time can pass, a receipt can be read. `StepImplements` maps
  `Dispatch` to `Ask`, `Abandon` and `AnswerFailure` to `TellFailure`, `AnswerStored` to
  `TellOk` or `TellRejected`, `Answer` to `TellOk`, `Commit` to `Accept`,
  `RecordRejection` to `Reject`, `Crash` to `Abort`, and everything else to a stutter. The
  work is in the guards of the abstract actions. Whoever is answered must be waiting:
  `EnvelopeInv` says an envelope is in the queue once, or with the worker, or settled. A
  failure is told only for a dispatch without events: `LogInv` says so for a command that
  failed before its commit and for an envelope that was never taken; after a timeout it
  follows from the missing receipt and `CommittedOnce`; `ClockInv` says a timeout needs
  time, which is where the assumption comes in. Without it the theorem is false: the
  handler takes a failed read for a missing receipt.
- `DecisionsSeeWholeLog`: `Spec => []DecidesOnWholeLog` under the provisos below. `ModelInv` says
  how far the read model must have come at each step of the worker: to the event before the
  batch between the commit and `Adopt`, to the start of the replay after a timeout, to the end
  of the log everywhere else. It needs that the start sequence lies before the batch, which
  holds although it is read before the lock is taken: the log only grows in the worker.
- `StreamHasNoGap` and `EverythingPublished`: `NoGapInStream` and `NothingUnpublished` under the
  same provisos. `StreamInv` is `NoGapInStream` with what must have been published at each
  step. A replay may publish events a second time; that it starts at or before the first event
  that was not seen (`ReplayInOrder`) is what leaves no gap.
- The provisos are that the reconciliation after a timeout can read the log
  (`ReconciliationReads`), and that the one read it makes takes it to the end
  (`OneReadReconciles`, for the read limit of `OrchestrationEventStore.ts:68`). They speak only of
  a worker that failed with time passing; without timeouts they are true. They are necessary:
  TLC finds all three properties violated with the fault `reconcileRead` beside timeouts, and
  with a `ReadLimit` of 1 beside timeouts. The code promises nothing for either case
  (`OrchestrationEngine.ts:520` logs the failure and goes on).
- `NoRefreshSkipped`: `NoSkippedRefresh` for runs without timeouts (`MCEngineSkip` is the
  counterexample with them) in which the deferred cursor is at most one read behind the log
  (`DeferredWithinRead`; with a `ReadLimit` of 1 and three commands on two threads TLC finds it
  violated). `RefreshInv` says that summaries are refreshed up to the worker's own
  step whenever the dirty flag is down, and that the flag is up wherever a catch-up is scheduled.

`LedgerInv`, `ModelInv`, `StreamInv` and `RefreshInv` were model-checked on the instances of
`MCEngineDeadlines` (with a maintenance call for the latter three) and `MCEngineStorage` before
they were proved. The steps that touch none of the variables of `LedgerInv` are
proved once, in `LoopFrame`, `ReconcileFrame` and `MaintenanceFrame`.

### Pipeline

- `PipelineTypeCorrect`: `Spec => []TypeOK`, without provisos. `TypeInv` adds that a saved
  copy of cursors and rows fits the log it was taken from, since a failed repair puts it back.
- `HotCursorsAreHonest`, `RowsFollowLog`, `SnapshotsAreHonest` and `LaggingCursorsSkipRejected`:
  `CursorsHonest`, `RowsExact`, `SnapshotHonest` and `SkipsOnlyRejected`, from one invariant,
  `CursorInv`. `Progress` says that a bootstrap leaves each projector at the end of the log
  before it opens the next; `Honest` and `Exact` that rows hold what the cursor says, and
  exactly that where no repair applied events twice; `Behind` that a cursor that lags while
  commands run lags behind rejected events only, which is why a fast-forward may move it
  (`HotHonest`); `BackupGood` that what a failed repair puts back was good.
- They assume `ReadsReachEnd`, that a projector a bootstrap opens is at most one read behind the
  log, and `~RebuildFails`, that the startup after an upgrade is not cut off. `MCPipelineLimit`
  shows what happens without the first, Bounds what happens without the second. `RowsExact` then rests on one fact about filters: appending an
  event to the log appends it to what a projector accepted, or leaves that as it was
  (`FilteredAppend`).

### Thread stream

- `SyncTypeCorrect`: `Spec => []TypeOK`.
- `FenceHidesNothing`: `Spec => []FenceCovered`, without provisos: the fence hides nothing but
  what was published between the read of the stream's snapshot and its subscription, in
  whichever order these come. `FenceInv` follows one stream from the moment
  its snapshot was read, as long as the client wants it and nothing asks for another
  (`Served`). What the store has, with the rows on their way and what the stream missed (`Has`),
  is everything up to the fence (`FenceHad`) and, with the buffer, everything published so far,
  with no hole before any event of the buffer (`StreamWhole`). An event published to a stream that has read its snapshot
  and is not subscribed is among its rows or joins `missed` (`FencePublish`), and one that
  subscribes misses no more (`FenceSubscribe`). Events that came early are older than the snapshot
  that answers them (`EarlyAreOld`). A navigation away or an early event without a fence ends
  `Served`, so that nothing needs to be known of the stream until it is restarted; after an
  overflow only the events still in the buffer are spoken of.

### Pull request cache

- `GetsAreFresh`: `Spec => []AnswersFresh` (`KeyedSingleFlightCacheProofs`). `AnswersFresh`
  speaks of answers that were given; `FreshInv` adds what makes them right. A value or a
  load whose generation is current holds nothing older than the last invalidation of its
  key (`CurrentFresh`), because an invalidation takes the generation away and
  `GenerationsOrdered` makes sure a new one differs from all that any value or load has.
  What a caller waits for is then no older than what it asked for (`WaitersFresh`). The
  invariant does not need the three maps to agree. It was
  model-checked on the instance of `MCCache` first.
- `CacheTypeCorrect`, `NoDuplicateLoads`, `OnlyLastWaiterCancels`, `NothingOutlivesItsUse` and
  `CacheBounded`: `TypeOK`, `SingleFlight`, `CancelledByLastWaiter`, `MapsAgree` and `Bounded`, from
  `MapsInv`. It pairs each generation with a value or a load in flight (`MapsPaired`), says
  that the count of waiters of a load is the number of callers that wait for it
  (`WaitersCounted`), that a load in flight has one and a waiter's load is in flight or settled
  (`WaitersHeld`), that a load being interrupted is off the maps with nobody waiting
  (`Abandoned`), and that the insertion order lists the keys with a value once each (`RecentOK`).
  Two loads of one generation cannot be, because a load starts only where no current
  one is in flight, and a generation that was released is never given out again.

### Provider sessions

- `SessionTypeCorrect`: `Spec => []TypeOK` (`ProviderSessionsProofs`). Besides types, it says
  that an adapter session that is gone has left no turn behind.
- `SettledTurnsStaySettled`: `Spec => []SettledStaysSettled` (`ProviderSessionsProofs`). The
  events of a turn reach the handler in order (`EventsOrdered`), so no `turn.started` comes
  after its completion was processed. A settled turn whose sendTurn has still to write is in
  the map of recent completions (`Marked`), because only that sendTurn takes it out. The lock
  keeps the look at the map and the write together, and what its holder has read stays
  honest: writers without the lock only write turns the property excuses. The invariant
  `IInv` was model-checked on the instance of `MCProviderSessions` first. The eight turns are
  an assumption: with a ninth the map forgets, and the argument ends there.
- `IdleStopLeavesWorkAlone`: `Spec => IdleStopSparesWork` (`ProviderSessionsProofs`), an action
  property. While the generation the idle stop holds is the current one, no turn runs once the
  stop has looked, and every call has not begun, has ended, waits for the stop, or only controls
  a turn (`IdleInv`): what starts work retires the generation first, and from then on the stop
  turns back. `IdleInv` was model-checked first.

### Turn queue

- `QueueTypeCorrect`, `OneTurnRunsAtATime`, `NoMessageForgotten`, `FatesAreFinal` and
  `NothingIsLeftWaiting` (`TurnQueueProofs`) are the type invariant and the four safety properties
  of `TurnQueue`. One turn at a time needs only that the worker goes on to a start while no turn is
  live (`ClearInv`), since nobody else starts one. The two properties about fates rest on
  `PlacesInv`: a message waits exactly when it is in one of three places, an event of the inbox
  that counts, the queue, or the hands of a fiber, and it is in one place only. An event counts if
  its key has not been handled, which is what makes a repeated start harmless; `KeysInv` says two
  events with one key are the same start. A failing command takes a message out of its place only
  together with its `waiting` (`StartCutShort`, `PromotionFails`). `NothingIsLeftWaiting` has no
  provisos. `OwedInv` names what will drain a queue that is not empty and not `adrift`: a live turn
  or its end, a start still to be handled, a refusal still to be recorded, a promotion, or a worker
  on its way to a drain or a start. A drain that is turned away by the marks leaves the queue to a
  promotion that exists, unless a failed one left its mark and the queue `adrift` (`MarksInv`); one that finds the queue empty while a message is about to
  join it, and a handler that fails before its drain, are what `adrift` records; and the next
  promotion pays what was owed, whatever failed before it. All parts were model-checked on the
  instance of `MCTurnQueue` first.

### Filters

The prover cannot instantiate induction theorems whose parameter is an operator, nor reason about
`RECURSIVE` operators. `Filtered` is therefore a recursive function, and `FilteringProofs` does its
inductions over sets: `SetInduction` takes the set of numbers for which a claim holds,
`SeqInduction` a set of sequences, and both rest on the least element of a set of numbers
(`LeastElement`, from the library's fact that `<` is well-founded on the naturals). `FilteredElements`, `FilteredIncreasing`,
`FilteredDistinct` and `FilteredSame` say what a filter keeps.

### Model-checked only

Liveness (`EveryDispatchAnswered`, `CatchUpEnds`, `ShellCatchesUp`, `EveryGetEnds`,
`CatchesUp`, `CallsEnd`, `MarkerLowered`) is out of the prover's reach: it needs `ENABLED`. The
violation runs have nothing to prove. That the provisos of the theorems are necessary is
TLC's finding, on small instances, not a theorem.

## Not modelled

The components of the table above without a module, for now. Inside the modelled ones:

- Engine and pipeline: the columns of the rows, the purge of a deleted thread's events (the
  models number events without gaps), attachment side effects, the decider itself (any command
  may be accepted with one or more events, refused or fail).
- Combinations in which a property does not hold and no run claims it. After a failed
  reconciliation the next command is decided on an old read model (the fault `reconcileRead`
  with timeouts), or after one that reads less than the log (a small `ReadLimit` with
  timeouts); a receipt that cannot be read after a timeout counts as none (`receiptRead` with
  timeouts); a timeout between the claim of the in-flight flag and the fork leaves the flag up
  (`CatchUpEnds` with timeouts); a crash in the first replay of an added projector leaves the
  cursors for the next fast-forward to pass (`RebuildFails`, see Bounds).
- Cache: the closing of its scope and `PullRequestService`, which chooses keys and loads.
- Thread stream: the shell stream and the other WebSocket methods; a replay's limit of 1000
  events appears as a replay that stops early; events other than streamed deltas in the text.
- Turn queue: Codex, whose steers ride the live turn; edit and resend, which takes a message out of
  the queue; reviews; rollback and approvals; a start whose thread or message is not projected,
  which returns without draining; a restart, which forgets the queue. `FatesFinal` says nothing of
  order: any start takes the marker of a promotion down, so two promotions may be under way, and the
  one that meets the other's turn is re-queued behind later messages. A stop does not take back a
  message whose promotion is under way; it is started after the stop.
- What the turn queue loses when a command fails: the
  message itself, when its promotion (`ProviderCommandReactor.ts:1845`) or the command that sets its session to starting (1723)
  fails, and the drain of those behind it, when either of these or the record of a refusal (1798,
  1806) does. The model has these losses, as the fate `lost` and as `adrift`; the properties say that
  there are no others, and that the queue recovers with the next promotion or stop.
- After a failed promotion the mark of the drain may stay up as well: `drainQueuedTurnsForThread`
  lowers it in the `finally` (1876) of a generator of the `effect` library, and that library does not
  resume a generator when the effect it yields fails. The library is not part of the
  repository, so `PromotionFails` has both outcomes. With the mark up no drain of the thread does
  anything until a stop; the properties hold with either outcome, since the queue stays `adrift`.
- The idle timer of a provider session is not claimed to stop every idle session: a sendTurn that
  fails after the event handler has armed the timer retires the generation of that timer
  (`ProviderService.ts:335`).
- Provider service: `forkThread`, which writes another thread's binding; `stopAll`; adapters that restart instead of
  rewinding; sessions without a resume cursor; two upserts that interleave inside
  `ProviderSessionDirectory`; the reaper; the eviction of a ninth completed turn. Three simplifications of
  `ProviderSessions`: `Dispatch` refuses a send, review, compaction or rollback while a turn is live, though
  `ProviderService.ts:922` leaves that to the adapter, so two sends whose turns overlap are not
  explored; `Recover` looks for the session and starts one in a single step that does not fail, where
  the code awaits in between (630 to 679); `WriteSettled` stores the row it read, where
  the code merges all but the status with a fresh read (953 to 961).

## Plan

1. *Done*: engine, ledger, pipeline; the engine's types, exactly-once commit and refinement
   of the ledger proved.
2. *Done*: `KeyedSingleFlightCache` and its freshness.
3. *Done*: the composition of engine stream, bounded buffer, transport, router and store
   (`ThreadDetailSync`, `ThreadTranscript`).
4. *Done*: `ProviderSessions`, its types and `SettledStaysSettled` proved; `TurnQueue`, all its safety
   properties proved. Next beside them: runtime ingestion (a turn ends once), edit and resend, the
   ACP watchdog, startup reconciliation.
5. `DrainableWorker` with `AutomationRunReactor` and the scheduler's backstop; `AutomationRuns`
   (leases and run lifecycle), `CheckpointTurns`, the decider's thread lifecycle as operators
   over a small read model.
6. *Done*: the safety invariants and action properties of all passing runs proved.
   Next: an abstract cache (a get returns some version no older than the last invalidation)
   and an abstract queue of turns, with their refinements, and that `ThreadTranscript` implements
   `ThreadDetailSync`; in `ProviderSessions`, overlapping sends and a recovery that fails.
