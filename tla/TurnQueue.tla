------------------------------ MODULE TurnQueue ------------------------------
(***************************************************************************)
(* The queue of follow-up messages of one thread                           *)
(* (apps/server/src/orchestration/Layers/ProviderCommandReactor.ts), kept  *)
(* in memory while the provider runs a turn.                               *)
(*                                                                         *)
(* Two fibers touch it.  The worker takes the domain events one by one: it *)
(* queues a message, or starts its turn unless the provider has one        *)
(* already.  The drainer follows the runtime events: when a turn ends it   *)
(* dequeues the next message and dispatches a command that comes back to   *)
(* the worker as the start of its turn (a promotion).  The decider routes  *)
(* a message by the projected session, which lags the provider, and        *)
(* listSessions answers with copies it took before it read the database.   *)
(*                                                                         *)
(* The provider is any but Codex: a steer waits in front of the queue.     *)
(***************************************************************************)
EXTENDS Integers, Sequences

CONSTANTS
    MaxMessages,    \* bound: messages sent
    MaxStops,       \* bound: requests to stop the session
    MaxRepeats,     \* bound: starts the engine publishes twice (a reconciliation)
    StartsFail,     \* BOOLEAN: may the provider refuse a turn
    EngineFails     \* BOOLEAN: may what a handler asks of the engine, the database
                    \* or the provider's stop fail; a fiber only logs it

Messages == 1..MaxMessages
Nobody   == 0
Fibers   == {"worker", "drainer"}

ASSUME QueueConstants ==
    /\ {MaxMessages, MaxStops, MaxRepeats} \subseteq Nat
    /\ {StartsFail, EngineFails} \subseteq BOOLEAN

VARIABLES
    fate,           \* what became of each message
    steers,         \* those sent to steer
    projected,      \* the decider's session runs a turn
    inbox,          \* the worker's events: <<[type, msg, key], ...>>
    fiber,          \* what each fiber does: [at, msg, saw]
    queue,          \* queuedTurnStartsByThread
    draining,       \* the thread is in drainingQueuedTurns
    promised,       \* the thread is in pendingQueuedDispatchThreads
    adrift,         \* history, for the properties: a turn ended without a drain of
                    \* what is queued, or of what is about to be, since the last
                    \* promotion or stop
    handled,        \* handledTurnStartKeys
    live,           \* the message whose turn the provider runs, or Nobody
    ended,          \* terminal events the drainer has not taken
    commands, stops, repeats

engine   == <<inbox, commands, repeats>>
marks    == <<queue, draining, promised, adrift>>
provider == <<live, ended>>
client   == <<steers, stops>>
vars     == <<fate, client, projected, engine, fiber, marks, handled, provider>>

------------------------------------------------------------------------------
\* Operators

Rest == [at |-> "rest", msg |-> Nobody, saw |-> FALSE]

Goes(f, at, m) == fiber' = [fiber EXCEPT ![f] = [at |-> at, msg |-> m, saw |-> FALSE]]
Rests(f)       == fiber' = [fiber EXCEPT ![f] = Rest]

Event(type, m) == [type |-> type, msg |-> m, key |-> commands + 1]

\* The engine decides a command and publishes its event, after a timeout twice.
Publish(event) ==
    /\ commands' = commands + 1
    /\ \/ inbox' = Append(inbox, event) /\ UNCHANGED repeats
       \/ /\ event.type = "start"
          /\ repeats < MaxRepeats
          /\ repeats' = repeats + 1
          /\ inbox' = inbox \o <<event, event>>

\* enqueueQueuedTurnStart
Enqueued(m) == IF m \in steers THEN <<m>> \o queue ELSE Append(queue, m)

\* The worker is about to queue a message on the word of a look that saw a live turn.
QueuesNext == fiber["worker"].at = "starting" /\ fiber["worker"].saw

\* Mutant of Drain: the dequeued message is not looked at.
DrainUnchecked(f) ==
    LET next == IF queue = <<>> THEN Nobody ELSE Head(queue) IN
    IF draining \/ promised
    THEN Rests(f) /\ UNCHANGED marks
    ELSE /\ Goes(f, "promote", next)
         /\ queue' = IF queue = <<>> THEN queue ELSE Tail(queue)
         /\ draining' = TRUE
         /\ promised' = TRUE
         /\ adrift' = FALSE

\* drainQueuedTurnsForThread up to its dispatch
Drain(f) ==
    IF draining \/ promised \/ queue = <<>>
    THEN /\ Rests(f)
         /\ adrift' = (adrift \/ (QueuesNext /\ ~draining /\ ~promised))
         /\ UNCHANGED <<queue, draining, promised>>
    ELSE /\ Goes(f, "promote", Head(queue))
         /\ queue' = Tail(queue)
         /\ draining' = TRUE
         /\ promised' = TRUE
         /\ adrift' = FALSE

------------------------------------------------------------------------------
\* The client and the provider

\* thread.turn.start: the decider queues the message while the session it knows runs.
Send(m, mode) ==
    /\ fate[m] = "unsent"
    /\ \A k \in Messages : k < m => fate[k] # "unsent"
    /\ fate' = [fate EXCEPT ![m] = "waiting"]
    /\ steers' = IF mode = "steer" THEN steers \cup {m} ELSE steers
    /\ Publish(Event(IF projected THEN "queued" ELSE "start", m))
    /\ UNCHANGED <<stops, projected, fiber, marks, handled, provider>>

\* thread.session.stop
RequestStop ==
    /\ stops < MaxStops
    /\ stops' = stops + 1
    /\ Publish(Event("stop", Nobody))
    /\ UNCHANGED <<fate, steers, projected, fiber, marks, handled, provider>>

\* The projection of the session follows the provider, later.
Project ==
    /\ projected # (live # Nobody)
    /\ projected' = (live # Nobody)
    /\ UNCHANGED <<fate, client, engine, fiber, marks, handled, provider>>

\* The provider's turn ends, by itself or interrupted: activeTurnId is cleared and
\* turn.completed or turn.aborted emitted.
TurnEnds ==
    /\ live # Nobody
    /\ live' = Nobody
    /\ ended' = ended + 1
    /\ UNCHANGED <<fate, client, projected, engine, fiber, marks, handled>>

------------------------------------------------------------------------------
\* The worker

Taking(type) ==
    /\ fiber["worker"].at = "rest"
    /\ inbox # <<>>
    /\ Head(inbox).type = type
    /\ inbox' = Tail(inbox)

\* Mutant of TakeQueued: no look for a turn that has ended already.
TakeQueuedTrusting ==
    /\ Taking("queued")
    /\ queue' = Enqueued(Head(inbox).msg)
    /\ UNCHANGED <<fate, client, projected, commands, repeats, fiber, draining, promised, adrift, handled, provider>>

\* processTurnQueued: queue the message, then look for a live turn.
TakeQueued ==
    LET m == Head(inbox).msg IN
    /\ Taking("queued")
    /\ queue' = Enqueued(m)
    /\ Goes("worker", "recover", m)
    /\ UNCHANGED <<fate, client, projected, commands, repeats, draining, promised, adrift, handled, provider>>

\* Mutant of TakeStart: a start seen before is started again.
TakeStartAgain ==
    LET event == Head(inbox) IN
    /\ Taking("start")
    /\ promised' = FALSE
    /\ handled' = handled \cup {event.key}
    /\ Goes("worker", "start", event.msg)
    /\ UNCHANGED <<fate, client, projected, commands, repeats, queue, draining, adrift, provider>>

\* processTurnStartRequested: the promotion, if it is one, has come back.
TakeStart ==
    LET event == Head(inbox) IN
    /\ Taking("start")
    /\ promised' = FALSE
    /\ handled' = handled \cup {event.key}
    /\ IF event.key \in handled
       THEN UNCHANGED fiber
       ELSE Goes("worker", "start", event.msg)
    /\ UNCHANGED <<fate, client, projected, commands, repeats, queue, draining, adrift, provider>>

\* hasLiveProviderTurn copies the adapter's sessions and reads the database after.
Look ==
    /\ fiber["worker"].at \in {"recover", "start"}
    /\ fiber' = [fiber EXCEPT !["worker"] =
                    [at  |-> IF @.at = "recover" THEN "recovering" ELSE "starting",
                     msg |-> @.msg,
                     saw |-> live # Nobody]]
    /\ UNCHANGED <<fate, client, projected, engine, marks, handled, provider>>

\* A queued message whose turn before it has ended is promoted at once.
Recover ==
    /\ fiber["worker"].at = "recovering"
    /\ IF fiber["worker"].saw THEN Rests("worker") /\ UNCHANGED marks ELSE Drain("worker")
    /\ UNCHANGED <<fate, client, projected, engine, handled, provider>>

\* Mutants of Requeue: the start is taken for done; it is sent beside the live turn.
RequeueForgets ==
    /\ fiber["worker"].at = "starting"
    /\ fiber["worker"].saw
    /\ Rests("worker")
    /\ UNCHANGED <<fate, client, projected, engine, marks, handled, provider>>

RequeueSends ==
    /\ fiber["worker"].at = "starting"
    /\ fiber["worker"].saw
    /\ Goes("worker", "dispatch", fiber["worker"].msg)
    /\ UNCHANGED <<fate, client, projected, engine, marks, handled, provider>>

\* A start that met a live turn goes back to the queue.
Requeue ==
    LET m == fiber["worker"].msg IN
    /\ fiber["worker"].at = "starting"
    /\ fiber["worker"].saw
    /\ queue' = Enqueued(m)
    /\ Rests("worker")
    /\ UNCHANGED <<fate, client, projected, engine, draining, promised, adrift, handled, provider>>

\* None is live: the session is set to starting, then dispatchTurnForThread.
Dispatch ==
    /\ fiber["worker"].at = "starting"
    /\ ~fiber["worker"].saw
    /\ Goes("worker", "dispatch", fiber["worker"].msg)
    /\ UNCHANGED <<fate, client, projected, engine, marks, handled, provider>>

\* The thread cannot be read, or the session not be set to starting: the handler ends,
\* and its message is in nobody's hands.  (listSessions has no error.)
StartCutShort ==
    LET m == fiber["worker"].msg IN
    /\ EngineFails
    /\ \/ fiber["worker"].at = "start"
       \/ fiber["worker"].at = "starting" /\ ~fiber["worker"].saw
    /\ fate' = [fate EXCEPT ![m] = IF @ = "waiting" THEN "lost" ELSE @]
    /\ adrift' = TRUE
    /\ Rests("worker")
    /\ UNCHANGED <<client, projected, engine, queue, draining, promised, handled, provider>>

\* sendTurn starts the turn; its answer may come after the turn has ended.
StartTurn ==
    LET m == fiber["worker"].msg IN
    /\ fiber["worker"].at = "dispatch"
    /\ live' = m
    /\ fate' = [fate EXCEPT ![m] = IF @ = "waiting" THEN "started" ELSE "again"]
    /\ Goes("worker", "sent", m)
    /\ UNCHANGED <<client, projected, engine, marks, handled, ended>>

Answered ==
    /\ fiber["worker"].at = "sent"
    /\ Rests("worker")
    /\ UNCHANGED <<fate, client, projected, engine, marks, handled, provider>>

\* The turn runs, and what follows sendTurn fails: it is treated as a refusal.
AnswerLost ==
    /\ EngineFails
    /\ fiber["worker"].at = "sent"
    /\ Goes("worker", "failed", fiber["worker"].msg)
    /\ UNCHANGED <<fate, client, projected, engine, marks, handled, provider>>

\* The provider refuses: the failure is to be recorded and the next message started.
StartFails ==
    LET m == fiber["worker"].msg IN
    /\ StartsFail
    /\ fiber["worker"].at = "dispatch"
    /\ fate' = [fate EXCEPT ![m] = IF @ = "waiting" THEN "failed" ELSE @]
    /\ Goes("worker", "failed", m)
    /\ UNCHANGED <<client, projected, engine, marks, handled, provider>>

\* An activity tells of it, the session is set to error, the queue drained.
FailureRecorded ==
    /\ fiber["worker"].at = "failed"
    /\ projected' = FALSE
    /\ Drain("worker")
    /\ UNCHANGED <<fate, client, engine, handled, provider>>

\* The engine fails the activity or the error: the handler ends before the drain.
FailureUnrecorded ==
    /\ EngineFails
    /\ fiber["worker"].at = "failed"
    /\ adrift' = TRUE
    /\ Rests("worker")
    /\ UNCHANGED <<fate, client, projected, engine, queue, draining, promised, handled, provider>>

\* processSessionStopRequested: forget what is queued, then stop the session.
TakeStop ==
    LET queued == {queue[i] : i \in DOMAIN queue} IN
    /\ Taking("stop")
    /\ fate' = [m \in Messages |-> IF m \in queued THEN "dropped" ELSE fate[m]]
    /\ queue' = <<>>
    /\ draining' = FALSE
    /\ promised' = FALSE
    /\ adrift' = FALSE
    /\ Goes("worker", "stop", Nobody)
    /\ UNCHANGED <<client, projected, commands, repeats, handled, provider>>

\* The thread cannot be read: the stop does nothing.
StopIgnored ==
    /\ EngineFails
    /\ Taking("stop")
    /\ UNCHANGED <<fate, client, projected, commands, repeats, fiber, marks, handled, provider>>

\* The adapter may or may not tell that the turn it stops has ended.  A session the
\* projection does not know, or knows as stopped, is not stopped, and a stop that fails
\* ends the handler.
StopSession ==
    /\ fiber["worker"].at = "stop"
    /\ \/ /\ live' = Nobody
          /\ ended' \in {ended, IF live # Nobody THEN ended + 1 ELSE ended}
          /\ projected' \in IF EngineFails THEN {projected, FALSE} ELSE {FALSE}
       \/ /\ EngineFails \/ ~projected
          /\ UNCHANGED <<projected, provider>>
    /\ Rests("worker")
    /\ UNCHANGED <<fate, client, engine, marks, handled>>

------------------------------------------------------------------------------
\* The drainer, and promotions

\* processQueueDrainEvent
TakeEnd ==
    /\ fiber["drainer"].at = "rest"
    /\ ended > 0
    /\ ended' = ended - 1
    /\ Drain("drainer")
    /\ UNCHANGED <<fate, client, projected, engine, handled, live>>

\* thread.turn.dispatch-queued is decided, its event published, the fiber answered.
Promote(f) ==
    /\ fiber[f].at = "promote"
    /\ Publish(Event("start", fiber[f].msg))
    /\ draining' = FALSE
    /\ Rests(f)
    /\ UNCHANGED <<fate, client, projected, queue, promised, adrift, handled, provider>>

\* Mutant of PromotionFails: the marker stays behind.
PromotionFailsMarked(f) ==
    LET m == fiber[f].msg IN
    /\ EngineFails
    /\ fiber[f].at = "promote"
    /\ fate' = [fate EXCEPT ![m] = IF @ = "waiting" THEN "lost" ELSE @]
    /\ draining' = FALSE
    /\ adrift' = TRUE
    /\ Rests(f)
    /\ UNCHANGED <<client, projected, engine, queue, promised, handled, provider>>

\* It is not: the marker is taken back, the message is in the queue no more.  Whether the
\* mark of the drain goes too is up to the library: the code lowers it in a finally of a
\* generator, which is left where it is when the effect it yields fails.
PromotionFails(f) ==
    LET m == fiber[f].msg IN
    /\ EngineFails
    /\ fiber[f].at = "promote"
    /\ fate' = [fate EXCEPT ![m] = IF @ = "waiting" THEN "lost" ELSE @]
    /\ promised' = FALSE
    /\ draining' \in {draining, FALSE}
    /\ adrift' = TRUE
    /\ Rests(f)
    /\ UNCHANGED <<client, projected, engine, queue, handled, provider>>

------------------------------------------------------------------------------
\* Specification

Init ==
    /\ fate = [m \in Messages |-> "unsent"]
    /\ steers = {}
    /\ projected = FALSE
    /\ inbox = <<>>
    /\ fiber = [f \in Fibers |-> Rest]
    /\ queue = <<>>
    /\ draining = FALSE /\ promised = FALSE /\ adrift = FALSE
    /\ handled = {}
    /\ live = Nobody /\ ended = 0
    /\ commands = 0 /\ stops = 0 /\ repeats = 0

Worker ==
    \/ TakeQueued \/ TakeStart \/ TakeStop
    \/ Look \/ Recover \/ Requeue \/ Dispatch \/ StartCutShort
    \/ StartTurn \/ Answered \/ AnswerLost
    \/ StartFails \/ FailureRecorded \/ FailureUnrecorded
    \/ StopIgnored \/ StopSession

Promotion(f) == Promote(f) \/ PromotionFails(f)

Next ==
    \/ \E m \in Messages, mode \in {"queue", "steer"} : Send(m, mode)
    \/ RequestStop \/ Project \/ TurnEnds
    \/ Worker \/ TakeEnd
    \/ \E f \in Fibers : Promotion(f)

Spec == Init /\ [][Next]_vars

\* The fibers run, and the engine and the provider answer them.
FairSpec == Spec /\ WF_vars(Worker) /\ WF_vars(TakeEnd)
                 /\ \A f \in Fibers : WF_vars(Promotion(f))

------------------------------------------------------------------------------
\* Properties

Fates  == {"unsent", "waiting", "started", "again", "failed", "dropped", "lost"}
Places == {"rest", "recover", "recovering", "start", "starting", "dispatch", "sent",
           "failed", "stop", "promote"}
Holding == {"start", "starting", "dispatch", "promote"}
Events == [type : {"queued", "start", "stop"}, msg : Messages \cup {Nobody}, key : Nat]
Hands  == [at : Places, msg : Messages \cup {Nobody}, saw : BOOLEAN]

\* The queue, the marks and the fibers keep their types; a fiber that works on a
\* message has one.
TypeOK ==
    /\ fate \in [Messages -> Fates]
    /\ steers \subseteq Messages
    /\ inbox \in Seq(Events)
    /\ \A i \in DOMAIN inbox : (inbox[i].msg = Nobody) = (inbox[i].type = "stop")
    /\ fiber \in [Fibers -> Hands]
    /\ \A f \in Fibers : (fiber[f].msg = Nobody) = (fiber[f].at \in {"rest", "stop"})
    /\ queue \in Seq(Messages)
    /\ {projected, draining, promised, adrift} \subseteq BOOLEAN
    /\ handled \subseteq Nat
    /\ live \in Messages \cup {Nobody}
    /\ {ended, commands, stops, repeats} \subseteq Nat

\* A turn is never started while another is live, however far the decider's session
\* and the listing lag the provider.
OneTurnAtATime == [][live # Nobody /\ live' # live => live' = Nobody]_vars

\* A message that was started, refused or dropped by a stop is never started again,
\* although it may be queued, re-queued, promoted and published more than once.
FatesFinal ==
    [][\A m \in Messages : fate[m] \notin {"unsent", "waiting"} => fate'[m] = fate[m]]_vars

\* A message that waits is somewhere from where it can still be started: in an event
\* whose start was not handled before, in the queue, in the hands of a fiber.  It is lost
\* only by the failure of the one command that was to start it, whatever else fails.
NoneForgotten ==
    \A m \in Messages : fate[m] = "waiting" =>
        \/ \E i \in DOMAIN inbox : inbox[i].msg = m /\ inbox[i].key \notin handled
        \/ \E i \in DOMAIN queue : queue[i] = m
        \/ \E f \in Fibers : fiber[f].msg = m /\ fiber[f].at \in Holding

AtRest ==
    /\ inbox = <<>>
    /\ \A f \in Fibers : fiber[f].at = "rest"
    /\ live = Nobody
    /\ ended = 0

\* When no turn runs and nothing is under way, no message waits in the queue, unless
\* since the last promotion or stop a handler was cut short before its drain, or a
\* turn's end was drained while a message was on its way to the queue.  Nothing else
\* leaves one behind: neither a refused turn, nor a lagging projection, nor a drain that
\* met another, nor a failure somebody has recovered from.
NothingWaits == AtRest /\ ~adrift => queue = <<>>

\* What the code says of a start that meets a live turn: "everything else re-queues and
\* is promoted when the live turn settles" (ProviderCommandReactor.ts:1697-1698).
QueueEmptied == AtRest => queue = <<>>

\* The marker of a promotion is taken back whether the promotion succeeds, fails or is
\* cut short by a stop; until then no drain of the thread does anything.
MarkerLowered == promised ~> ~promised
==============================================================================
