--------------------------- MODULE ProviderSessions ---------------------------
(***************************************************************************)
(* The runtime of one thread as the provider service keeps it              *)
(* (apps/server/src/provider/Layers/ProviderService.ts): the adapter's     *)
(* session, the persisted binding, the events of the adapter, the calls of *)
(* the reactors and of the client, and the timer that stops a session      *)
(* nobody uses.                                                            *)
(*                                                                         *)
(* A generation is a symbol; what matters of it is whether the timer or    *)
(* the stop that holds one still holds the current one.  A turn is named   *)
(* by the call that sent it.  Every session has a resume cursor, and the   *)
(* adapter rewinds a conversation instead of restarting it.                *)
(***************************************************************************)
EXTENDS Naturals, Sequences, FiniteSets

CONSTANTS
    None,
    Callers,        \* bound: each makes one call
    Calls,          \* the operations called
    Faults          \* "dispatch": the adapter may refuse; "exit": it may die

\* The operations of runIdleSensitiveProviderWork, those that leave the idle timer
\* alone, and those that stop a session
Work == {"sendTurn", "steerTurn", "startReview", "compactThread", "rollbackConversation"}
Controls == {"interruptTurn", "respondToRequest", "respondToUserInput"}
Stops == {"stopSession", "stopRuntimeSession", "clearSessionResumeCursor"}

\* No more turns than RECENTLY_COMPLETED_TURNS_PER_THREAD: no marker is evicted.
ASSUME SessionConstants ==
    /\ IsFiniteSet(Callers) /\ Cardinality(Callers) <= 8
    /\ None # "events" /\ {None, "events"} \cap Callers = {}
    /\ Calls \subseteq Work \cup Controls \cup Stops \cup {"startSession"}
    /\ Faults \subseteq {"dispatch", "exit"}

VARIABLES
    session,        \* the adapter's: is it live, and its activeTurnId
    events,         \* adapter.streamEvents, what has not been processed
    binding,        \* ProviderSessionDirectory: status and activeTurnId
    settled,        \* recentlyCompletedTurnsByThread
    lock,           \* bindingWriteLocks: who holds it
    row,            \* the binding its holder has read
    timer,          \* runtimeIdleTimers: "off", "armed", "stale" generation
    stop,           \* runtimeIdleStopsInFlight: the next step of the idle stop
    current,        \* the idle stop's generation is the current one
    call,           \* the operation of each caller
    at,             \* its next step
    displaced,      \* displacedIdleStop of each caller
    found,          \* the active turn of the running session each caller adopts
    sent,           \* the turn the adapter has answered each caller with
    handled         \* not in the code: turns whose completion was processed

adapter == <<session, events>>
store   == <<binding, settled, lock, row>>
idle    == <<timer, stop, current>>
calls   == <<call, at, displaced, found, sent>>
vars    == <<adapter, store, idle, calls, handled>>

------------------------------------------------------------------------------
\* Operators

Gone == [live |-> FALSE, turn |-> None]
Ready == [live |-> TRUE, turn |-> None]
Row(status, turn) == [status |-> status, turn |-> turn]
Event(kind, turn) == [kind |-> kind, turn |-> turn]
Exited == Event("session.exited", None)

\* clearRuntimeIdleTimer
Cleared == timer' = "off" /\ current' = FALSE

\* scheduleRuntimeIdleStop
Scheduled == timer' = "armed" /\ current' = FALSE

\* retireRuntimeIdleGeneration: a timer that is set stays, without effect.
Retired == timer' = (IF timer = "off" THEN "off" ELSE "stale") /\ current' = FALSE

\* Mutant of Stopped: the active turn is left in the session.
StoppedInTurn ==
    /\ session' = [session EXCEPT !.live = FALSE]
    /\ events' = IF session.live THEN Append(events, Exited) ELSE events

\* adapter.stopSession
Stopped == session' = Gone /\ events' = IF session.live THEN Append(events, Exited) ELSE events

Goto(c, step) == at' = [at EXCEPT ![c] = step]

------------------------------------------------------------------------------
\* The adapter

TurnEnds ==
    /\ session.turn # None
    /\ session' = Ready
    /\ events' = Append(events, Event("turn.completed", session.turn))
    /\ UNCHANGED <<store, idle, calls, handled>>

SessionExits ==
    /\ "exit" \in Faults
    /\ session.live
    /\ Stopped
    /\ UNCHANGED <<store, idle, calls, handled>>

------------------------------------------------------------------------------
\* processRuntimeEvent

\* updateSessionBindingFromRuntimeEvent takes the lock and reads the row.
ReadEvent ==
    /\ events # <<>>
    /\ lock = None
    /\ lock' = "events"
    /\ row' = binding
    /\ LET e == Head(events) IN
       /\ settled' = IF e.kind = "turn.completed" THEN settled \cup {e.turn} ELSE settled
       /\ IF e.kind = "turn.started" THEN Cleared ELSE UNCHANGED <<timer, current>>
    /\ UNCHANGED <<adapter, binding, stop, calls, handled>>

\* The row an event makes of the one that was read.
After(e, old) ==
    CASE e.kind = "turn.started"    -> Row("running", e.turn)
      [] e.kind = "compacted"       ->
            Row(IF old.turn = None THEN "stopped" ELSE "running", old.turn)
      [] e.kind = "session.started" -> Row("running", old.turn)
      [] OTHER                      -> Row("stopped", None)

\* The row is written, the lock released and the idle timer reconciled.
WriteEvent ==
    /\ lock = "events"
    /\ lock' = None
    /\ row' = None
    /\ events' = Tail(events)
    /\ LET e == Head(events) IN
       /\ binding' = IF row = None THEN binding ELSE After(e, row)
       /\ CASE e.kind = "turn.started"   -> UNCHANGED <<timer, current>>
            [] e.kind = "session.exited" -> Cleared
            [] OTHER                     -> Scheduled
    /\ handled' = IF Head(events).kind = "turn.completed" THEN handled \cup {Head(events).turn}
                  ELSE handled
    /\ UNCHANGED <<session, settled, stop, calls>>

------------------------------------------------------------------------------
\* The idle stop

\* The timer is long: it fires when no call and no event is under way.
FireTimer ==
    /\ timer # "off"
    /\ stop = "none"
    /\ events = <<>>
    /\ \A c \in Callers : at[c] \in {"new", "done"}
    /\ timer' = "off"
    /\ stop' = "look"
    /\ current' = (timer = "armed")
    /\ UNCHANGED <<adapter, store, calls, handled>>

StopEnds == stop' = "none" /\ current' = FALSE

\* Only an idle session with a binding is stopped.
LookIdle ==
    /\ stop = "look"
    /\ IF binding # None /\ session = Ready /\ current
       THEN stop' = "kill" /\ UNCHANGED current
       ELSE StopEnds
    /\ UNCHANGED <<adapter, store, timer, calls, handled>>

\* Mutant of KillIdle: a stop that is out of date never settles.
KillIdleUnsettled ==
    /\ stop = "kill"
    /\ IF binding # None /\ current
       THEN Stopped /\ stop' = "write" /\ UNCHANGED current
       ELSE UNCHANGED <<adapter, stop, current>>
    /\ UNCHANGED <<store, timer, calls, handled>>

\* stopRuntimeSessionInternal, for the generation of the timer
KillIdle ==
    /\ stop = "kill"
    /\ IF binding # None /\ current
       THEN Stopped /\ stop' = "write" /\ UNCHANGED current
       ELSE StopEnds /\ UNCHANGED adapter
    /\ UNCHANGED <<store, timer, calls, handled>>

WriteIdle ==
    /\ stop = "write"
    /\ binding' = IF current THEN Row("stopped", None) ELSE binding
    /\ StopEnds
    /\ UNCHANGED <<adapter, settled, lock, row, timer, calls, handled>>

------------------------------------------------------------------------------
\* runIdleSensitiveProviderWork

\* Mutant of BeginWork: the stop in flight is not waited for.
BeginWorkUnwaited(c, op) ==
    /\ at[c] = "new"
    /\ op \in Work
    /\ call' = [call EXCEPT ![c] = op]
    /\ displaced' = [displaced EXCEPT ![c] = timer # "off"]
    /\ timer' = "off"
    /\ Goto(c, "route")
    /\ UNCHANGED <<adapter, store, stop, current, found, sent, handled>>

BeginWork(c, op) ==
    /\ at[c] = "new"
    /\ op \in Work
    /\ call' = [call EXCEPT ![c] = op]
    /\ displaced' = [displaced EXCEPT ![c] = stop # "none" \/ timer # "off"]
    /\ IF stop = "none"
       THEN Cleared /\ Goto(c, "route")
       ELSE Goto(c, "behind") /\ UNCHANGED <<timer, current>>
    /\ UNCHANGED <<adapter, store, stop, found, sent, handled>>

\* The stop it waited for is over.
ResumeWork(c) ==
    /\ at[c] = "behind"
    /\ stop = "none"
    /\ Cleared
    /\ Goto(c, "route")
    /\ UNCHANGED <<adapter, store, stop, call, displaced, found, sent, handled>>

\* The work fails: the timer it displaced is set again.
Fails(c) ==
    /\ Goto(c, "done")
    /\ IF displaced[c] THEN Scheduled ELSE Retired
    /\ UNCHANGED <<adapter, store, stop, call, displaced, found, sent, handled>>

\* resolveRoutableSession
Route(c) ==
    /\ at[c] = "route"
    /\ session.live \/ binding # None
    /\ Goto(c, IF session.live THEN "dispatch" ELSE "recover")
    /\ UNCHANGED <<adapter, store, idle, call, displaced, found, sent, handled>>

Unroutable(c) ==
    /\ at[c] = "route"
    /\ call[c] \in Work
    /\ ~session.live /\ binding = None
    /\ Fails(c)

\* adapter.startSession: what runs is stopped first.
Launched ==
    /\ session' = Ready
    /\ events' = (IF session.live THEN Append(events, Exited) ELSE events)
                   \o <<Event("session.started", None)>>

\* recoverSessionForThread: a session that runs by now is adopted.
Recover(c) ==
    /\ at[c] = "recover"
    /\ found' = [found EXCEPT ![c] = session.turn]
    /\ IF session.live THEN UNCHANGED adapter ELSE Launched
    /\ Goto(c, "adopt")
    /\ UNCHANGED <<store, idle, call, displaced, sent, handled>>

\* upsertSessionBinding, with the session as it was found or resumed
Adopt(c) ==
    /\ at[c] = "adopt"
    /\ binding' = Row("running", found[c])
    /\ Goto(c, "dispatch")
    /\ UNCHANGED <<adapter, settled, lock, row, idle, call, displaced, found, sent, handled>>

StartsTurn(c) == call[c] \in {"sendTurn", "startReview"}

\* The adapter does it: a turn starts, goes on, or there must be none.
Dispatch(c) ==
    /\ at[c] = "dispatch"
    /\ call[c] \in Work
    /\ session.live
    /\ (session.turn # None) = (call[c] = "steerTurn")
    /\ session' = IF StartsTurn(c) THEN [session EXCEPT !.turn = c] ELSE session
    /\ events' = CASE StartsTurn(c)             -> Append(events, Event("turn.started", c))
                   [] call[c] = "compactThread" -> Append(events, Event("compacted", None))
                   [] OTHER                     -> events
    /\ sent' = [sent EXCEPT ![c] = session'.turn]
    /\ Goto(c, "write")
    /\ UNCHANGED <<store, idle, call, displaced, found, handled>>

Refused(c) ==
    /\ at[c] = "dispatch"
    /\ call[c] \in Work
    /\ \/ ~session.live
       \/ (session.turn # None) # (call[c] = "steerTurn")
       \/ "dispatch" \in Faults
    /\ Fails(c)

\* Mutant of WriteRunning: no look at what has settled.
WriteRunningUnchecked(c) ==
    /\ at[c] = "write"
    /\ call[c] = "sendTurn"
    /\ lock = None
    /\ binding' = Row("running", sent[c])
    /\ Goto(c, "done")
    /\ UNCHANGED <<adapter, settled, lock, row, idle, call, displaced, found, sent, handled>>

\* The write after sendTurn, under the lock.  The turn is under way ...
WriteRunning(c) ==
    /\ at[c] = "write"
    /\ call[c] = "sendTurn"
    /\ lock = None
    /\ sent[c] \notin settled
    /\ binding' = Row("running", sent[c])
    /\ Goto(c, "done")
    /\ UNCHANGED <<adapter, settled, lock, row, idle, call, displaced, found, sent, handled>>

\* ... or has settled: its status stays what the handler made of it.
ReadSettled(c) ==
    /\ at[c] = "write"
    /\ call[c] = "sendTurn"
    /\ lock = None
    /\ sent[c] \in settled
    /\ settled' = settled \ {sent[c]}
    /\ lock' = c
    /\ row' = binding
    /\ Goto(c, "settle")
    /\ UNCHANGED <<adapter, binding, idle, call, displaced, found, sent, handled>>

WriteSettled(c) ==
    /\ at[c] = "settle"
    /\ lock' = None
    /\ row' = None
    /\ binding' = IF row = None THEN Row("stopped", None) ELSE row
    /\ Goto(c, "done")
    /\ UNCHANGED <<adapter, settled, idle, call, displaced, found, sent, handled>>

\* The writes after the others take no lock and look for no marker.
WriteUnlocked(c) ==
    /\ at[c] = "write"
    /\ call[c] \in {"steerTurn", "startReview"}
    /\ binding' = Row("running", sent[c])
    /\ Goto(c, "done")
    /\ UNCHANGED <<adapter, settled, lock, row, idle, call, displaced, found, sent, handled>>

\* Compaction and rollback leave an idle session behind.
WriteIdled(c) ==
    /\ at[c] = "write"
    /\ call[c] \in {"compactThread", "rollbackConversation"}
    /\ binding' = IF call[c] = "compactThread" /\ binding # None THEN Row("stopped", None)
                  ELSE binding
    /\ Scheduled
    /\ Goto(c, "done")
    /\ UNCHANGED <<adapter, settled, lock, row, stop, call, displaced, found, sent, handled>>

------------------------------------------------------------------------------
\* interruptTurn, respondToRequest and respondToUserInput

\* No idle stop is waited for, and none is put off.
BeginControl(c, op) ==
    /\ at[c] = "new"
    /\ op \in Controls
    /\ call' = [call EXCEPT ![c] = op]
    /\ Goto(c, "route")
    /\ UNCHANGED <<adapter, store, idle, displaced, found, sent, handled>>

\* The adapter is told, or there is nobody to tell.  A turn that is interrupted
\* ends as any other does, later.
Control(c) ==
    /\ call[c] \in Controls
    /\ \/ at[c] = "dispatch"
       \/ at[c] = "route" /\ ~session.live /\ binding = None
    /\ Goto(c, "done")
    /\ UNCHANGED <<adapter, store, idle, call, displaced, found, sent, handled>>

------------------------------------------------------------------------------
\* startSession

BeginStart(c) ==
    /\ at[c] = "new"
    /\ call' = [call EXCEPT ![c] = "startSession"]
    /\ Cleared
    /\ Goto(c, "launch")
    /\ UNCHANGED <<adapter, store, stop, displaced, found, sent, handled>>

Launch(c) ==
    /\ at[c] = "launch"
    /\ stop = "none"
    /\ Launched
    /\ Goto(c, "bind")
    /\ UNCHANGED <<store, idle, call, displaced, found, sent, handled>>

Bind(c) ==
    /\ at[c] = "bind"
    /\ binding' = Row("running", None)
    /\ Goto(c, "done")
    /\ UNCHANGED <<adapter, settled, lock, row, idle, call, displaced, found, sent, handled>>

------------------------------------------------------------------------------
\* stopSession, stopRuntimeSession and clearSessionResumeCursor

BeginStop(c, op) ==
    /\ at[c] = "new"
    /\ op \in Stops
    /\ call' = [call EXCEPT ![c] = op]
    /\ Goto(c, "halt")
    /\ UNCHANGED <<adapter, store, idle, displaced, found, sent, handled>>

Halt(c) ==
    /\ at[c] = "halt"
    /\ stop = "none"
    /\ Cleared
    /\ Goto(c, "kill")
    /\ UNCHANGED <<adapter, store, stop, call, displaced, found, sent, handled>>

Kill(c) ==
    /\ at[c] = "kill"
    /\ call[c] # "clearSessionResumeCursor"
    /\ binding # None \/ (call[c] = "stopSession" /\ session.live)
    /\ Stopped
    /\ Goto(c, "unbind")
    /\ UNCHANGED <<store, idle, call, displaced, found, sent, handled>>

\* There is nothing to stop.
KillNothing(c) ==
    /\ at[c] = "kill"
    /\ call[c] # "clearSessionResumeCursor"
    /\ binding = None
    /\ call[c] = "stopSession" => ~session.live
    /\ Goto(c, "done")
    /\ UNCHANGED <<adapter, store, idle, call, displaced, found, sent, handled>>

\* clearSessionResumeCursor does it under the lock, and keeps the active turn.
KillLocked(c) ==
    /\ at[c] = "kill"
    /\ call[c] = "clearSessionResumeCursor"
    /\ lock = None
    /\ IF binding = None
       THEN Goto(c, "retire") /\ UNCHANGED <<lock, row, adapter>>
       ELSE Goto(c, "unset") /\ lock' = c /\ row' = binding /\ Stopped
    /\ UNCHANGED <<binding, settled, idle, call, displaced, found, sent, handled>>

WriteUnset(c) ==
    /\ at[c] = "unset"
    /\ binding' = Row("stopped", row.turn)
    /\ lock' = None
    /\ row' = None
    /\ Goto(c, "retire")
    /\ UNCHANGED <<adapter, settled, idle, call, displaced, found, sent, handled>>

Retire(c) ==
    /\ at[c] = "retire"
    /\ stop = "none"
    /\ Retired
    /\ Goto(c, "done")
    /\ UNCHANGED <<adapter, store, stop, call, displaced, found, sent, handled>>

\* directory.remove, or the row marked as stopped
Unbind(c) ==
    /\ at[c] = "unbind"
    /\ call[c] = "stopSession" => stop = "none"
    /\ binding' = IF call[c] = "stopSession" THEN None ELSE Row("stopped", None)
    /\ Retired
    /\ Goto(c, "done")
    /\ UNCHANGED <<adapter, settled, lock, row, stop, call, displaced, found, sent, handled>>

------------------------------------------------------------------------------
Init ==
    /\ session = Ready /\ events = <<Event("session.started", None)>>
    /\ binding = Row("running", None)
    /\ settled = {} /\ lock = None /\ row = None
    /\ timer = "off" /\ stop = "none" /\ current = FALSE
    /\ call = [c \in Callers |-> None]
    /\ at = [c \in Callers |-> "new"]
    /\ displaced = [c \in Callers |-> FALSE]
    /\ found = [c \in Callers |-> None]
    /\ sent = [c \in Callers |-> None]
    /\ handled = {}

Adapter == TurnEnds \/ SessionExits
Handler == ReadEvent \/ WriteEvent
IdleStop == LookIdle \/ KillIdle \/ WriteIdle

Begin(c) ==
    \/ \E op \in Calls : BeginWork(c, op) \/ BeginControl(c, op) \/ BeginStop(c, op)
    \/ "startSession" \in Calls /\ BeginStart(c)

Proceed(c) ==
    \/ ResumeWork(c) \/ Route(c) \/ Unroutable(c) \/ Recover(c) \/ Adopt(c)
    \/ Dispatch(c) \/ Refused(c) \/ Control(c)
    \/ WriteRunning(c) \/ ReadSettled(c) \/ WriteSettled(c) \/ WriteUnlocked(c) \/ WriteIdled(c)
    \/ Launch(c) \/ Bind(c)
    \/ Halt(c) \/ Kill(c) \/ KillNothing(c) \/ Unbind(c)
    \/ KillLocked(c) \/ WriteUnset(c) \/ Retire(c)

Next ==
    \/ Adapter \/ Handler \/ FireTimer \/ IdleStop
    \/ \E c \in Callers : Begin(c) \/ Proceed(c)

Spec == Init /\ [][Next]_vars

\* Fibers and timers run; the adapter ends the turns and answers the calls.
\* Nobody has to call.
FairSpec ==
    /\ Spec
    /\ WF_vars(TurnEnds)
    /\ WF_vars(Handler)
    /\ WF_vars(FireTimer)
    /\ WF_vars(IdleStop)
    /\ \A c \in Callers : WF_vars(Proceed(c))

------------------------------------------------------------------------------
\* Properties

AdapterEvent ==
    [kind : {"session.started", "session.exited", "turn.started", "turn.completed", "compacted"},
     turn : Callers \cup {None}]

BindingRow == [status : {"running", "stopped"}, turn : Callers \cup {None}] \cup {None}

AdapterOK ==
    /\ session \in [live : BOOLEAN, turn : Callers \cup {None}]
    /\ session.turn # None => session.live
    /\ events \in Seq(AdapterEvent)

StoreOK ==
    /\ binding \in BindingRow
    /\ row \in BindingRow
    /\ settled \cup handled \subseteq Callers
    /\ lock \in {None, "events"} \cup Callers

IdleOK ==
    /\ timer \in {"off", "armed", "stale"}
    /\ stop \in {"none", "look", "kill", "write"}
    /\ current \in BOOLEAN

CallsOK ==
    /\ call \in [Callers -> Calls \cup {None}]
    /\ at \in [Callers -> {"new", "behind", "route", "recover", "adopt", "dispatch", "write",
                           "settle", "launch", "bind", "halt", "kill", "unbind",
                           "unset", "retire", "done"}]
    /\ displaced \in [Callers -> BOOLEAN]
    /\ found \in [Callers -> Callers \cup {None}]
    /\ sent \in [Callers -> Callers \cup {None}]

\* Every variable keeps its type, and a session that is gone (stopSession, an exit)
\* has left no turn behind.
TypeOK == AdapterOK /\ StoreOK /\ IdleOK /\ CallsOK

\* A turn whose completion has been processed is never made the active turn of the
\* binding again by the late write of its sendTurn.  Only a steerTurn, a startReview
\* or a call that adopted the session may do so.
SettledStaysSettled ==
    (binding # None /\ binding.turn \in handled) =>
        \E c \in Callers :
            \/ found[c] = binding.turn
            \/ call[c] # "sendTurn" /\ sent[c] = binding.turn

\* The idle stop never takes a session away from a turn, or from a call that has
\* passed the point where it waits for the stop.  Interrupts and answers do not wait.
IdleStopSparesWork ==
    [][(stop = "kill" /\ stop' = "write") =>
        /\ session.turn = None
        /\ \A c \in Callers :
              call[c] \notin Controls =>
                  at[c] \notin {"route", "recover", "adopt", "dispatch", "bind"}]_vars

\* Every call comes to its end, whatever it waits for.
CallsEnd == \A c \in Callers : at[c] # "new" ~> at[c] = "done"
==============================================================================
