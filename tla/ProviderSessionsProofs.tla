------------------------ MODULE ProviderSessionsProofs ------------------------
(***************************************************************************)
(* Theorems about ProviderSessions, for any calls and faults: types, that  *)
(* the late write of sendTurn never revives a settled turn, and that the   *)
(* idle stop takes no session away from work.                              *)
(*                                                                         *)
(* The argument: the events of a turn reach the handler in order, a turn   *)
(* whose completion was handled while its sendTurn has not written is      *)
(* marked, and the lock keeps the mark and the write together.  What the   *)
(* holder of the lock has read stays honest while writers without the lock *)
(* go on, since they only write turns that are excused.                    *)
(*                                                                         *)
(* The idle stop holds a generation that starting work retires; while it   *)
(* is the current one, no call is at a step that uses the session, except  *)
(* those that only control a turn.                                         *)
(***************************************************************************)
EXTENDS ProviderSessions, SequenceTheorems, TLAPS

USE SessionConstants

------------------------------------------------------------------------------
\* The inductive invariant

\* The calls that may make t the active turn whatever has become of it
Excused(t) ==
    \E c \in Callers : found[c] = t \/ (call[c] # "sendTurn" /\ sent[c] = t)

Dispatched == {c \in Callers : at[c] \in {"write", "settle", "done"}}

\* The start of a turn comes before its end, and once.
Ordered(q, processed, dispatched) ==
    /\ \A i \in DOMAIN q :
          /\ q[i].kind = "turn.started" => q[i].turn \notin processed
          /\ q[i].kind = "turn.completed" => q[i].turn # None
          /\ q[i].turn # None => q[i].turn \in dispatched
    /\ \A i, j \in DOMAIN q :
          (i < j /\ q[i].kind = "turn.completed" /\ q[j].kind = "turn.started")
             => q[i].turn # q[j].turn

EventsOrdered == Ordered(events, handled, Dispatched)

TurnsDispatched == handled \cup ({session.turn} \ {None}) \subseteq Dispatched

\* What a caller has not come to yet
CallsOnce ==
    \A c \in Callers :
        /\ at[c] \in {"new", "behind", "route", "recover"} => found[c] = None
        /\ at[c] \in {"new", "behind", "route", "recover", "adopt", "dispatch"} => sent[c] = None
        /\ (call[c] = "sendTurn" /\ at[c] = "write") => sent[c] = c

LockHeld ==
    /\ lock = None => row = None
    /\ lock = "events" => events # <<>>
    /\ \A c \in Callers : (lock = c) <=> (at[c] \in {"settle", "unset"})
    /\ \A c \in Callers : at[c] = "unset" => row # None

\* A settled turn whose sendTurn has still to write is marked.
Awaited(t) == call[t] = "sendTurn" /\ at[t] = "write"

Marked ==
    /\ \A c \in handled : Awaited(c) => c \in settled
    /\ (lock = "events" /\ Head(events).kind = "turn.completed")
          => (Awaited(Head(events).turn) => Head(events).turn \in settled)

\* What the holder of the lock has read, and what was written meanwhile
RowHonest ==
    lock # None =>
        /\ (row # None /\ row.turn \in handled) => Excused(row.turn)
        /\ (row = None /\ binding # None /\ binding.turn # None) => Excused(binding.turn)

IInv ==
    /\ TypeOK
    /\ EventsOrdered /\ TurnsDispatched
    /\ CallsOnce /\ LockHeld
    /\ Marked /\ RowHonest
    /\ SettledStaysSettled

------------------------------------------------------------------------------
\* Types

LEMMA TypeInit == Init => TypeOK
<1> SUFFICES ASSUME Init PROVE TypeOK OBVIOUS
<1>1. AdapterOK
  BY DEF Init, AdapterOK, AdapterEvent, Ready, Event
<1>2. StoreOK
  BY DEF Init, StoreOK, BindingRow, Row
<1>3. IdleOK
  BY DEF Init, IdleOK
<1>4. CallsOK
  BY DEF Init, CallsOK
<1> QED
  BY <1>1, <1>2, <1>3, <1>4 DEF TypeOK

\* What the adapter puts in the queue when a session stops or starts.
LEMMA StoppedType ==
    ASSUME AdapterOK, Stopped
    PROVE  AdapterOK' /\ session'.turn = None
<1>1. events' \in Seq(AdapterEvent)
  BY AppendProperties DEF AdapterOK, Stopped, AdapterEvent, Exited, Event
<1> QED
  BY <1>1 DEF AdapterOK, Stopped, Gone

LEMMA LaunchedType ==
    ASSUME AdapterOK, Launched
    PROVE  AdapterOK' /\ session'.turn = None
<1>1. Exited \in AdapterEvent /\ Event("session.started", None) \in AdapterEvent
  BY DEF AdapterEvent, Exited, Event
<1>2. events' \in Seq(AdapterEvent)
  BY <1>1, AppendProperties, ConcatProperties DEF AdapterOK, Launched
<1> QED
  BY <1>2 DEF AdapterOK, Launched, Ready

LEMMA TypeNext == IInv /\ [Next]_vars => TypeOK'
<1> SUFFICES ASSUME IInv, [Next]_vars PROVE TypeOK' OBVIOUS
<1> USE DEF adapter, store, idle, calls
<1>a. AdapterOK /\ StoreOK /\ IdleOK /\ CallsOK
  BY DEF IInv, TypeOK
<1>h. events # <<>> => Head(events) \in AdapterEvent
  BY <1>a, HeadTailProperties DEF AdapterOK
<1>l. LockHeld /\ EventsOrdered
  BY DEF IInv
<1>b. SUFFICES AdapterOK' /\ StoreOK' /\ IdleOK' /\ CallsOK'
  BY DEF TypeOK
<1>1. CASE TurnEnds
  <2>1. AdapterOK'
    BY <1>1, <1>a, AppendProperties DEF TurnEnds, Event, Ready, AdapterOK, AdapterEvent
  <2>2. StoreOK' /\ IdleOK' /\ CallsOK'
    BY <1>1, <1>a DEF TurnEnds, StoreOK, IdleOK, CallsOK
  <2> QED
    BY <2>1, <2>2
<1>2. CASE SessionExits
  <2>1. AdapterOK'
    BY <1>2, <1>a, StoppedType DEF SessionExits, AdapterOK
  <2>2. StoreOK' /\ IdleOK' /\ CallsOK'
    BY <1>2, <1>a DEF SessionExits, StoreOK, IdleOK, CallsOK
  <2> QED
    BY <2>1, <2>2
<1>3. CASE ReadEvent
  <2>0. Head(events).kind = "turn.completed" => Head(events).turn \in Callers
    BY <1>3, <1>a, <1>h, <1>l DEF ReadEvent, AdapterEvent, AdapterOK, EventsOrdered, Ordered
  <2>1. StoreOK'
    BY <1>3, <1>a, <2>0 DEF ReadEvent, Cleared, StoreOK, BindingRow
  <2>2. IdleOK'
    BY <1>3, <1>a DEF ReadEvent, Cleared, IdleOK
  <2>3. AdapterOK' /\ CallsOK'
    BY <1>3, <1>a DEF ReadEvent, AdapterOK, CallsOK
  <2> QED
    BY <2>1, <2>2, <2>3
<1>4. CASE WriteEvent
  <2>0. /\ events # <<>> /\ Head(events).turn \in Callers \cup {None}
        /\ Head(events).kind = "turn.completed" => Head(events).turn \in Callers
    BY <1>4, <1>a, <1>h, <1>l DEF WriteEvent, LockHeld, AdapterEvent, AdapterOK, EventsOrdered, Ordered
  <2>1. AdapterOK'
    BY <1>4, <1>a, HeadTailProperties, <2>0 DEF WriteEvent, Cleared, Scheduled, After, Row,
       AdapterOK, AdapterEvent
  <2>2. StoreOK'
    BY <1>4, <1>a, <2>0 DEF WriteEvent, Cleared, Scheduled, After, Row, StoreOK, BindingRow
  <2>3. IdleOK'
    BY <1>4, <1>a DEF WriteEvent, Cleared, Scheduled, After, Row, IdleOK
  <2>4. CallsOK'
    BY <1>4, <1>a DEF WriteEvent, CallsOK
  <2> QED
    BY <2>1, <2>2, <2>3, <2>4
<1>5. CASE FireTimer
  <2>1. IdleOK'
    BY <1>5, <1>a DEF FireTimer, IdleOK
  <2>2. AdapterOK' /\ StoreOK' /\ CallsOK'
    BY <1>5, <1>a DEF FireTimer, AdapterOK, StoreOK, CallsOK
  <2> QED
    BY <2>1, <2>2
<1>6. CASE LookIdle
  <2>1. IdleOK'
    BY <1>6, <1>a DEF LookIdle, StopEnds, IdleOK
  <2>2. AdapterOK' /\ StoreOK' /\ CallsOK'
    BY <1>6, <1>a DEF LookIdle, AdapterOK, StoreOK, CallsOK
  <2> QED
    BY <2>1, <2>2
<1>7. CASE KillIdle
  <2>1. AdapterOK'
    BY <1>7, <1>a, StoppedType DEF KillIdle, StopEnds, AdapterOK
  <2>2. IdleOK'
    BY <1>7, <1>a DEF KillIdle, StopEnds, IdleOK
  <2>3. StoreOK' /\ CallsOK'
    BY <1>7, <1>a DEF KillIdle, StoreOK, CallsOK
  <2> QED
    BY <2>1, <2>2, <2>3
<1>8. CASE WriteIdle
  <2>1. StoreOK'
    BY <1>8, <1>a DEF WriteIdle, StopEnds, Row, StoreOK, BindingRow, CallsOK
  <2>2. IdleOK'
    BY <1>8, <1>a DEF WriteIdle, StopEnds, Row, IdleOK
  <2>3. AdapterOK' /\ CallsOK'
    BY <1>8, <1>a DEF WriteIdle, AdapterOK, CallsOK
  <2> QED
    BY <2>1, <2>2, <2>3
<1>9. ASSUME NEW c \in Callers, NEW op \in Calls, BeginWork(c, op)
       PROVE  AdapterOK' /\ StoreOK' /\ IdleOK' /\ CallsOK'
  <2>1. IdleOK'
    BY <1>9, <1>a DEF BeginWork, Cleared, Goto, IdleOK
  <2>2. CallsOK'
    BY <1>9, <1>a DEF BeginWork, Cleared, Goto, CallsOK
  <2>3. AdapterOK' /\ StoreOK'
    BY <1>9, <1>a DEF BeginWork, AdapterOK, StoreOK
  <2> QED
    BY <2>1, <2>2, <2>3
<1>10. ASSUME NEW c \in Callers, NEW op \in Calls, BeginStop(c, op)
       PROVE  AdapterOK' /\ StoreOK' /\ IdleOK' /\ CallsOK'
  <2>1. CallsOK'
    BY <1>10, <1>a DEF BeginStop, Goto, CallsOK
  <2>2. AdapterOK' /\ StoreOK' /\ IdleOK'
    BY <1>10, <1>a DEF BeginStop, AdapterOK, StoreOK, IdleOK
  <2> QED
    BY <2>1, <2>2
<1>11. ASSUME NEW c \in Callers, "startSession" \in Calls, BeginStart(c)
       PROVE  AdapterOK' /\ StoreOK' /\ IdleOK' /\ CallsOK'
  <2>1. IdleOK'
    BY <1>11, <1>a DEF BeginStart, Cleared, Goto, IdleOK
  <2>2. CallsOK'
    BY <1>11, <1>a DEF BeginStart, Cleared, Goto, CallsOK
  <2>3. AdapterOK' /\ StoreOK'
    BY <1>11, <1>a DEF BeginStart, AdapterOK, StoreOK
  <2> QED
    BY <2>1, <2>2, <2>3
<1>12. ASSUME NEW c \in Callers, ResumeWork(c)
       PROVE  AdapterOK' /\ StoreOK' /\ IdleOK' /\ CallsOK'
  <2>1. IdleOK'
    BY <1>12, <1>a DEF ResumeWork, Cleared, Goto, IdleOK
  <2>2. CallsOK'
    BY <1>12, <1>a DEF ResumeWork, Cleared, Goto, CallsOK
  <2>3. AdapterOK' /\ StoreOK'
    BY <1>12, <1>a DEF ResumeWork, AdapterOK, StoreOK
  <2> QED
    BY <2>1, <2>2, <2>3
<1>13. ASSUME NEW c \in Callers, Route(c)
       PROVE  AdapterOK' /\ StoreOK' /\ IdleOK' /\ CallsOK'
  <2>1. CallsOK'
    BY <1>13, <1>a DEF Route, Goto, CallsOK, AdapterOK
  <2>2. AdapterOK' /\ StoreOK' /\ IdleOK'
    BY <1>13, <1>a DEF Route, AdapterOK, StoreOK, IdleOK
  <2> QED
    BY <2>1, <2>2
<1>14. ASSUME NEW c \in Callers, Unroutable(c)
       PROVE  AdapterOK' /\ StoreOK' /\ IdleOK' /\ CallsOK'
  <2>1. IdleOK'
    BY <1>14, <1>a DEF Unroutable, Fails, Scheduled, Retired, Goto, IdleOK
  <2>2. CallsOK'
    BY <1>14, <1>a DEF Unroutable, Fails, Scheduled, Retired, Goto, CallsOK, AdapterOK
  <2>3. AdapterOK' /\ StoreOK'
    BY <1>14, <1>a DEF Unroutable, Fails, AdapterOK, StoreOK
  <2> QED
    BY <2>1, <2>2, <2>3
<1>15. ASSUME NEW c \in Callers, Recover(c)
       PROVE  AdapterOK' /\ StoreOK' /\ IdleOK' /\ CallsOK'
  <2>1. AdapterOK'
    BY <1>15, <1>a, LaunchedType DEF Recover, Goto, AdapterOK
  <2>2. CallsOK'
    BY <1>15, <1>a DEF Recover, Goto, CallsOK, AdapterOK
  <2>3. StoreOK' /\ IdleOK'
    BY <1>15, <1>a DEF Recover, StoreOK, IdleOK
  <2> QED
    BY <2>1, <2>2, <2>3
<1>16. ASSUME NEW c \in Callers, Adopt(c)
       PROVE  AdapterOK' /\ StoreOK' /\ IdleOK' /\ CallsOK'
  <2>1. StoreOK'
    BY <1>16, <1>a DEF Adopt, Goto, Row, StoreOK, BindingRow, CallsOK
  <2>2. CallsOK'
    BY <1>16, <1>a DEF Adopt, Goto, Row, CallsOK
  <2>3. AdapterOK' /\ IdleOK'
    BY <1>16, <1>a DEF Adopt, AdapterOK, IdleOK
  <2> QED
    BY <2>1, <2>2, <2>3
<1>17. ASSUME NEW c \in Callers, Dispatch(c)
       PROVE  AdapterOK' /\ StoreOK' /\ IdleOK' /\ CallsOK'
  <2>1. AdapterOK'
    BY <1>17, <1>a, AppendProperties DEF Dispatch, Goto, Event, StartsTurn, AdapterOK,
       AdapterEvent
  <2>2. CallsOK'
    BY <1>17, <1>a DEF Dispatch, Goto, StartsTurn, CallsOK, AdapterOK, Event
  <2>3. StoreOK' /\ IdleOK'
    BY <1>17, <1>a DEF Dispatch, StoreOK, IdleOK
  <2> QED
    BY <2>1, <2>2, <2>3
<1>18. ASSUME NEW c \in Callers, Refused(c)
       PROVE  AdapterOK' /\ StoreOK' /\ IdleOK' /\ CallsOK'
  <2>1. IdleOK'
    BY <1>18, <1>a DEF Refused, Fails, Scheduled, Retired, Goto, IdleOK
  <2>2. CallsOK'
    BY <1>18, <1>a DEF Refused, Fails, Scheduled, Retired, Goto, CallsOK, AdapterOK
  <2>3. AdapterOK' /\ StoreOK'
    BY <1>18, <1>a DEF Refused, Fails, AdapterOK, StoreOK
  <2> QED
    BY <2>1, <2>2, <2>3
<1>19. ASSUME NEW c \in Callers, WriteRunning(c)
       PROVE  AdapterOK' /\ StoreOK' /\ IdleOK' /\ CallsOK'
  <2>1. StoreOK'
    BY <1>19, <1>a DEF WriteRunning, Goto, Row, StoreOK, BindingRow, CallsOK
  <2>2. CallsOK'
    BY <1>19, <1>a DEF WriteRunning, Goto, Row, CallsOK
  <2>3. AdapterOK' /\ IdleOK'
    BY <1>19, <1>a DEF WriteRunning, AdapterOK, IdleOK
  <2> QED
    BY <2>1, <2>2, <2>3
<1>20. ASSUME NEW c \in Callers, ReadSettled(c)
       PROVE  AdapterOK' /\ StoreOK' /\ IdleOK' /\ CallsOK'
  <2>1. StoreOK'
    BY <1>20, <1>a DEF ReadSettled, Goto, StoreOK, BindingRow, CallsOK
  <2>2. CallsOK'
    BY <1>20, <1>a DEF ReadSettled, Goto, CallsOK
  <2>3. AdapterOK' /\ IdleOK'
    BY <1>20, <1>a DEF ReadSettled, AdapterOK, IdleOK
  <2> QED
    BY <2>1, <2>2, <2>3
<1>21. ASSUME NEW c \in Callers, WriteSettled(c)
       PROVE  AdapterOK' /\ StoreOK' /\ IdleOK' /\ CallsOK'
  <2>1. StoreOK'
    BY <1>21, <1>a DEF WriteSettled, Goto, Row, StoreOK, BindingRow, CallsOK
  <2>2. CallsOK'
    BY <1>21, <1>a DEF WriteSettled, Goto, Row, CallsOK
  <2>3. AdapterOK' /\ IdleOK'
    BY <1>21, <1>a DEF WriteSettled, AdapterOK, IdleOK
  <2> QED
    BY <2>1, <2>2, <2>3
<1>22. ASSUME NEW c \in Callers, WriteUnlocked(c)
       PROVE  AdapterOK' /\ StoreOK' /\ IdleOK' /\ CallsOK'
  <2>1. StoreOK'
    BY <1>22, <1>a DEF WriteUnlocked, Goto, Row, StoreOK, BindingRow, CallsOK
  <2>2. CallsOK'
    BY <1>22, <1>a DEF WriteUnlocked, Goto, Row, CallsOK
  <2>3. AdapterOK' /\ IdleOK'
    BY <1>22, <1>a DEF WriteUnlocked, AdapterOK, IdleOK
  <2> QED
    BY <2>1, <2>2, <2>3
<1>23. ASSUME NEW c \in Callers, WriteIdled(c)
       PROVE  AdapterOK' /\ StoreOK' /\ IdleOK' /\ CallsOK'
  <2>1. StoreOK'
    BY <1>23, <1>a DEF WriteIdled, Scheduled, Goto, Row, StoreOK, BindingRow, CallsOK
  <2>2. IdleOK'
    BY <1>23, <1>a DEF WriteIdled, Scheduled, Goto, Row, IdleOK
  <2>3. CallsOK'
    BY <1>23, <1>a DEF WriteIdled, Scheduled, Goto, Row, CallsOK
  <2>4. AdapterOK'
    BY <1>23, <1>a DEF WriteIdled, AdapterOK
  <2> QED
    BY <2>1, <2>2, <2>3, <2>4
<1>24. ASSUME NEW c \in Callers, Launch(c)
       PROVE  AdapterOK' /\ StoreOK' /\ IdleOK' /\ CallsOK'
  <2>1. AdapterOK'
    BY <1>24, <1>a, LaunchedType DEF Launch, Goto, AdapterOK
  <2>2. CallsOK'
    BY <1>24, <1>a DEF Launch, Goto, CallsOK
  <2>3. StoreOK' /\ IdleOK'
    BY <1>24, <1>a DEF Launch, StoreOK, IdleOK
  <2> QED
    BY <2>1, <2>2, <2>3
<1>25. ASSUME NEW c \in Callers, Bind(c)
       PROVE  AdapterOK' /\ StoreOK' /\ IdleOK' /\ CallsOK'
  <2>1. StoreOK'
    BY <1>25, <1>a DEF Bind, Goto, Row, StoreOK, BindingRow, CallsOK
  <2>2. CallsOK'
    BY <1>25, <1>a DEF Bind, Goto, Row, CallsOK
  <2>3. AdapterOK' /\ IdleOK'
    BY <1>25, <1>a DEF Bind, AdapterOK, IdleOK
  <2> QED
    BY <2>1, <2>2, <2>3
<1>26. ASSUME NEW c \in Callers, Halt(c)
       PROVE  AdapterOK' /\ StoreOK' /\ IdleOK' /\ CallsOK'
  <2>1. IdleOK'
    BY <1>26, <1>a DEF Halt, Cleared, Goto, IdleOK
  <2>2. CallsOK'
    BY <1>26, <1>a DEF Halt, Cleared, Goto, CallsOK
  <2>3. AdapterOK' /\ StoreOK'
    BY <1>26, <1>a DEF Halt, AdapterOK, StoreOK
  <2> QED
    BY <2>1, <2>2, <2>3
<1>27. ASSUME NEW c \in Callers, Kill(c)
       PROVE  AdapterOK' /\ StoreOK' /\ IdleOK' /\ CallsOK'
  <2>1. AdapterOK'
    BY <1>27, <1>a, StoppedType DEF Kill, Goto, AdapterOK
  <2>2. CallsOK'
    BY <1>27, <1>a DEF Kill, Goto, CallsOK, AdapterOK
  <2>3. StoreOK' /\ IdleOK'
    BY <1>27, <1>a DEF Kill, StoreOK, IdleOK
  <2> QED
    BY <2>1, <2>2, <2>3
<1>28. ASSUME NEW c \in Callers, KillNothing(c)
       PROVE  AdapterOK' /\ StoreOK' /\ IdleOK' /\ CallsOK'
  <2>1. CallsOK'
    BY <1>28, <1>a DEF KillNothing, Goto, CallsOK, AdapterOK
  <2>2. AdapterOK' /\ StoreOK' /\ IdleOK'
    BY <1>28, <1>a DEF KillNothing, AdapterOK, StoreOK, IdleOK
  <2> QED
    BY <2>1, <2>2
<1>29. ASSUME NEW c \in Callers, KillLocked(c)
       PROVE  AdapterOK' /\ StoreOK' /\ IdleOK' /\ CallsOK'
  <2>1. AdapterOK'
    BY <1>29, <1>a, StoppedType DEF KillLocked, Goto, AdapterOK
  <2>2. StoreOK'
    BY <1>29, <1>a DEF KillLocked, Goto, Event, StoreOK, BindingRow, CallsOK
  <2>3. CallsOK'
    BY <1>29, <1>a DEF KillLocked, Goto, CallsOK
  <2>4. IdleOK'
    BY <1>29, <1>a DEF KillLocked, IdleOK
  <2> QED
    BY <2>1, <2>2, <2>3, <2>4
<1>30. ASSUME NEW c \in Callers, WriteUnset(c)
       PROVE  AdapterOK' /\ StoreOK' /\ IdleOK' /\ CallsOK'
  <2>1. StoreOK'
    BY <1>30, <1>a, <1>l DEF WriteUnset, Goto, Row, StoreOK, BindingRow, CallsOK, LockHeld
  <2>2. CallsOK'
    BY <1>30, <1>a DEF WriteUnset, Goto, Row, CallsOK
  <2>3. AdapterOK' /\ IdleOK'
    BY <1>30, <1>a DEF WriteUnset, AdapterOK, IdleOK
  <2> QED
    BY <2>1, <2>2, <2>3
<1>31. ASSUME NEW c \in Callers, Retire(c)
       PROVE  AdapterOK' /\ StoreOK' /\ IdleOK' /\ CallsOK'
  <2>1. IdleOK'
    BY <1>31, <1>a DEF Retire, Retired, Goto, IdleOK
  <2>2. CallsOK'
    BY <1>31, <1>a DEF Retire, Retired, Goto, CallsOK
  <2>3. AdapterOK' /\ StoreOK'
    BY <1>31, <1>a DEF Retire, AdapterOK, StoreOK
  <2> QED
    BY <2>1, <2>2, <2>3
<1>32. ASSUME NEW c \in Callers, Unbind(c)
       PROVE  AdapterOK' /\ StoreOK' /\ IdleOK' /\ CallsOK'
  <2>1. StoreOK'
    BY <1>32, <1>a DEF Unbind, Retired, Goto, Row, StoreOK, BindingRow, CallsOK
  <2>2. IdleOK'
    BY <1>32, <1>a DEF Unbind, Retired, Goto, Row, IdleOK
  <2>3. CallsOK'
    BY <1>32, <1>a DEF Unbind, Retired, Goto, Row, CallsOK
  <2>4. AdapterOK'
    BY <1>32, <1>a DEF Unbind, AdapterOK
  <2> QED
    BY <2>1, <2>2, <2>3, <2>4
<1>33. CASE UNCHANGED vars
  BY <1>33, <1>a DEF vars, AdapterOK, StoreOK, IdleOK, CallsOK
<1>34. ASSUME NEW c \in Callers, NEW op \in Calls, BeginControl(c, op)
       PROVE  AdapterOK' /\ StoreOK' /\ IdleOK' /\ CallsOK'
  <2>1. CallsOK'
    BY <1>34, <1>a DEF BeginControl, Goto, CallsOK
  <2>2. AdapterOK' /\ StoreOK' /\ IdleOK'
    BY <1>34, <1>a DEF BeginControl, AdapterOK, StoreOK, IdleOK
  <2> QED
    BY <2>1, <2>2
<1>35. ASSUME NEW c \in Callers, Control(c)
       PROVE  AdapterOK' /\ StoreOK' /\ IdleOK' /\ CallsOK'
  <2>1. CallsOK'
    BY <1>35, <1>a DEF Control, Goto, CallsOK
  <2>2. AdapterOK' /\ StoreOK' /\ IdleOK'
    BY <1>35, <1>a DEF Control, AdapterOK, StoreOK, IdleOK
  <2> QED
    BY <2>1, <2>2
<1> QED
  BY <1>1, <1>2, <1>3, <1>4, <1>5, <1>6, <1>7, <1>8, <1>9, <1>10, <1>11, <1>12, <1>13, <1>14,
     <1>15, <1>16, <1>17, <1>18, <1>19, <1>20, <1>21, <1>22, <1>23, <1>24, <1>25, <1>26,
     <1>27, <1>28, <1>29, <1>30, <1>31, <1>32, <1>33, <1>34, <1>35
  DEF Next, Adapter, Handler, IdleStop, Begin, Proceed, vars

------------------------------------------------------------------------------
\* What a step may change

\* Calls go forward, and keep what they have found or sent.
Advance ==
    \A c \in Callers :
        /\ c \in Dispatched => c \in Dispatched'
        /\ Awaited(c)' => Awaited(c) \/ c \notin Dispatched
        /\ found[c] # None => found'[c] = found[c]
        /\ sent[c] # None => sent'[c] = sent[c] /\ call'[c] = call[c]

HeadKept == events # <<>> => events' # <<>> /\ Head(events') = Head(events)

Quiet == UNCHANGED <<session, events, handled>>

\* No mark is lost, and the handler does not come in.
Steady ==
    /\ handled' = handled /\ settled \subseteq settled'
    /\ lock' = "events" => lock = "events"

\* What is written may be written at any time.
Harmless ==
    /\ UNCHANGED <<lock, row, handled>>
    /\ \/ binding' \in {binding, None}
       \/ binding'.turn = None
       \/ \E t \in Callers : t = binding'.turn /\ Excused(t)'

\* The steps that are none of these
Unsteady == ReadEvent \/ WriteEvent \/ (\E c \in Callers : ReadSettled(c))
Locking ==
    \/ ReadEvent \/ WriteEvent
    \/ \E c \in Callers :
          WriteRunning(c) \/ ReadSettled(c) \/ WriteSettled(c) \/ KillLocked(c) \/ WriteUnset(c)
Noisy ==
    \/ TurnEnds \/ SessionExits \/ WriteEvent \/ KillIdle
    \/ \E c \in Callers : Recover(c) \/ Dispatch(c) \/ Launch(c) \/ Kill(c) \/ KillLocked(c)

LEMMA AppendKeepsHead ==
    ASSUME NEW q \in Seq(AdapterEvent), NEW e \in AdapterEvent
    PROVE  Append(q, e) # <<>> /\ (q # <<>> => Head(Append(q, e)) = Head(q))
BY AppendProperties

LEMMA StoppedKeepsHead == ASSUME AdapterOK, Stopped PROVE HeadKept
<1>1. Exited \in AdapterEvent
  BY DEF AdapterEvent, Exited, Event
<1> QED
  BY <1>1, AppendKeepsHead DEF AdapterOK, Stopped, HeadKept

LEMMA LaunchedKeepsHead == ASSUME AdapterOK, Launched PROVE HeadKept
<1>1. Exited \in AdapterEvent /\ Event("session.started", None) \in AdapterEvent
  BY DEF AdapterEvent, Exited, Event
<1> DEFINE q == IF session.live THEN Append(events, Exited) ELSE events
<1>2. q \in Seq(AdapterEvent) /\ (events # <<>> => q # <<>> /\ Head(q) = Head(events))
  BY <1>1, AppendKeepsHead, AppendProperties DEF AdapterOK
<1>3. events' = Append(q, Event("session.started", None))
  BY <1>1, <1>2, AppendIsConcat DEF Launched
<1> QED
  BY <1>1, <1>2, <1>3, AppendKeepsHead DEF HeadKept

LEMMA StepFacts ==
    IInv /\ [Next]_vars =>
        /\ CallsOnce' /\ LockHeld' /\ Advance
        /\ HeadKept \/ WriteEvent
        /\ Quiet \/ Noisy
        /\ Steady \/ Unsteady
        /\ Harmless \/ Locking
<1> SUFFICES ASSUME IInv, [Next]_vars
             PROVE  /\ CallsOnce' /\ LockHeld' /\ Advance
                    /\ HeadKept \/ WriteEvent
                    /\ Quiet \/ Noisy
                    /\ Steady \/ Unsteady
                    /\ Harmless \/ Locking
  OBVIOUS
<1> USE DEF adapter, store, idle, calls
<1>a. AdapterOK /\ StoreOK /\ CallsOK /\ CallsOnce /\ LockHeld
  BY DEF IInv, TypeOK
<1> DEFINE Calls1 == CallsOnce' /\ Advance
<1> DEFINE Queue1 == LockHeld' /\ (HeadKept \/ WriteEvent)
<1> DEFINE Store1 == (Quiet \/ Noisy) /\ (Steady \/ Unsteady) /\ (Harmless \/ Locking)
<1>b. SUFFICES Calls1 /\ Queue1 /\ Store1
  OBVIOUS
<1>1. CASE TurnEnds
  <2>1. Calls1
    BY <1>1, <1>a DEF TurnEnds, CallsOnce, Advance, Dispatched, Awaited
  <2>0. HeadKept
    BY <1>1, <1>a, AppendKeepsHead DEF TurnEnds, HeadKept, AdapterOK, AdapterEvent, Event
  <2>2. Queue1
    BY <1>1, <1>a, <2>0 DEF TurnEnds, LockHeld, HeadKept, StoreOK
  <2>3. Store1
    BY <1>1, <1>a DEF TurnEnds, Noisy, Steady, Harmless
  <2> QED
    BY <2>1, <2>2, <2>3
<1>2. CASE SessionExits
  <2>1. Calls1
    BY <1>2, <1>a DEF SessionExits, CallsOnce, Advance, Dispatched, Awaited
  <2>2. Queue1
    BY <1>2, <1>a, StoppedKeepsHead DEF SessionExits, LockHeld, HeadKept, StoreOK
  <2>3. Store1
    BY <1>2, <1>a DEF SessionExits, Noisy, Steady, Harmless
  <2> QED
    BY <2>1, <2>2, <2>3
<1>3. CASE ReadEvent
  <2>1. Calls1
    BY <1>3, <1>a DEF ReadEvent, CallsOnce, Advance, Dispatched, Awaited
  <2>2. Queue1
    BY <1>3, <1>a DEF ReadEvent, LockHeld, HeadKept, StoreOK
  <2>3. Store1
    BY <1>3, <1>a DEF ReadEvent, Quiet, Unsteady, Locking
  <2> QED
    BY <2>1, <2>2, <2>3
<1>4. CASE WriteEvent
  <2>1. Calls1
    BY <1>4, <1>a DEF WriteEvent, CallsOnce, Advance, Dispatched, Awaited
  <2>2. Queue1
    BY <1>4, <1>a DEF WriteEvent, LockHeld, HeadKept, StoreOK
  <2>3. Store1
    BY <1>4, <1>a DEF WriteEvent, Noisy, Unsteady, Locking
  <2> QED
    BY <2>1, <2>2, <2>3
<1>5. CASE FireTimer
  <2>1. Calls1
    BY <1>5, <1>a DEF FireTimer, CallsOnce, Advance, Dispatched, Awaited
  <2>2. Queue1
    BY <1>5, <1>a DEF FireTimer, LockHeld, HeadKept, StoreOK
  <2>3. Store1
    BY <1>5, <1>a DEF FireTimer, Quiet, Steady, Harmless
  <2> QED
    BY <2>1, <2>2, <2>3
<1>6. CASE LookIdle
  <2>1. Calls1
    BY <1>6, <1>a DEF LookIdle, CallsOnce, Advance, Dispatched, Awaited
  <2>2. Queue1
    BY <1>6, <1>a DEF LookIdle, LockHeld, HeadKept, StoreOK
  <2>3. Store1
    BY <1>6, <1>a DEF LookIdle, Quiet, Steady, Harmless
  <2> QED
    BY <2>1, <2>2, <2>3
<1>7. CASE KillIdle
  <2>1. Calls1
    BY <1>7, <1>a DEF KillIdle, CallsOnce, Advance, Dispatched, Awaited
  <2>2. Queue1
    BY <1>7, <1>a, StoppedKeepsHead DEF KillIdle, LockHeld, HeadKept, StoreOK
  <2>3. Store1
    BY <1>7, <1>a DEF KillIdle, Noisy, Steady, Harmless
  <2> QED
    BY <2>1, <2>2, <2>3
<1>8. CASE WriteIdle
  <2>1. Calls1
    BY <1>8, <1>a DEF WriteIdle, CallsOnce, Advance, Dispatched, Awaited
  <2>2. Queue1
    BY <1>8, <1>a DEF WriteIdle, LockHeld, HeadKept, StoreOK
  <2>3. Store1
    BY <1>8, <1>a DEF WriteIdle, Quiet, Steady, Harmless, Row
  <2> QED
    BY <2>1, <2>2, <2>3
<1>9. ASSUME NEW c \in Callers, NEW op \in Calls, BeginWork(c, op)
       PROVE  Calls1 /\ Queue1 /\ Store1
  <2>1. Calls1
    BY <1>9, <1>a DEF BeginWork, Goto, CallsOK, CallsOnce, Advance, Dispatched, Awaited
  <2>2. Queue1
    BY <1>9, <1>a DEF BeginWork, Goto, LockHeld, HeadKept, StoreOK, CallsOK
  <2>3. Store1
    BY <1>9, <1>a DEF BeginWork, Goto, Quiet, Steady, Harmless
  <2> QED
    BY <2>1, <2>2, <2>3
<1>10. ASSUME NEW c \in Callers, NEW op \in Calls, BeginStop(c, op)
       PROVE  Calls1 /\ Queue1 /\ Store1
  <2>1. Calls1
    BY <1>10, <1>a DEF BeginStop, Goto, CallsOK, CallsOnce, Advance, Dispatched, Awaited
  <2>2. Queue1
    BY <1>10, <1>a DEF BeginStop, Goto, LockHeld, HeadKept, StoreOK, CallsOK
  <2>3. Store1
    BY <1>10, <1>a DEF BeginStop, Goto, Quiet, Steady, Harmless
  <2> QED
    BY <2>1, <2>2, <2>3
<1>11. ASSUME NEW c \in Callers, "startSession" \in Calls, BeginStart(c)
       PROVE  Calls1 /\ Queue1 /\ Store1
  <2>1. Calls1
    BY <1>11, <1>a DEF BeginStart, Goto, CallsOK, CallsOnce, Advance, Dispatched, Awaited
  <2>2. Queue1
    BY <1>11, <1>a DEF BeginStart, Goto, LockHeld, HeadKept, StoreOK, CallsOK
  <2>3. Store1
    BY <1>11, <1>a DEF BeginStart, Goto, Quiet, Steady, Harmless
  <2> QED
    BY <2>1, <2>2, <2>3
<1>12. ASSUME NEW c \in Callers, ResumeWork(c)
       PROVE  Calls1 /\ Queue1 /\ Store1
  <2>1. Calls1
    BY <1>12, <1>a DEF ResumeWork, Goto, CallsOK, CallsOnce, Advance, Dispatched, Awaited
  <2>2. Queue1
    BY <1>12, <1>a DEF ResumeWork, Goto, LockHeld, HeadKept, StoreOK, CallsOK
  <2>3. Store1
    BY <1>12, <1>a DEF ResumeWork, Goto, Quiet, Steady, Harmless
  <2> QED
    BY <2>1, <2>2, <2>3
<1>13. ASSUME NEW c \in Callers, Route(c)
       PROVE  Calls1 /\ Queue1 /\ Store1
  <2>1. Calls1
    BY <1>13, <1>a DEF Route, Goto, CallsOK, CallsOnce, Advance, Dispatched, Awaited
  <2>2. Queue1
    BY <1>13, <1>a DEF Route, Goto, LockHeld, HeadKept, StoreOK, CallsOK
  <2>3. Store1
    BY <1>13, <1>a DEF Route, Goto, Quiet, Steady, Harmless
  <2> QED
    BY <2>1, <2>2, <2>3
<1>14. ASSUME NEW c \in Callers, Unroutable(c)
       PROVE  Calls1 /\ Queue1 /\ Store1
  <2>1. Calls1
    BY <1>14, <1>a DEF Unroutable, Fails, Goto, CallsOK, CallsOnce, Advance, Dispatched,
       Awaited
  <2>2. Queue1
    BY <1>14, <1>a DEF Unroutable, Fails, Goto, LockHeld, HeadKept, StoreOK, CallsOK
  <2>3. Store1
    BY <1>14, <1>a DEF Unroutable, Fails, Goto, Quiet, Steady, Harmless
  <2> QED
    BY <2>1, <2>2, <2>3
<1>15. ASSUME NEW c \in Callers, Recover(c)
       PROVE  Calls1 /\ Queue1 /\ Store1
  <2>1. Calls1
    BY <1>15, <1>a DEF Recover, Goto, CallsOK, AdapterOK, CallsOnce, Advance, Dispatched,
       Awaited
  <2>2. Queue1
    BY <1>15, <1>a, LaunchedKeepsHead DEF Recover, Goto, LockHeld, HeadKept, StoreOK,
       CallsOK
  <2>3. Store1
    BY <1>15, <1>a DEF Recover, Goto, Noisy, Steady, Harmless
  <2> QED
    BY <2>1, <2>2, <2>3
<1>16. ASSUME NEW c \in Callers, Adopt(c)
       PROVE  Calls1 /\ Queue1 /\ Store1
  <2>1. Calls1
    BY <1>16, <1>a DEF Adopt, Goto, CallsOK, CallsOnce, Advance, Dispatched, Awaited
  <2>2. Queue1
    BY <1>16, <1>a DEF Adopt, Goto, LockHeld, HeadKept, StoreOK, CallsOK
  <2>3. Store1
    BY <1>16, <1>a DEF Adopt, Goto, Quiet, Steady, Harmless, Excused, Row, CallsOK
  <2> QED
    BY <2>1, <2>2, <2>3
<1>17. ASSUME NEW c \in Callers, Dispatch(c)
       PROVE  Calls1 /\ Queue1 /\ Store1
  <2>1. Calls1
    BY <1>17, <1>a DEF Dispatch, Goto, StartsTurn, CallsOK, AdapterOK, CallsOnce, Advance,
       Dispatched, Awaited
  <2>0. HeadKept
    BY <1>17, <1>a, AppendKeepsHead DEF Dispatch, Goto, StartsTurn, HeadKept, AdapterOK,
       AdapterEvent, Event
  <2>2. Queue1
    BY <1>17, <1>a, <2>0 DEF Dispatch, Goto, StartsTurn, LockHeld, HeadKept, StoreOK,
       CallsOK
  <2>3. Store1
    BY <1>17, <1>a DEF Dispatch, Goto, StartsTurn, Noisy, Steady, Harmless
  <2> QED
    BY <2>1, <2>2, <2>3
<1>18. ASSUME NEW c \in Callers, Refused(c)
       PROVE  Calls1 /\ Queue1 /\ Store1
  <2>1. Calls1
    BY <1>18, <1>a DEF Refused, Fails, Goto, CallsOK, CallsOnce, Advance, Dispatched,
       Awaited
  <2>2. Queue1
    BY <1>18, <1>a DEF Refused, Fails, Goto, LockHeld, HeadKept, StoreOK, CallsOK
  <2>3. Store1
    BY <1>18, <1>a DEF Refused, Fails, Goto, Quiet, Steady, Harmless
  <2> QED
    BY <2>1, <2>2, <2>3
<1>19. ASSUME NEW c \in Callers, WriteRunning(c)
       PROVE  Calls1 /\ Queue1 /\ Store1
  <2>1. Calls1
    BY <1>19, <1>a DEF WriteRunning, Goto, CallsOK, CallsOnce, Advance, Dispatched, Awaited
  <2>2. Queue1
    BY <1>19, <1>a DEF WriteRunning, Goto, LockHeld, HeadKept, StoreOK, CallsOK
  <2>3. Store1
    BY <1>19, <1>a DEF WriteRunning, Goto, Quiet, Steady, Locking
  <2> QED
    BY <2>1, <2>2, <2>3
<1>20. ASSUME NEW c \in Callers, ReadSettled(c)
       PROVE  Calls1 /\ Queue1 /\ Store1
  <2>1. Calls1
    BY <1>20, <1>a DEF ReadSettled, Goto, CallsOK, CallsOnce, Advance, Dispatched, Awaited
  <2>2. Queue1
    BY <1>20, <1>a DEF ReadSettled, Goto, LockHeld, HeadKept, StoreOK, CallsOK
  <2>3. Store1
    BY <1>20, <1>a DEF ReadSettled, Goto, Quiet, Unsteady, Locking
  <2> QED
    BY <2>1, <2>2, <2>3
<1>21. ASSUME NEW c \in Callers, WriteSettled(c)
       PROVE  Calls1 /\ Queue1 /\ Store1
  <2>1. Calls1
    BY <1>21, <1>a DEF WriteSettled, Goto, CallsOK, CallsOnce, Advance, Dispatched, Awaited
  <2>2. Queue1
    BY <1>21, <1>a DEF WriteSettled, Goto, LockHeld, HeadKept, StoreOK, CallsOK
  <2>3. Store1
    BY <1>21, <1>a DEF WriteSettled, Goto, Quiet, Steady, Locking
  <2> QED
    BY <2>1, <2>2, <2>3
<1>22. ASSUME NEW c \in Callers, WriteUnlocked(c)
       PROVE  Calls1 /\ Queue1 /\ Store1
  <2>1. Calls1
    BY <1>22, <1>a DEF WriteUnlocked, Goto, CallsOK, CallsOnce, Advance, Dispatched, Awaited
  <2>2. Queue1
    BY <1>22, <1>a DEF WriteUnlocked, Goto, LockHeld, HeadKept, StoreOK, CallsOK
  <2>3. Store1
    BY <1>22, <1>a DEF WriteUnlocked, Goto, Quiet, Steady, Harmless, Excused, Row, CallsOK
  <2> QED
    BY <2>1, <2>2, <2>3
<1>23. ASSUME NEW c \in Callers, WriteIdled(c)
       PROVE  Calls1 /\ Queue1 /\ Store1
  <2>1. Calls1
    BY <1>23, <1>a DEF WriteIdled, Goto, CallsOK, CallsOnce, Advance, Dispatched, Awaited
  <2>2. Queue1
    BY <1>23, <1>a DEF WriteIdled, Goto, LockHeld, HeadKept, StoreOK, CallsOK
  <2>3. Store1
    BY <1>23, <1>a DEF WriteIdled, Goto, Quiet, Steady, Harmless, Row
  <2> QED
    BY <2>1, <2>2, <2>3
<1>24. ASSUME NEW c \in Callers, Launch(c)
       PROVE  Calls1 /\ Queue1 /\ Store1
  <2>1. Calls1
    BY <1>24, <1>a DEF Launch, Goto, CallsOK, CallsOnce, Advance, Dispatched, Awaited
  <2>2. Queue1
    BY <1>24, <1>a, LaunchedKeepsHead DEF Launch, Goto, LockHeld, HeadKept, StoreOK, CallsOK
  <2>3. Store1
    BY <1>24, <1>a DEF Launch, Goto, Noisy, Steady, Harmless
  <2> QED
    BY <2>1, <2>2, <2>3
<1>25. ASSUME NEW c \in Callers, Bind(c)
       PROVE  Calls1 /\ Queue1 /\ Store1
  <2>1. Calls1
    BY <1>25, <1>a DEF Bind, Goto, CallsOK, CallsOnce, Advance, Dispatched, Awaited
  <2>2. Queue1
    BY <1>25, <1>a DEF Bind, Goto, LockHeld, HeadKept, StoreOK, CallsOK
  <2>3. Store1
    BY <1>25, <1>a DEF Bind, Goto, Quiet, Steady, Harmless, Row
  <2> QED
    BY <2>1, <2>2, <2>3
<1>26. ASSUME NEW c \in Callers, Halt(c)
       PROVE  Calls1 /\ Queue1 /\ Store1
  <2>1. Calls1
    BY <1>26, <1>a DEF Halt, Goto, CallsOK, CallsOnce, Advance, Dispatched, Awaited
  <2>2. Queue1
    BY <1>26, <1>a DEF Halt, Goto, LockHeld, HeadKept, StoreOK, CallsOK
  <2>3. Store1
    BY <1>26, <1>a DEF Halt, Goto, Quiet, Steady, Harmless
  <2> QED
    BY <2>1, <2>2, <2>3
<1>27. ASSUME NEW c \in Callers, Kill(c)
       PROVE  Calls1 /\ Queue1 /\ Store1
  <2>1. Calls1
    BY <1>27, <1>a DEF Kill, Goto, CallsOK, CallsOnce, Advance, Dispatched, Awaited
  <2>2. Queue1
    BY <1>27, <1>a, StoppedKeepsHead DEF Kill, Goto, LockHeld, HeadKept, StoreOK, CallsOK
  <2>3. Store1
    BY <1>27, <1>a DEF Kill, Goto, Noisy, Steady, Harmless
  <2> QED
    BY <2>1, <2>2, <2>3
<1>28. ASSUME NEW c \in Callers, KillNothing(c)
       PROVE  Calls1 /\ Queue1 /\ Store1
  <2>1. Calls1
    BY <1>28, <1>a DEF KillNothing, Goto, CallsOK, CallsOnce, Advance, Dispatched, Awaited
  <2>2. Queue1
    BY <1>28, <1>a DEF KillNothing, Goto, LockHeld, HeadKept, StoreOK, CallsOK
  <2>3. Store1
    BY <1>28, <1>a DEF KillNothing, Goto, Quiet, Steady, Harmless
  <2> QED
    BY <2>1, <2>2, <2>3
<1>29. ASSUME NEW c \in Callers, KillLocked(c)
       PROVE  Calls1 /\ Queue1 /\ Store1
  <2>1. Calls1
    BY <1>29, <1>a DEF KillLocked, Goto, CallsOK, CallsOnce, Advance, Dispatched, Awaited
  <2>2. Queue1
    BY <1>29, <1>a, StoppedKeepsHead DEF KillLocked, Goto, LockHeld, HeadKept, StoreOK,
       CallsOK
  <2>3. Store1
    BY <1>29, <1>a DEF KillLocked, Goto, Noisy, Steady, Locking
  <2> QED
    BY <2>1, <2>2, <2>3
<1>30. ASSUME NEW c \in Callers, WriteUnset(c)
       PROVE  Calls1 /\ Queue1 /\ Store1
  <2>1. Calls1
    BY <1>30, <1>a DEF WriteUnset, Goto, CallsOK, CallsOnce, Advance, Dispatched, Awaited
  <2>2. Queue1
    BY <1>30, <1>a DEF WriteUnset, Goto, LockHeld, HeadKept, StoreOK, CallsOK
  <2>3. Store1
    BY <1>30, <1>a DEF WriteUnset, Goto, Quiet, Steady, Locking
  <2> QED
    BY <2>1, <2>2, <2>3
<1>31. ASSUME NEW c \in Callers, Retire(c)
       PROVE  Calls1 /\ Queue1 /\ Store1
  <2>1. Calls1
    BY <1>31, <1>a DEF Retire, Goto, CallsOK, CallsOnce, Advance, Dispatched, Awaited
  <2>2. Queue1
    BY <1>31, <1>a DEF Retire, Goto, LockHeld, HeadKept, StoreOK, CallsOK
  <2>3. Store1
    BY <1>31, <1>a DEF Retire, Goto, Quiet, Steady, Harmless
  <2> QED
    BY <2>1, <2>2, <2>3
<1>32. ASSUME NEW c \in Callers, Unbind(c)
       PROVE  Calls1 /\ Queue1 /\ Store1
  <2>1. Calls1
    BY <1>32, <1>a DEF Unbind, Goto, CallsOK, CallsOnce, Advance, Dispatched, Awaited
  <2>2. Queue1
    BY <1>32, <1>a DEF Unbind, Goto, LockHeld, HeadKept, StoreOK, CallsOK
  <2>3. Store1
    BY <1>32, <1>a DEF Unbind, Goto, Quiet, Steady, Harmless, Row
  <2> QED
    BY <2>1, <2>2, <2>3
<1>33. CASE UNCHANGED vars
  BY <1>33, <1>a DEF vars, CallsOnce, Advance, Dispatched, Awaited, LockHeld, HeadKept, Quiet, Steady, Harmless
<1>34. ASSUME NEW c \in Callers, NEW op \in Calls, BeginControl(c, op)
       PROVE  Calls1 /\ Queue1 /\ Store1
  <2>1. Calls1
    BY <1>34, <1>a DEF BeginControl, Controls, Goto, CallsOK, CallsOnce, Advance, Dispatched, Awaited
  <2>2. Queue1
    BY <1>34, <1>a DEF BeginControl, Goto, LockHeld, HeadKept, StoreOK, CallsOK
  <2>3. Store1
    BY <1>34, <1>a DEF BeginControl, Goto, Quiet, Steady, Harmless
  <2> QED
    BY <2>1, <2>2, <2>3
<1>35. ASSUME NEW c \in Callers, Control(c)
       PROVE  Calls1 /\ Queue1 /\ Store1
  <2>1. Calls1
    BY <1>35, <1>a DEF Control, Controls, Goto, CallsOK, CallsOnce, Advance, Dispatched, Awaited
  <2>2. Queue1
    BY <1>35, <1>a DEF Control, Goto, LockHeld, HeadKept, StoreOK, CallsOK
  <2>3. Store1
    BY <1>35, <1>a DEF Control, Goto, Quiet, Steady, Harmless
  <2> QED
    BY <2>1, <2>2, <2>3
<1> QED
  BY <1>1, <1>2, <1>3, <1>4, <1>5, <1>6, <1>7, <1>8, <1>9, <1>10, <1>11, <1>12, <1>13, <1>14,
     <1>15, <1>16, <1>17, <1>18, <1>19, <1>20, <1>21, <1>22, <1>23, <1>24, <1>25, <1>26,
     <1>27, <1>28, <1>29, <1>30, <1>31, <1>32, <1>33, <1>34, <1>35
  DEF Next, Adapter, Handler, IdleStop, Begin, Proceed, vars

------------------------------------------------------------------------------
\* The order of the events

LEMMA OrderedAppend ==
    ASSUME NEW q \in Seq(AdapterEvent), NEW e \in AdapterEvent, NEW h, NEW d,
           Ordered(q, h, d),
           e.turn # None => e.turn \in d,
           e.kind = "turn.completed" => e.turn # None,
           e.kind = "turn.started" =>
               e.turn \notin h /\ \A i \in DOMAIN q : q[i].turn # e.turn
    PROVE  Ordered(Append(q, e), h, d)
<1> DEFINE p == Append(q, e)
<1>1. /\ p \in Seq(AdapterEvent) /\ Len(q) \in Nat
      /\ DOMAIN q = 1..Len(q) /\ DOMAIN p = 1..(Len(q) + 1)
      /\ \A i \in 1..Len(q) : p[i] = q[i]
      /\ p[Len(q) + 1] = e
  BY AppendProperties
<1> HIDE DEF p
<1>2. ASSUME NEW i \in DOMAIN p
      PROVE  /\ p[i].kind = "turn.started" => p[i].turn \notin h
             /\ p[i].kind = "turn.completed" => p[i].turn # None
             /\ p[i].turn # None => p[i].turn \in d
  BY <1>1 DEF Ordered
<1>3. ASSUME NEW i \in DOMAIN p, NEW j \in DOMAIN p, i < j,
             p[i].kind = "turn.completed", p[j].kind = "turn.started"
      PROVE  p[i].turn # p[j].turn
  <2>1. i \in DOMAIN q
    BY <1>1, <1>3
  <2> QED
    BY <1>1, <1>3, <2>1 DEF Ordered
<1>4. Ordered(p, h, d)
  BY <1>2, <1>3 DEF Ordered
<1> QED
  BY <1>4 DEF p

\* The end of the session and its start name no turn.
LEMMA StoppedOrdered ==
    ASSUME AdapterOK, Stopped, NEW h, NEW d, Ordered(events, h, d)
    PROVE  Ordered(events', h, d) /\ session'.turn = None
<1>1. Exited \in AdapterEvent /\ Exited.turn = None /\ Exited.kind = "session.exited"
  BY DEF AdapterEvent, Exited, Event
<1>2. Ordered(Append(events, Exited), h, d)
  BY <1>1, OrderedAppend DEF AdapterOK
<1> QED
  BY <1>2 DEF Stopped, Gone

LEMMA LaunchedOrdered ==
    ASSUME AdapterOK, Launched, NEW h, NEW d, Ordered(events, h, d)
    PROVE  Ordered(events', h, d) /\ session'.turn = None
<1> DEFINE e == Event("session.started", None)
           q == IF session.live THEN Append(events, Exited) ELSE events
<1>1. Exited \in AdapterEvent /\ Exited.turn = None /\ Exited.kind = "session.exited"
  BY DEF AdapterEvent, Exited, Event
<1>2. e \in AdapterEvent /\ e.turn = None /\ e.kind = "session.started"
  BY DEF AdapterEvent, Event
<1>3. q \in Seq(AdapterEvent) /\ Ordered(q, h, d)
  BY <1>1, OrderedAppend, AppendProperties DEF AdapterOK
<1>4. events' = Append(q, e)
  BY <1>2, <1>3, AppendIsConcat DEF Launched
<1>5. Ordered(Append(q, e), h, d)
  BY <1>2, <1>3, OrderedAppend
<1> QED
  BY <1>4, <1>5 DEF Launched, Ready

LEMMA OrderedTail ==
    ASSUME NEW q \in Seq(AdapterEvent), q # <<>>, NEW h, NEW d, Ordered(q, h, d)
    PROVE  LET done == IF Head(q).kind = "turn.completed" THEN {Head(q).turn} ELSE {}
           IN  Ordered(Tail(q), h \cup done, d)
<1> DEFINE p == Tail(q)
           done == IF Head(q).kind = "turn.completed" THEN {Head(q).turn} ELSE {}
<1>1. /\ Len(q) \in Nat \ {0} /\ DOMAIN q = 1..Len(q) /\ DOMAIN p = 1..(Len(q) - 1)
      /\ \A i \in DOMAIN p : p[i] = q[i + 1]
      /\ Head(q) = q[1]
  BY HeadTailProperties, EmptySeq
<1> HIDE DEF p
<1>2. ASSUME NEW i \in DOMAIN p
      PROVE  /\ p[i].kind = "turn.started" => p[i].turn \notin h \cup done
             /\ p[i].kind = "turn.completed" => p[i].turn # None
             /\ p[i].turn # None => p[i].turn \in d
  <2>1. i + 1 \in DOMAIN q /\ 1 \in DOMAIN q /\ 1 < i + 1
    BY <1>1
  <2> QED
    BY <1>1, <2>1 DEF Ordered
<1>3. ASSUME NEW i \in DOMAIN p, NEW j \in DOMAIN p, i < j,
             p[i].kind = "turn.completed", p[j].kind = "turn.started"
      PROVE  p[i].turn # p[j].turn
  <2>1. i + 1 \in DOMAIN q /\ j + 1 \in DOMAIN q /\ i + 1 < j + 1
    BY <1>1, <1>3
  <2> QED
    BY <1>1, <1>3, <2>1 DEF Ordered
<1>4. Ordered(p, h \cup done, d)
  BY <1>2, <1>3 DEF Ordered
<1> QED
  BY <1>4 DEF p

LEMMA EventsNext == IInv /\ [Next]_vars => EventsOrdered' /\ TurnsDispatched'
<1> SUFFICES ASSUME IInv, [Next]_vars PROVE EventsOrdered' /\ TurnsDispatched' OBVIOUS
<1> USE DEF adapter, store, idle, calls
<1>a. /\ AdapterOK /\ StoreOK /\ CallsOK /\ LockHeld
      /\ Ordered(events, handled, Dispatched) /\ TurnsDispatched
  BY DEF IInv, TypeOK, EventsOrdered
<1>b. Dispatched \subseteq Dispatched' /\ (Quiet \/ Noisy)
  BY StepFacts DEF Advance, Dispatched
<1>c. Ordered(events, handled, Dispatched') /\ handled \subseteq Dispatched'
  BY <1>a, <1>b DEF Ordered, TurnsDispatched
<1>d. SUFFICES Ordered(events', handled', Dispatched')
               /\ handled' \subseteq Dispatched' /\ (session'.turn # None => session'.turn \in Dispatched')
  BY DEF EventsOrdered, TurnsDispatched
<1>1. CASE Quiet
  BY <1>1, <1>a, <1>b, <1>c DEF Quiet, TurnsDispatched
<1>2. CASE TurnEnds
  <2> DEFINE e == Event("turn.completed", session.turn)
  <2>1. /\ e \in AdapterEvent /\ e.turn = session.turn /\ e.turn # None
        /\ e.kind = "turn.completed" /\ e.turn \in Dispatched'
    BY <1>2, <1>a, <1>b DEF TurnEnds, Event, AdapterEvent, AdapterOK, TurnsDispatched
  <2>2. Ordered(Append(events, e), handled, Dispatched')
    BY <1>a, <1>c, <2>1, OrderedAppend DEF AdapterOK
  <2> QED
    BY <1>2, <1>c, <2>2 DEF TurnEnds, Ready
<1>3. CASE SessionExits
  BY <1>3, <1>a, <1>c, StoppedOrdered DEF SessionExits
<1>4. CASE WriteEvent
  <2>1. events # <<>> /\ Head(events) \in AdapterEvent
    BY <1>4, <1>a, HeadTailProperties DEF WriteEvent, LockHeld, AdapterOK
  <2>2. Head(events).kind = "turn.completed" => Head(events).turn \in Dispatched'
    BY <1>a, <1>c, <2>1 DEF Ordered, AdapterOK
  <2>3. Ordered(Tail(events), handled', Dispatched')
    BY <1>4, <1>a, <1>c, <2>1, OrderedTail DEF WriteEvent, AdapterOK
  <2> QED
    BY <1>4, <1>a, <1>b, <1>c, <2>2, <2>3 DEF WriteEvent, TurnsDispatched
<1>5. CASE KillIdle
  BY <1>5, <1>a, <1>b, <1>c, StoppedOrdered DEF KillIdle, TurnsDispatched
<1>6. ASSUME NEW c \in Callers, Recover(c)
      PROVE  Ordered(events', handled', Dispatched')
             /\ handled' \subseteq Dispatched' /\ (session'.turn # None => session'.turn \in Dispatched')
  BY <1>6, <1>a, <1>b, <1>c, LaunchedOrdered DEF Recover, TurnsDispatched
<1>7. ASSUME NEW c \in Callers, Dispatch(c)
      PROVE  Ordered(events', handled', Dispatched')
             /\ handled' \subseteq Dispatched' /\ (session'.turn # None => session'.turn \in Dispatched')
  <2>1. c \notin Dispatched /\ c \in Dispatched' /\ c # None
    BY <1>7, <1>a DEF Dispatch, Goto, Dispatched, CallsOK
  <2>2. session'.turn # None => session'.turn \in Dispatched'
    BY <1>7, <1>a, <1>b, <2>1 DEF Dispatch, AdapterOK, TurnsDispatched
  <2> DEFINE e == Event("turn.started", c)
             k == Event("compacted", None)
  <2>3. e \in AdapterEvent /\ e.turn = c /\ e.kind = "turn.started"
    BY DEF Event, AdapterEvent
  <2>4. k \in AdapterEvent /\ k.turn = None /\ k.kind = "compacted"
    BY DEF Event, AdapterEvent
  <2>5. c \notin handled /\ \A i \in DOMAIN events : events[i].turn # c
    BY <1>a, <2>1 DEF Ordered, TurnsDispatched
  <2>6. Ordered(Append(events, e), handled, Dispatched')
    BY <1>a, <1>c, <2>1, <2>3, <2>5, OrderedAppend DEF AdapterOK
  <2>7. Ordered(Append(events, k), handled, Dispatched')
    BY <1>a, <1>c, <2>4, OrderedAppend DEF AdapterOK
  <2> QED
    BY <1>7, <1>c, <2>2, <2>6, <2>7 DEF Dispatch
<1>8. ASSUME NEW c \in Callers, Launch(c)
      PROVE  Ordered(events', handled', Dispatched')
             /\ handled' \subseteq Dispatched' /\ (session'.turn # None => session'.turn \in Dispatched')
  BY <1>8, <1>a, <1>c, LaunchedOrdered DEF Launch
<1>9. ASSUME NEW c \in Callers, Kill(c) \/ KillLocked(c)
      PROVE  Ordered(events', handled', Dispatched')
             /\ handled' \subseteq Dispatched' /\ (session'.turn # None => session'.turn \in Dispatched')
  BY <1>9, <1>a, <1>b, <1>c, StoppedOrdered DEF Kill, KillLocked, TurnsDispatched
<1> QED
  BY <1>b, <1>1, <1>2, <1>3, <1>4, <1>5, <1>6, <1>7, <1>8, <1>9 DEF Noisy

------------------------------------------------------------------------------
\* The marks

LEMMA MarkedNext == IInv /\ [Next]_vars => Marked'
<1> SUFFICES ASSUME IInv, [Next]_vars PROVE Marked' OBVIOUS
<1> USE DEF adapter, store, idle, calls
<1>a. /\ AdapterOK /\ StoreOK /\ CallsOK /\ CallsOnce /\ LockHeld /\ Marked
      /\ handled \subseteq Dispatched /\ Ordered(events, handled, Dispatched)
  BY DEF IInv, TypeOK, EventsOrdered, TurnsDispatched
<1>b. Advance /\ (HeadKept \/ WriteEvent) /\ (Steady \/ Unsteady)
  BY StepFacts
<1>c. ASSUME events # <<>>, Head(events).kind = "turn.completed"
      PROVE  Head(events).turn \in Dispatched
  <2>1. 1 \in DOMAIN events /\ Head(events) = events[1]
    BY <1>a, <1>c, EmptySeq DEF AdapterOK
  <2> QED
    BY <1>a, <1>c, <2>1 DEF Ordered
<1>d. \A t \in Dispatched : Awaited(t)' => Awaited(t)
  BY <1>b DEF Advance, Dispatched
<1>1. CASE Steady /\ HeadKept
  <2>1. \A c \in handled' : Awaited(c)' => c \in settled'
    BY <1>1, <1>a, <1>d DEF Steady, Marked
  <2>2. lock' = "events" => lock = "events" /\ events # <<>> /\ Head(events') = Head(events)
    BY <1>1, <1>a DEF Steady, HeadKept, LockHeld
  <2>3. ASSUME NEW t, lock' = "events", Head(events') = Event("turn.completed", t),
               Awaited(t)'
        PROVE  t \in settled'
    <3>1. t \in Dispatched /\ Head(events).kind = "turn.completed" /\ Head(events).turn = t
      BY <1>c, <2>2, <2>3 DEF Event
    <3>2. Awaited(t)
      BY <1>d, <2>3, <3>1
    <3> QED
      BY <1>1, <1>a, <2>2, <2>3, <3>1, <3>2 DEF Steady, Marked
  <2>4. lock' = "events" => Head(events') \in AdapterEvent
    BY <1>a, <2>2, HeadTailProperties DEF AdapterOK
  <2>5. ASSUME lock' = "events", Head(events').kind = "turn.completed"
        PROVE  \A t : t = Head(events').turn => Head(events') = Event("turn.completed", t)
    BY <2>4, <2>5 DEF AdapterEvent, Event
  <2>6. (lock' = "events" /\ Head(events').kind = "turn.completed") =>
          \A t : (t = Head(events').turn /\ Awaited(t)') => t \in settled'
    BY <2>3, <2>5
  <2> QED
    BY <2>1, <2>6 DEF Marked, Awaited
<1>2. CASE ReadEvent
  BY <1>2, <1>a DEF ReadEvent, Marked, Awaited
<1>3. CASE WriteEvent
  BY <1>3, <1>a DEF WriteEvent, Marked, Awaited
<1>4. ASSUME NEW c \in Callers, ReadSettled(c)
      PROVE  Marked'
  <2>1. settled' = settled \ {c} /\ lock' = c /\ handled' = handled /\ ~Awaited(c)'
    BY <1>4, <1>a DEF ReadSettled, CallsOnce, Goto, CallsOK, Awaited
  <2> QED
    BY <1>a, <1>d, <2>1 DEF Marked, Awaited
<1> QED
  BY <1>b, <1>1, <1>2, <1>3, <1>4 DEF Unsteady

------------------------------------------------------------------------------
\* The rows

LEMMA RowsNext == IInv /\ [Next]_vars => RowHonest' /\ SettledStaysSettled'
<1> SUFFICES ASSUME IInv, [Next]_vars PROVE RowHonest' /\ SettledStaysSettled' OBVIOUS
<1> USE DEF adapter, store, idle, calls
<1>a. /\ AdapterOK /\ StoreOK /\ CallsOK /\ CallsOnce /\ LockHeld /\ Marked /\ RowHonest
      /\ Ordered(events, handled, Dispatched)
  BY DEF IInv, TypeOK, EventsOrdered
<1>b. Advance /\ (Harmless \/ Locking) /\ StoreOK'
  BY StepFacts, TypeNext DEF TypeOK
<1>c. \A t \in Callers : Excused(t) => Excused(t)'
  BY <1>a, <1>b DEF Advance, Excused, CallsOK
<1>d. (binding # None /\ binding.turn \in handled) => Excused(binding.turn)
  BY DEF IInv, SettledStaysSettled, Excused
<1> DEFINE Goal == /\ RowHonest'
                   /\ (binding' # None /\ binding'.turn \in handled')
                         => \E t \in Callers : t = binding'.turn /\ Excused(t)'
<1>e. SUFFICES Goal
  BY DEF SettledStaysSettled, Excused
<1>1. CASE Harmless
  BY <1>1, <1>a, <1>b, <1>c, <1>d DEF Harmless, RowHonest, StoreOK, BindingRow, Excused
<1>2. CASE ReadEvent
  BY <1>2, <1>a, <1>c, <1>d DEF ReadEvent, RowHonest, StoreOK, BindingRow, Excused
<1>3. CASE WriteEvent
  <2> DEFINE e == Head(events)
  <2>1. /\ lock' = None /\ lock # None
        /\ binding' = (IF row = None THEN binding ELSE After(e, row))
        /\ handled' = (IF e.kind = "turn.completed" THEN handled \cup {e.turn} ELSE handled)
    BY <1>3, <1>a DEF WriteEvent
  <2>2. events # <<>> /\ (e.kind = "turn.started" => e.turn \notin handled)
    <3>1. 1 \in DOMAIN events /\ e = events[1]
      BY <1>3, <1>a, EmptySeq DEF WriteEvent, LockHeld, AdapterOK
    <3> QED
      BY <1>a, <3>1 DEF Ordered
  <2>3. RowHonest'
    BY <2>1 DEF RowHonest
  <2>4. CASE row = None
    BY <1>a, <1>b, <1>c, <2>1, <2>3, <2>4 DEF RowHonest, StoreOK, BindingRow
  <2>5. CASE row # None /\ e.kind \in {"compacted", "session.started"}
    <3>1. binding'.turn = row.turn /\ handled' = handled
      BY <2>1, <2>5 DEF After, Row
    <3> QED
      BY <1>a, <1>b, <1>c, <2>1, <2>3, <2>5, <3>1 DEF RowHonest, StoreOK, BindingRow
  <2>6. CASE row # None /\ e.kind = "turn.started"
    BY <2>1, <2>2, <2>3, <2>6 DEF After, Row
  <2>7. CASE row # None /\ e.kind \notin {"compacted", "session.started", "turn.started"}
    BY <1>b, <2>1, <2>3, <2>7 DEF After, Row, StoreOK
  <2> QED
    BY <2>4, <2>5, <2>6, <2>7
<1>4. ASSUME NEW c \in Callers, WriteRunning(c)
      PROVE  RowHonest' /\ binding'.turn \notin handled'
  BY <1>4, <1>a DEF WriteRunning, RowHonest, CallsOnce, Marked, Awaited, Row
<1>5. ASSUME NEW c \in Callers, ReadSettled(c) \/ KillLocked(c)
      PROVE  /\ UNCHANGED <<binding, handled>>
             /\ row' \in {row, binding} /\ (row' # binding => lock' = None)
  BY <1>5, <1>a DEF ReadSettled, KillLocked, LockHeld
<1>6. ASSUME NEW c \in Callers, WriteSettled(c) \/ WriteUnset(c)
      PROVE  /\ lock' = None /\ lock # None /\ handled' = handled
             /\ row = None => binding'.turn = None
             /\ row # None => binding'.turn = row.turn
  BY <1>6, <1>a DEF WriteSettled, WriteUnset, LockHeld, Row
<1>7. ASSUME NEW c \in Callers, ReadSettled(c) \/ KillLocked(c)
      PROVE  Goal
  BY <1>5, <1>7, <1>b, <1>c, <1>d DEF RowHonest, StoreOK, BindingRow
<1>8. ASSUME NEW c \in Callers, WriteSettled(c) \/ WriteUnset(c)
      PROVE  Goal
  BY <1>6, <1>8, <1>a, <1>b, <1>c DEF RowHonest, StoreOK, BindingRow
<1> QED
  BY <1>b, <1>1, <1>2, <1>3, <1>4, <1>7, <1>8 DEF Locking

------------------------------------------------------------------------------
LEMMA InvInit == Init => IInv
<1> SUFFICES ASSUME Init PROVE IInv OBVIOUS
<1>1. TypeOK
  BY TypeInit
<1>2. EventsOrdered /\ TurnsDispatched
  BY DEF Init, EventsOrdered, TurnsDispatched, Ordered, Event, Ready
<1>3. CallsOnce /\ LockHeld /\ Marked /\ RowHonest /\ SettledStaysSettled
  BY DEF Init, CallsOnce, LockHeld, Marked, RowHonest, SettledStaysSettled
<1> QED
  BY <1>1, <1>2, <1>3 DEF IInv

LEMMA InvNext == IInv /\ [Next]_vars => IInv'
BY TypeNext, StepFacts, EventsNext, MarkedNext, RowsNext DEF IInv

\* The runtime of a thread keeps its types in ProviderService.ts, whatever the calls,
\* the faults and the order of the adapter's events.
THEOREM SessionTypeCorrect == Spec => []TypeOK
BY InvInit, InvNext, PTL DEF Spec, IInv

\* sendTurn, which writes the binding after the adapter has answered, never makes a
\* settled turn the active one again: the marker of recentlyCompletedTurnsByThread is
\* there whenever it is needed.
THEOREM SettledTurnsStaySettled == Spec => []SettledStaysSettled
BY InvInit, InvNext, PTL DEF Spec, IInv

------------------------------------------------------------------------------
\* The idle stop and the work it must spare

\* While the generation the idle stop holds is the current one, every caller has
\* ended, has not begun, waits for the stop to end, or only controls a turn.
IdleInv ==
    current =>
        /\ stop # "none"
        /\ stop = "kill" => session.turn = None
        /\ \A c \in Callers : call[c] \in Controls \/ at[c] \in {"new", "done", "behind", "halt"}

\* Starting work, starting a session, scheduling and retiring all put the
\* generation out of date.
LEMMA OutOfDate ==
    ASSUME Cleared \/ Scheduled \/ Retired \/ StopEnds \/ current' = FALSE
    PROVE  IdleInv'
BY DEF Cleared, Scheduled, Retired, StopEnds, IdleInv

\* What a caller may do while the generation is current.
LEMMA CallerSpared ==
    ASSUME TypeOK, IdleInv, current, NEW c \in Callers, Begin(c) \/ Proceed(c)
    PROVE  IdleInv'
<1> USE DEF adapter, store, idle, calls
<1>a. /\ AdapterOK /\ CallsOK /\ stop # "none"
      /\ call[c] \in Controls \/ at[c] \in {"new", "done", "behind", "halt"}
  BY DEF TypeOK, IdleInv
<1>b. Controls \cap Work = {} /\ Controls \cap {"clearSessionResumeCursor"} = {}
  BY DEF Controls, Work
<1>1. ASSUME NEW op \in Calls, BeginWork(c, op)  PROVE  IdleInv'
  BY <1>1, <1>a DEF BeginWork, Goto, CallsOK, IdleInv
<1>2. ASSUME NEW op \in Calls, BeginControl(c, op)  PROVE  IdleInv'
  BY <1>2, <1>a DEF BeginControl, Goto, CallsOK, IdleInv
<1>3. ASSUME NEW op \in Calls, BeginStop(c, op)  PROVE  IdleInv'
  BY <1>3, <1>a DEF BeginStop, Goto, CallsOK, IdleInv
<1>4. CASE BeginStart(c)
  BY <1>4, OutOfDate DEF BeginStart
<1>5. CASE ResumeWork(c) \/ Halt(c) \/ Launch(c) \/ Retire(c)
  BY <1>5, <1>a DEF ResumeWork, Halt, Launch, Retire
<1>6. CASE Unroutable(c) \/ Refused(c) \/ Dispatch(c)
  BY <1>6, <1>a, <1>b DEF Unroutable, Refused, Dispatch
<1>7. CASE WriteIdled(c) \/ Unbind(c)
  BY <1>7, OutOfDate DEF WriteIdled, Unbind
<1>8. CASE Route(c) \/ Control(c)
  BY <1>8, <1>a DEF Route, Control, Goto, CallsOK, IdleInv
<1>9. CASE Recover(c)
  <2>1. /\ UNCHANGED <<stop, current, call>> /\ call[c] \in Controls
        /\ at' = [at EXCEPT ![c] = "adopt"]
    BY <1>9, <1>a DEF Recover, Goto
  <2>2. session.turn = None => session'.turn = None
    BY <1>9 DEF Recover, Launched, Ready
  <2> QED
    BY <1>a, <2>1, <2>2 DEF IdleInv, CallsOK
<1>10. CASE Adopt(c) \/ Bind(c) \/ WriteRunning(c) \/ ReadSettled(c) \/ WriteSettled(c)
               \/ WriteUnlocked(c) \/ KillNothing(c)
  BY <1>10, <1>a DEF Adopt, Bind, WriteRunning, ReadSettled, WriteSettled, WriteUnlocked,
                     KillNothing, Goto, CallsOK, IdleInv
<1>11. CASE Kill(c) \/ KillLocked(c) \/ WriteUnset(c)
  <2>1. /\ UNCHANGED <<stop, current, call>> /\ call[c] \in Controls
        /\ \E step \in {"unbind", "retire", "unset"} : at' = [at EXCEPT ![c] = step]
    BY <1>11, <1>a, <1>b DEF Kill, KillLocked, WriteUnset, Goto
  <2>2. session' = Gone \/ session' = session
    BY <1>11 DEF Kill, KillLocked, WriteUnset, Stopped
  <2>3. session.turn = None => session'.turn = None
    BY <2>2 DEF Gone
  <2> QED
    BY <1>a, <2>1, <2>3 DEF IdleInv, CallsOK
<1> QED
  BY <1>1, <1>2, <1>3, <1>4, <1>5, <1>6, <1>7, <1>8, <1>9, <1>10, <1>11 DEF Begin, Proceed

\* A generation becomes current only when the timer fires.
LEMMA CallersDoNotFire ==
    ASSUME ~current, NEW c \in Callers, Begin(c) \/ Proceed(c)
    PROVE  ~current'
<1> USE DEF adapter, store, idle, calls, Cleared, Scheduled, Retired
<1>1. CASE Begin(c)
  BY <1>1 DEF Begin, BeginWork, BeginControl, BeginStop, BeginStart
<1>2. CASE ResumeWork(c) \/ Route(c) \/ Unroutable(c) \/ Recover(c) \/ Adopt(c)
              \/ Dispatch(c) \/ Refused(c) \/ Control(c)
  BY <1>2 DEF ResumeWork, Route, Unroutable, Recover, Adopt, Dispatch, Refused, Control, Fails
<1>3. CASE WriteRunning(c) \/ ReadSettled(c) \/ WriteSettled(c) \/ WriteUnlocked(c) \/ WriteIdled(c)
  BY <1>3 DEF WriteRunning, ReadSettled, WriteSettled, WriteUnlocked, WriteIdled
<1>4. CASE Launch(c) \/ Bind(c) \/ Halt(c) \/ Kill(c) \/ KillNothing(c) \/ Unbind(c)
              \/ KillLocked(c) \/ WriteUnset(c) \/ Retire(c)
  BY <1>4 DEF Launch, Bind, Halt, Kill, KillNothing, Unbind, KillLocked, WriteUnset, Retire
<1> QED
  BY <1>1, <1>2, <1>3, <1>4 DEF Proceed

LEMMA IdleNext == TypeOK /\ IdleInv /\ [Next]_vars => IdleInv'
<1> SUFFICES ASSUME TypeOK, IdleInv, [Next]_vars PROVE IdleInv' OBVIOUS
<1> USE DEF adapter, store, idle, calls
<1>1. CASE Adapter
  <2>1. UNCHANGED <<stop, current, call, at>> /\ session' \in {Ready, Gone}
    BY <1>1 DEF Adapter, TurnEnds, SessionExits, Stopped
  <2>2. session'.turn = None
    BY <2>1 DEF Ready, Gone
  <2> QED
    BY <2>1, <2>2 DEF IdleInv
<1>2. CASE Handler
  <2>1. /\ UNCHANGED <<session, stop, call, at>>
        /\ Cleared \/ Scheduled \/ UNCHANGED current
    BY <1>2 DEF Handler, ReadEvent, WriteEvent
  <2> QED
    BY <2>1, OutOfDate DEF IdleInv
<1>3. CASE FireTimer
  BY <1>3 DEF FireTimer, IdleInv
<1>4. CASE IdleStop
  <2>1. CASE StopEnds
    BY <2>1, OutOfDate
  <2>2. CASE LookIdle /\ ~StopEnds
    <3>1. UNCHANGED <<session, current, call, at>> /\ stop' = "kill" /\ session = Ready
      BY <2>2 DEF LookIdle
    <3> QED
      BY <3>1 DEF IdleInv, Ready
  <2>3. CASE KillIdle /\ ~StopEnds
    <3>1. UNCHANGED <<current, call, at>> /\ stop' = "write"
      BY <2>3 DEF KillIdle
    <3> QED
      BY <3>1 DEF IdleInv
  <2> QED
    BY <1>4, <2>1, <2>2, <2>3 DEF IdleStop, WriteIdle
<1>5. ASSUME NEW c \in Callers, Begin(c) \/ Proceed(c)  PROVE  IdleInv'
  BY <1>5, CallerSpared, CallersDoNotFire DEF IdleInv
<1>6. CASE UNCHANGED vars
  BY <1>6 DEF vars, IdleInv
<1> QED
  BY <1>1, <1>2, <1>3, <1>4, <1>5, <1>6 DEF Next

\* Only the idle stop itself goes from its look to its kill.
LEMMA OnlyKillIdleKills ==
    ASSUME [Next]_vars, stop = "kill", stop' = "write"
    PROVE  KillIdle /\ current
<1> USE DEF adapter, store, idle, calls
<1>1. CASE Adapter \/ Handler \/ FireTimer \/ UNCHANGED vars
  BY <1>1 DEF Adapter, TurnEnds, SessionExits, Handler, ReadEvent, WriteEvent, FireTimer, vars
<1>2. CASE IdleStop
  BY <1>2 DEF IdleStop, LookIdle, KillIdle, WriteIdle, StopEnds
<1>3. ASSUME NEW c \in Callers, Begin(c)  PROVE  FALSE
  BY <1>3 DEF Begin, BeginWork, BeginControl, BeginStop, BeginStart
<1>4. ASSUME NEW c \in Callers, Proceed(c)  PROVE  FALSE
  <2>1. CASE ResumeWork(c) \/ Route(c) \/ Unroutable(c) \/ Recover(c) \/ Adopt(c)
                \/ Dispatch(c) \/ Refused(c) \/ Control(c)
    BY <2>1 DEF ResumeWork, Route, Unroutable, Recover, Adopt, Dispatch, Refused, Control, Fails
  <2>2. CASE WriteRunning(c) \/ ReadSettled(c) \/ WriteSettled(c) \/ WriteUnlocked(c) \/ WriteIdled(c)
    BY <2>2 DEF WriteRunning, ReadSettled, WriteSettled, WriteUnlocked, WriteIdled
  <2>3. CASE Launch(c) \/ Bind(c) \/ Halt(c) \/ Kill(c) \/ KillNothing(c) \/ Unbind(c)
                \/ KillLocked(c) \/ WriteUnset(c) \/ Retire(c)
    BY <2>3 DEF Launch, Bind, Halt, Kill, KillNothing, Unbind, KillLocked, WriteUnset, Retire
  <2> QED
    BY <1>4, <2>1, <2>2, <2>3 DEF Proceed
<1> QED
  BY <1>1, <1>2, <1>3, <1>4 DEF Next

\* The idle timer never stops a session that runs a turn, nor one that a call is
\* about to use: the generation it holds is out of date by then, or the call waits.
THEOREM IdleStopLeavesWorkAlone == Spec => IdleStopSparesWork
<1>1. Init => IdleInv
  BY DEF Init, IdleInv
<1>2. IInv => TypeOK
  BY DEF IInv
<1>3. ASSUME IdleInv, [Next]_vars
      PROVE  [(stop = "kill" /\ stop' = "write") =>
                /\ session.turn = None
                /\ \A c \in Callers :
                      call[c] \notin Controls =>
                          at[c] \notin {"route", "recover", "adopt", "dispatch", "bind"}]_vars
  BY <1>3, OnlyKillIdleKills DEF IdleInv
<1>4. Spec => [](IInv /\ IdleInv)
  BY <1>1, <1>2, InvInit, InvNext, IdleNext, PTL DEF Spec
<1> QED
  BY <1>3, <1>4, PTL DEF Spec, IdleStopSparesWork
==============================================================================
