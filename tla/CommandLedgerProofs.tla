------------------------- MODULE CommandLedgerProofs -------------------------
(***************************************************************************)
(* That the engine commits a command once and keeps the promises of        *)
(* CommandLedger, and that its read model, its stream of events and its    *)
(* deferred projection keep up with the log, for any dispatches, commands, *)
(* batch sizes and faults.                                                 *)
(*                                                                         *)
(* None of this is inductive.  What keeps a retried command from being     *)
(* committed again is that the worker has seen no receipt when it decides  *)
(* (ReceiptInv); what keeps a failure from being reported for a command    *)
(* that is in the log is where the worker was when it failed (LogInv), and *)
(* both rest on an envelope being in one place only: in the queue, with    *)
(* the worker, or answered (EnvelopeInv).  What keeps the memory whole is  *)
(* how far each part of it must have come at each step of the worker       *)
(* (ModelInv, StreamInv, RefreshInv).                                      *)
(***************************************************************************)
EXTENDS OrchestrationEngineProofs

------------------------------------------------------------------------------
\* Replays

Elements(s) == {s[i] : i \in DOMAIN s}

\* What a replay of the events after a, up to b, adds to a sequence s of them.
Extends(t, s, a, b) ==
    /\ t \in Seq(Nat)
    /\ Len(t) = Len(s) + (b - a)
    /\ \A i \in 1..Len(s) : t[i] = s[i]
    /\ \A k \in 1..(b - a) : t[Len(s) + k] = a + k

LEMMA ReplayAdds ==
    ASSUME NEW s \in Seq(Nat), NEW a \in Nat, NEW b \in Nat, a <= b
    PROVE  Extends(s \o Between(a, b), s, a, b)
<1> DEFINE r == Between(a, b)
           t == s \o r
           m == Len(s)
<1>1. Between(a, b) \in Seq(Nat) /\ Len(Between(a, b)) = b - a
  BY DEF Between
<1>2. \A k \in 1..(b - a) : Between(a, b)[k] = a + k
  BY DEF Between
<1> HIDE DEF r
<1>3. r \in Seq(Nat) /\ Len(r) = b - a /\ \A k \in 1..(b - a) : r[k] = a + k
  BY <1>1, <1>2 DEF r
<1>4. /\ t \in Seq(Nat) /\ Len(t) = m + Len(r)
      /\ \A i \in 1..(m + Len(r)) : t[i] = IF i <= m THEN s[i] ELSE r[i - m]
  BY <1>3, ConcatProperties, Zenon
<1>5. m \in Nat
  OBVIOUS
<1> HIDE DEF t, m
<1>6. Len(t) = m + (b - a) /\ \A i \in 1..(m + (b - a)) : t[i] = IF i <= m THEN s[i] ELSE r[i - m]
  BY <1>3, <1>4, Zenon
<1>7. ASSUME NEW i \in 1..m PROVE t[i] = s[i]
  <2>1. i \in 1..(m + (b - a)) /\ i <= m
    BY <1>5
  <2> QED
    BY <1>6, <2>1, Zenon
<1>8. ASSUME NEW k \in 1..(b - a) PROVE t[m + k] = a + k
  <2>1. m + k \in 1..(m + (b - a)) /\ ~(m + k <= m) /\ (m + k) - m = k
    BY <1>5
  <2>2. t[m + k] = r[k]
    BY <1>6, <2>1, Zenon
  <2> QED
    BY <1>3, <2>2, Zenon
<1>9. Extends(t, s, a, b)
  BY <1>4, <1>6, <1>7, <1>8, Zenon DEF Extends, m
<1> QED
  BY <1>9 DEF t, r

LEMMA ReplayElements ==
    ASSUME NEW s \in Seq(Nat), NEW a \in Nat, NEW b \in Nat, a <= b
    PROVE  /\ \A n \in Elements(s) : n \in Elements(s \o Between(a, b))
           /\ \A n \in (a + 1)..b : n \in Elements(s \o Between(a, b))
<1> DEFINE t == s \o Between(a, b)
<1>0. Len(s) \in Nat
  OBVIOUS
<1>1. /\ t \in Seq(Nat) /\ Len(t) = Len(s) + (b - a)
      /\ \A i \in 1..Len(s) : t[i] = s[i]
      /\ \A k \in 1..(b - a) : t[Len(s) + k] = a + k
  <2>1. Extends(t, s, a, b)
    BY ReplayAdds, Zenon
  <2> HIDE DEF t
  <2> QED
    BY <2>1, Zenon DEF Extends
<1> HIDE DEF t
<1>2. DOMAIN s = 1..Len(s) /\ DOMAIN t = 1..Len(t)
  BY <1>1
<1>3. ASSUME NEW n \in Elements(s)  PROVE  n \in Elements(t)
  BY <1>1, <1>2 DEF Elements
<1>4. ASSUME NEW n \in (a + 1)..b  PROVE  n \in Elements(t)
  <2>1. n - a \in 1..(b - a) /\ a + (n - a) = n
    OBVIOUS
  <2>2. t[Len(s) + (n - a)] = n
    BY <1>1, <2>1
  <2>3. Len(s) + (n - a) \in DOMAIN t
    BY <1>0, <1>1, <1>2, <2>1
  <2> QED
    BY <2>2, <2>3 DEF Elements
<1> QED
  BY <1>3, <1>4 DEF t

InOrder(s, from) ==
    \A i \in DOMAIN s : s[i] > from + 1 => \E j \in 1..(i - 1) : s[j] = s[i] - 1

\* A replay that starts at an event that has been seen leaves no gap.
LEMMA ReplayInOrder ==
    ASSUME NEW s \in Seq(Nat), NEW a \in Nat, NEW b \in Nat, a <= b, NEW from \in Nat,
           InOrder(s, from), a > from => a \in Elements(s)
    PROVE  InOrder(s \o Between(a, b), from)
<1> DEFINE t == s \o Between(a, b)
<1>1. /\ t \in Seq(Nat) /\ Len(t) = Len(s) + (b - a)
      /\ \A i \in 1..Len(s) : t[i] = s[i]
      /\ \A k \in 1..(b - a) : t[Len(s) + k] = a + k
  <2>1. Extends(t, s, a, b)
    BY ReplayAdds, Zenon
  <2> HIDE DEF t
  <2> QED
    BY <2>1, Zenon DEF Extends
<1>0. Len(s) \in Nat
  OBVIOUS
<1> HIDE DEF t
<1>2. DOMAIN s = 1..Len(s) /\ DOMAIN t = 1..Len(t)
  BY <1>1
<1>3. SUFFICES ASSUME NEW i \in 1..Len(t), t[i] > from + 1
               PROVE  \E j \in 1..(i - 1) : t[j] = t[i] - 1
  BY <1>2 DEF InOrder, t
<1>4. CASE i \in 1..Len(s)
  <2>1. PICK j \in 1..(i - 1) : s[j] = s[i] - 1
    BY <1>1, <1>2, <1>3, <1>4 DEF InOrder
  <2>2. j \in 1..Len(s)
    BY <1>0, <1>4
  <2> QED
    BY <1>1, <1>4, <2>1, <2>2
<1>5. CASE i = Len(s) + 1
  <2>1. t[i] = a + 1
    BY <1>0, <1>1, <1>3, <1>5
  <2>2. a > from
    BY <1>3, <2>1
  <2>3. PICK j \in 1..Len(s) : s[j] = a
    BY <1>2, <2>2 DEF Elements
  <2>4. j \in 1..(i - 1)
    BY <1>0, <1>5
  <2>5. t[j] = a
    BY <1>1, <2>3, Zenon
  <2>6. t[j] = t[i] - 1
    BY <2>1, <2>5
  <2> QED
    BY <2>4, <2>6
<1>6. CASE i > Len(s) + 1
  <2>1. /\ i - Len(s) \in 1..(b - a) /\ (i - Len(s)) - 1 \in 1..(b - a)
        /\ i = Len(s) + (i - Len(s)) /\ i - 1 = Len(s) + ((i - Len(s)) - 1)
    <3>1. Len(t) = Len(s) + (b - a)
      BY <1>1
    <3> QED
      BY <1>0, <1>3, <1>6, <3>1
  <2>2. t[i] = a + (i - Len(s)) /\ t[i - 1] = a + ((i - Len(s)) - 1)
    <3> DEFINE k == i - Len(s)
    <3>1. k \in 1..(b - a) /\ k - 1 \in 1..(b - a) /\ i = Len(s) + k /\ i - 1 = Len(s) + (k - 1)
      BY <2>1
    <3> HIDE DEF k
    <3>2. t[Len(s) + k] = a + k /\ t[Len(s) + (k - 1)] = a + (k - 1)
      BY <1>1, <3>1
    <3>3. t[i] = a + k /\ t[i - 1] = a + (k - 1)
      BY <3>1, <3>2
    <3> QED
      BY <3>3 DEF k
  <2>3. t[i - 1] = t[i] - 1 /\ i - 1 \in 1..(i - 1)
    BY <1>0, <1>3, <1>6, <2>2
  <2> QED
    BY <2>3
<1>7. i \in 1..Len(s) \/ i = Len(s) + 1 \/ i > Len(s) + 1
  <2> DEFINE m == Len(s)
  <2>1. m \in Nat /\ i \in 1..Len(t)
    BY <1>0, <1>3
  <2> HIDE DEF m
  <2>2. i \in 1..m \/ i = m + 1 \/ i > m + 1
    BY <2>1
  <2> QED
    BY <2>2 DEF m
<1> QED
  BY <1>4, <1>5, <1>6, <1>7, Zenon

USE EngineConstants

------------------------------------------------------------------------------
\* The inductive invariant

Busy        == pc \notin {"down", "idle", "lock"}
AfterCommit == {"committed", "deferred", "schedule", "fork", "publish", "answer"}
Failing     == {"failed", "resolve", "refuse"}

Pending(d) == \/ execution[d] = "abandoned"
              \/ execution[d] = "queued" /\ Waiting(d)

\* An envelope is in the queue once or with the worker, and a dispatch that the
\* worker handles is waiting for its answer.
EnvelopeInv ==
    /\ \A d \in Dispatches : reply[d].kind = "idle" => execution[d] = "queued"
    /\ \A d \in Dispatches : execution[d] = "abandoned" => reply[d].kind = "timeout"
    /\ \A i \in 1..Len(queue) : Pending(queue[i]) /\ queue[i] # cur
    /\ \A i, j \in 1..Len(queue) : queue[i] = queue[j] => i = j
    /\ pc \in {"down", "idle"} => cur = NoDispatch
    /\ pc = "lock" => Pending(cur)
    /\ Busy => Waiting(cur) /\ execution[cur] = "in-flight"

\* Only an envelope that was taken has events, and none whose command failed
\* before the commit.
LogInv ==
    /\ \A i \in 1..Len(log) : /\ log[i].command = CommandOf[log[i].dispatch]
                              /\ execution[log[i].dispatch] = "in-flight"
    /\ \/ pc \in {"lookup", "decide"}
       \/ pc \in Failing /\ failure # "timeout"
       => ~InLog(cur)

\* A command is decided, or refused, when it has no receipt; once it is
\* committed its receipt names the end of the log until it is answered.
ReceiptInv ==
    /\ \/ pc = "decide"
       \/ pc \in {"failed", "resolve"} /\ failure = "invariant"
       => Stored(cur).status = "none"
    /\ pc = "refuse" => failure = "invariant"
    /\ pc \in AfterCommit => Stored(cur) = [status |-> "accepted", seq |-> Len(log)]

\* Nothing times out unless time passes.
ClockInv ==
    /\ \A d \in Dispatches : expired[d] => Deadlines
    /\ noBudget => Deadlines
    /\ pc \in Failing /\ failure = "timeout" => Deadlines

LedgerInv == CommittedOnce /\ EnvelopeInv /\ LogInv /\ ReceiptInv /\ ClockInv

------------------------------------------------------------------------------
\* Steps that the invariant does not see

ledgerVars == <<log, receipts, callers, cur, noBudget, failure>>

LoopStep == Adopt \/ DeferToCatchUp \/ ProjectDeferred \/ DeferredFails \/ Claim \/ Fork \/ Publish

LEMMA LoopFrame ==
    ASSUME LoopStep
    PROVE  UNCHANGED ledgerVars /\ pc \in AfterCommit /\ pc' \in AfterCommit
<1> USE DEF durable, callers, worker, memory, bounds, ledgerVars, AfterCommit
<1>1. CASE Adopt
  BY <1>1 DEF Adopt
<1>2. CASE DeferToCatchUp
  BY <1>2 DEF DeferToCatchUp
<1>3. CASE ProjectDeferred
  BY <1>3 DEF ProjectDeferred, Advance
<1>4. CASE DeferredFails
  BY <1>4 DEF DeferredFails
<1>5. CASE Claim
  BY <1>5 DEF Claim, Advance
<1>6. CASE Fork
  BY <1>6 DEF Fork, Advance
<1>7. CASE Publish
  BY <1>7 DEF Publish, Advance
<1> QED
  BY <1>1, <1>2, <1>3, <1>4, <1>5, <1>6, <1>7 DEF LoopStep

LEMMA ReconcileFrame ==
    ASSUME Reconcile \/ ReconcileFails
    PROVE  UNCHANGED ledgerVars /\ pc = "failed" /\ pc' = "resolve"
BY DEF Reconcile, ReconcileFails, durable, callers, memory, bounds, ledgerVars

LEMMA MaintenanceFrame ==
    ASSUME Maintenance \/ UNCHANGED vars
    PROVE  UNCHANGED <<ledgerVars, pc>>
<1> USE DEF durable, callers, worker, memory, bounds, ledgerVars
<1>1. CASE CatchUp
  BY <1>1 DEF CatchUp
<1>2. CASE CatchUpFails
  BY <1>2 DEF CatchUpFails
<1>3. CASE Refresh
  BY <1>3 DEF Refresh
<1>4. CASE Repair
  BY <1>4 DEF Repair
<1>5. CASE RepairFails
  BY <1>5 DEF RepairFails
<1>6. CASE UNCHANGED vars
  BY <1>6 DEF vars
<1> QED
  BY <1>1, <1>2, <1>3, <1>4, <1>5, <1>6 DEF Maintenance

LEMMA StoreFrame ==
    ASSUME [Next]_vars
    PROVE  \/ UNCHANGED <<log, receipts>>
           \/ RecordRejection
           \/ \E n \in 1..MaxBatch : Commit(n)
<1> USE DEF durable, callers, bounds
<1>1. CASE Caller
  BY <1>1 DEF Caller, Dispatch, Expire, Abandon
<1>2. CASE Take \/ Skip \/ Start \/ NoReceipt \/ LookupFails \/ DecideFails \/ Interrupt
  BY <1>2 DEF Take, Skip, Start, NoReceipt, LookupFails, DecideFails, Interrupt
<1>3. CASE AnswerStored \/ Answer \/ AnswerFailure
  BY <1>3 DEF AnswerStored, Answer, AnswerFailure
<1>4. CASE LoopStep
  BY <1>4, LoopFrame DEF ledgerVars
<1>5. CASE Reconcile \/ ReconcileFails
  BY <1>5, ReconcileFrame DEF ledgerVars
<1>6. CASE Maintenance \/ UNCHANGED vars
  BY <1>6, MaintenanceFrame DEF ledgerVars
<1>7. CASE Crash \/ Boot
  BY <1>7 DEF Crash, Boot
<1> QED
  BY <1>1, <1>2, <1>3, <1>4, <1>5, <1>6, <1>7 DEF Next, Handle, LoopStep

LEMMA CommitAppends ==
    ASSUME TypeInv, NEW n \in 1..MaxBatch, Commit(n)
    PROVE  /\ cur \in Dispatches /\ CommandOf[cur] \in Commands
           /\ Len(log') = Len(log) + n
           /\ \A i \in 1..Len(log) : log'[i] = log[i]
           /\ \A i \in (Len(log) + 1)..(Len(log) + n) :
                log'[i] = [command |-> CommandOf[cur], dispatch |-> cur]
<1>1. TypeOK
  BY DEF TypeInv
<1>2. cur \in Dispatches
  BY DEF TypeInv, LoopOK, Commit
<1>3. log' = log \o Batch(cur, n)
  BY DEF Commit, Batch
<1>4. /\ Len(log \o Batch(cur, n)) = Len(log) + n
      /\ \A i \in 1..Len(log) : (log \o Batch(cur, n))[i] = log[i]
      /\ \A i \in (Len(log) + 1)..(Len(log) + n) :
            (log \o Batch(cur, n))[i] = [command |-> CommandOf[cur], dispatch |-> cur]
  BY <1>1, <1>2, BatchAppended
<1> QED
  BY <1>2, <1>3, <1>4

------------------------------------------------------------------------------
\* The invariant is kept

LEMMA ClockNext == TypeInv /\ ClockInv /\ [Next]_vars => ClockInv'
<1> SUFFICES ASSUME TypeInv, ClockInv, [Next]_vars PROVE ClockInv' OBVIOUS
<1> USE DEF durable, callers, worker, memory, bounds
<1>a. EnvelopesOK /\ FlagsOK /\ LoopOK
  BY DEF TypeInv, TypeOK
<1>1. ASSUME NEW d \in Dispatches, Dispatch(d)  PROVE  ClockInv'
  BY <1>1, <1>a DEF Dispatch, Told, ClockInv, Failing
<1>2. ASSUME NEW d \in Dispatches, Expire(d)  PROVE  ClockInv'
  BY <1>2, <1>a DEF Expire, ClockInv, Failing
<1>3. ASSUME NEW d \in Dispatches, Abandon(d)  PROVE  ClockInv'
  BY <1>3, <1>a DEF Abandon, Told, ClockInv, Failing
<1>4. CASE Take
  <2>1. Head(queue) \in Dispatches
    BY <1>4, <1>a DEF Take, EnvelopesOK
  <2> QED
    BY <1>4, <1>a, <2>1 DEF Take, ClockInv, Failing
<1>5. CASE Skip
  BY <1>5, <1>a DEF Skip, ClockInv, Failing
<1>6. CASE Start
  BY <1>6, <1>a DEF Start, Fail, ClockInv, Failing
<1>7. CASE AnswerStored
  BY <1>7, <1>a DEF AnswerStored, Settle, Succeeded, Told, ClockInv, Failing
<1>8. CASE NoReceipt
  BY <1>8, <1>a DEF NoReceipt, ClockInv, Failing
<1>9. CASE LookupFails
  BY <1>9, <1>a DEF LookupFails, Fail, ClockInv, Failing
<1>10. CASE DecideFails
  BY <1>10, <1>a DEF DecideFails, Fail, ClockInv, Failing
<1>11. ASSUME NEW n \in 1..MaxBatch, Commit(n)  PROVE  ClockInv'
  BY <1>11, <1>a DEF Commit, ClockInv, Failing
<1>12. CASE LoopStep
  BY <1>12, <1>a, LoopFrame DEF ledgerVars, ClockInv, Failing, AfterCommit
<1>13. CASE Answer
  BY <1>13, <1>a DEF Answer, Settle, Succeeded, Told, ClockInv, Failing
<1>14. CASE Interrupt
  BY <1>14, <1>a DEF Interrupt, Interruptible, Fail, ClockInv, Failing, LoopOK
<1>15. CASE Reconcile \/ ReconcileFails
  BY <1>15, <1>a, ReconcileFrame DEF ledgerVars, ClockInv, Failing
<1>16. CASE RecordRejection
  BY <1>16, <1>a DEF RecordRejection, ClockInv, Failing
<1>17. CASE AnswerFailure
  BY <1>17, <1>a DEF AnswerFailure, Settle, Told, ClockInv, Failing
<1>18. CASE Maintenance \/ UNCHANGED vars
  BY <1>18, <1>a, MaintenanceFrame DEF ledgerVars, ClockInv, Failing
<1>19. CASE Crash
  BY <1>19, <1>a DEF Crash, Told, ClockInv, Failing
<1>20. CASE Boot
  BY <1>20, <1>a DEF Boot, ClockInv, Failing
<1> QED
  BY <1>1, <1>2, <1>3, <1>4, <1>5, <1>6, <1>7, <1>8, <1>9, <1>10, <1>11, <1>12, <1>13, <1>14,
     <1>15, <1>16, <1>17, <1>18, <1>19, <1>20
     DEF Next, Caller, Handle, LoopStep

LEMMA EnvelopeNext == TypeInv /\ EnvelopeInv /\ [Next]_vars => EnvelopeInv'
<1> SUFFICES ASSUME TypeInv, EnvelopeInv, [Next]_vars PROVE EnvelopeInv' OBVIOUS
<1> USE DEF durable, callers, worker, memory, bounds
<1>a. EnvelopesOK /\ WorkerOK /\ LoopOK /\ EnvelopeInv
  BY DEF TypeInv, TypeOK
<1> USE DEF EnvelopesOK, LoopOK
<1>1. ASSUME NEW d \in Dispatches, Dispatch(d)  PROVE  EnvelopeInv'
  BY <1>1, <1>a DEF Dispatch, Told, EnvelopeInv, Pending, Waiting, Busy
<1>2. ASSUME NEW d \in Dispatches, Expire(d)  PROVE  EnvelopeInv'
  BY <1>2, <1>a DEF Expire, EnvelopeInv, Pending, Waiting, Busy
<1>3. ASSUME NEW d \in Dispatches, Abandon(d)  PROVE  EnvelopeInv'
  BY <1>3, <1>a DEF Abandon, Told, EnvelopeInv, Pending, Waiting, Busy
<1>4. CASE Take
  BY <1>4, <1>a DEF Take, EnvelopeInv, Pending, Waiting, Busy
<1>5. CASE Skip
  BY <1>5, <1>a DEF Skip, EnvelopeInv, Pending, Waiting, Busy
<1>6. CASE Start
  BY <1>6, <1>a DEF Start, Fail, EnvelopeInv, Pending, Waiting, Busy
<1>7. CASE AnswerStored
  BY <1>7, <1>a DEF AnswerStored, Settle, Succeeded, Told, EnvelopeInv, Pending, Waiting, Busy
<1>8. CASE NoReceipt
  BY <1>8, <1>a DEF NoReceipt, EnvelopeInv, Pending, Waiting, Busy
<1>9. CASE LookupFails
  BY <1>9, <1>a DEF LookupFails, Fail, EnvelopeInv, Pending, Waiting, Busy
<1>10. CASE DecideFails
  BY <1>10, <1>a DEF DecideFails, Fail, EnvelopeInv, Pending, Waiting, Busy
<1>11. ASSUME NEW n \in 1..MaxBatch, Commit(n)  PROVE  EnvelopeInv'
  BY <1>11, <1>a DEF Commit, EnvelopeInv, Pending, Waiting, Busy
<1>12. CASE LoopStep
  BY <1>12, <1>a, LoopFrame DEF ledgerVars, EnvelopeInv, Pending, Waiting, Busy, AfterCommit
<1>13. CASE Answer
  BY <1>13, <1>a DEF Answer, Settle, Succeeded, Told, EnvelopeInv, Pending, Waiting, Busy
<1>14. CASE Interrupt
  BY <1>14, <1>a DEF Interrupt, Interruptible, Fail, EnvelopeInv, Pending, Waiting, Busy
<1>15. CASE Reconcile \/ ReconcileFails
  BY <1>15, <1>a, ReconcileFrame DEF ledgerVars, EnvelopeInv, Pending, Waiting, Busy
<1>16. CASE RecordRejection
  BY <1>16, <1>a DEF RecordRejection, EnvelopeInv, Pending, Waiting, Busy
<1>17. CASE AnswerFailure
  <2>1. failure # "idle" /\ pc \in Failing
    BY <1>17, <1>a DEF AnswerFailure, WorkerOK, Failing
  <2>2. Waiting(cur) /\ execution[cur] = "in-flight" /\ cur \in Dispatches
    BY <1>a, <2>1 DEF EnvelopeInv, Busy, Failing
  <2>3. /\ reply' = [reply EXCEPT ![cur] = Told(IF failure = "defect" THEN "internal" ELSE failure)]
        /\ pc' = "idle" /\ cur' = NoDispatch /\ UNCHANGED <<queue, execution>>
    BY <1>17 DEF AnswerFailure, Settle
  <2> QED
    BY <1>a, <2>1, <2>2, <2>3 DEF Told, EnvelopeInv, Pending, Waiting, Busy
<1>18. CASE Maintenance \/ UNCHANGED vars
  BY <1>18, <1>a, MaintenanceFrame DEF ledgerVars, EnvelopeInv, Pending, Waiting, Busy
<1>19. CASE Crash
  BY <1>19, <1>a DEF Crash, Told, EnvelopeInv, Pending, Waiting, Busy
<1>20. CASE Boot
  BY <1>20, <1>a DEF Boot, EnvelopeInv, Pending, Waiting, Busy
<1> QED
  BY <1>1, <1>2, <1>3, <1>4, <1>5, <1>6, <1>7, <1>8, <1>9, <1>10, <1>11, <1>12, <1>13, <1>14,
     <1>15, <1>16, <1>17, <1>18, <1>19, <1>20
     DEF Next, Caller, Handle, LoopStep

LEMMA LogNext == TypeInv /\ EnvelopeInv /\ LogInv /\ [Next]_vars => LogInv'
<1> SUFFICES ASSUME TypeInv, EnvelopeInv, LogInv, [Next]_vars PROVE LogInv' OBVIOUS
<1> USE DEF durable, callers, worker, memory, bounds
<1>a. StoreOK /\ EnvelopesOK /\ LoopOK /\ EnvelopeInv /\ LogInv
  BY DEF TypeInv, TypeOK
<1> USE DEF StoreOK, EnvelopesOK, LoopOK
<1>1. ASSUME NEW d \in Dispatches, Dispatch(d)  PROVE  LogInv'
  BY <1>1, <1>a DEF Dispatch, Told, LogInv, InLog, Failing
<1>2. ASSUME NEW d \in Dispatches, Expire(d)  PROVE  LogInv'
  BY <1>2, <1>a DEF Expire, LogInv, InLog, Failing
<1>3. ASSUME NEW d \in Dispatches, Abandon(d)  PROVE  LogInv'
  BY <1>3, <1>a DEF Abandon, Told, LogInv, InLog, Failing
<1>4. CASE Take
  BY <1>4, <1>a DEF Take, LogInv, InLog, Failing
<1>5. CASE Skip
  BY <1>5, <1>a DEF Skip, LogInv, InLog, Failing
<1>6. CASE Start
  <2>1. ~noBudget => execution[cur] = "queued" /\ ~InLog(cur)
    BY <1>6, <1>a DEF Start, EnvelopeInv, Pending, LogInv, InLog
  <2>2. UNCHANGED log /\ cur' = cur /\ execution' = [execution EXCEPT ![cur] = "in-flight"]
    BY <1>6 DEF Start
  <2>3. /\ noBudget => pc' = "failed" /\ failure' = "timeout"
        /\ ~noBudget => pc' = "lookup"
    BY <1>6, Zenon DEF Start, Fail
  <2> QED
    BY <1>a, <2>1, <2>2, <2>3 DEF LogInv, InLog, Failing
<1>7. CASE AnswerStored
  BY <1>7, <1>a DEF AnswerStored, Settle, Succeeded, Told, LogInv, InLog, Failing
<1>8. CASE NoReceipt
  BY <1>8, <1>a DEF NoReceipt, LogInv, InLog, Failing
<1>9. CASE LookupFails
  BY <1>9, <1>a DEF LookupFails, Fail, LogInv, InLog, Failing
<1>10. CASE DecideFails
  BY <1>10, <1>a DEF DecideFails, Fail, LogInv, InLog, Failing
<1>11. ASSUME NEW n \in 1..MaxBatch, Commit(n)  PROVE  LogInv'
  <2>1. cur \in Dispatches /\ execution[cur] = "in-flight"
    BY <1>11, <1>a DEF Commit, EnvelopeInv, Busy
  <2>2. \A i \in 1..Len(log') : \/ i \in 1..Len(log) /\ log'[i] = log[i]
                              \/ log'[i] = [command |-> CommandOf[cur], dispatch |-> cur]
    <3>1. Len(log) \in Nat /\ n \in Nat
      BY <1>a
    <3> QED
      BY <1>11, <3>1, CommitAppends
  <2>3. UNCHANGED execution /\ pc' = "committed"
    BY <1>11 DEF Commit
  <2>4. \A i \in 1..Len(log') : /\ log'[i].command = CommandOf[log'[i].dispatch]
                              /\ execution[log'[i].dispatch] = "in-flight"
    <3> TAKE i \in 1..Len(log')
    <3>1. CASE i \in 1..Len(log) /\ log'[i] = log[i]
      BY <1>a, <3>1 DEF LogInv
    <3>2. CASE log'[i] = [command |-> CommandOf[cur], dispatch |-> cur]
      BY <2>1, <3>2
    <3> QED
      BY <2>2, <3>1, <3>2
  <2> QED
    BY <2>3, <2>4 DEF LogInv, Failing
<1>12. CASE LoopStep
  BY <1>12, <1>a, LoopFrame DEF ledgerVars, LogInv, InLog, Failing, AfterCommit
<1>13. CASE Answer
  BY <1>13, <1>a DEF Answer, Settle, Succeeded, Told, LogInv, InLog, Failing
<1>14. CASE Interrupt
  BY <1>14, <1>a DEF Interrupt, Interruptible, Fail, LogInv, InLog, Failing
<1>15. CASE Reconcile \/ ReconcileFails
  BY <1>15, <1>a, ReconcileFrame DEF ledgerVars, LogInv, InLog, Failing
<1>16. CASE RecordRejection
  BY <1>16, <1>a DEF RecordRejection, LogInv, InLog, Failing
<1>17. CASE AnswerFailure
  BY <1>17, <1>a DEF AnswerFailure, Settle, Told, LogInv, InLog, Failing
<1>18. CASE Maintenance \/ UNCHANGED vars
  BY <1>18, <1>a, MaintenanceFrame DEF ledgerVars, LogInv, InLog, Failing
<1>19. CASE Crash
  BY <1>19, <1>a DEF Crash, Told, LogInv, InLog, Failing
<1>20. CASE Boot
  BY <1>20, <1>a DEF Boot, LogInv, InLog, Failing
<1> QED
  BY <1>1, <1>2, <1>3, <1>4, <1>5, <1>6, <1>7, <1>8, <1>9, <1>10, <1>11, <1>12, <1>13, <1>14,
     <1>15, <1>16, <1>17, <1>18, <1>19, <1>20
     DEF Next, Caller, Handle, LoopStep

LEMMA ReceiptNext == TypeInv /\ ReceiptInv /\ [Next]_vars => ReceiptInv'
<1> SUFFICES ASSUME TypeInv, ReceiptInv, [Next]_vars PROVE ReceiptInv' OBVIOUS
<1> USE DEF durable, callers, worker, memory, bounds
<1>a. StoreOK /\ EnvelopesOK /\ LoopOK /\ ReceiptInv
  BY DEF TypeInv, TypeOK
<1> USE DEF StoreOK, EnvelopesOK, LoopOK
<1>1. ASSUME NEW d \in Dispatches, Dispatch(d)  PROVE  ReceiptInv'
  BY <1>1, <1>a DEF Dispatch, Told, ReceiptInv, Stored, AfterCommit
<1>2. ASSUME NEW d \in Dispatches, Expire(d)  PROVE  ReceiptInv'
  BY <1>2, <1>a DEF Expire, ReceiptInv, Stored, AfterCommit
<1>3. ASSUME NEW d \in Dispatches, Abandon(d)  PROVE  ReceiptInv'
  BY <1>3, <1>a DEF Abandon, Told, ReceiptInv, Stored, AfterCommit
<1>4. CASE Take
  BY <1>4, <1>a DEF Take, ReceiptInv, Stored, AfterCommit
<1>5. CASE Skip
  BY <1>5, <1>a DEF Skip, ReceiptInv, Stored, AfterCommit
<1>6. CASE Start
  BY <1>6, <1>a DEF Start, Fail, ReceiptInv, Stored, AfterCommit
<1>7. CASE AnswerStored
  BY <1>7, <1>a DEF AnswerStored, Settle, Succeeded, Told, ReceiptInv, Stored, AfterCommit
<1>8. CASE NoReceipt
  BY <1>8, <1>a DEF NoReceipt, ReceiptInv, Stored, AfterCommit
<1>9. CASE LookupFails
  BY <1>9, <1>a DEF LookupFails, Fail, ReceiptInv, Stored, AfterCommit
<1>10. CASE DecideFails
  BY <1>10, <1>a DEF DecideFails, Fail, ReceiptInv, Stored, AfterCommit
<1>11. ASSUME NEW n \in 1..MaxBatch, Commit(n)  PROVE  ReceiptInv'
  BY <1>11, <1>a DEF Commit, ReceiptInv, Stored, AfterCommit
<1>12. CASE LoopStep
  BY <1>12, <1>a, LoopFrame DEF ledgerVars, ReceiptInv, Stored, AfterCommit
<1>13. CASE Answer
  BY <1>13, <1>a DEF Answer, Settle, Succeeded, Told, ReceiptInv, Stored, AfterCommit
<1>14. CASE Interrupt
  BY <1>14, <1>a DEF Interrupt, Interruptible, Fail, ReceiptInv, Stored, AfterCommit
<1>15. CASE Reconcile \/ ReconcileFails
  BY <1>15, <1>a, ReconcileFrame DEF ledgerVars, ReceiptInv, Stored, AfterCommit
<1>16. CASE RecordRejection
  BY <1>16, <1>a DEF RecordRejection, ReceiptInv, Stored, AfterCommit
<1>17. CASE AnswerFailure
  BY <1>17, <1>a DEF AnswerFailure, Settle, Told, ReceiptInv, Stored, AfterCommit
<1>18. CASE Maintenance \/ UNCHANGED vars
  BY <1>18, <1>a, MaintenanceFrame DEF ledgerVars, ReceiptInv, Stored, AfterCommit
<1>19. CASE Crash
  BY <1>19, <1>a DEF Crash, Told, ReceiptInv, Stored, AfterCommit
<1>20. CASE Boot
  BY <1>20, <1>a DEF Boot, ReceiptInv, Stored, AfterCommit
<1> QED
  BY <1>1, <1>2, <1>3, <1>4, <1>5, <1>6, <1>7, <1>8, <1>9, <1>10, <1>11, <1>12, <1>13, <1>14,
     <1>15, <1>16, <1>17, <1>18, <1>19, <1>20
     DEF Next, Caller, Handle, LoopStep

LEMMA CommittedOnceNext == TypeInv /\ ReceiptInv /\ CommittedOnce /\ [Next]_vars => CommittedOnce'
<1> SUFFICES ASSUME TypeInv, ReceiptInv, CommittedOnce, [Next]_vars PROVE CommittedOnce' OBVIOUS
<1> USE DEF durable, callers, worker, memory, bounds
<1>a. /\ Len(log) \in Nat /\ DOMAIN log = 1..Len(log)
      /\ receipts \in [Commands -> Receipt]
  BY DEF TypeInv, TypeOK, StoreOK
<1>1. CASE UNCHANGED <<log, receipts>>
  BY <1>1 DEF CommittedOnce
<1>2. CASE RecordRejection
  <2>1. cur \in Dispatches /\ CommandOf[cur] \in Commands
    BY <1>2 DEF RecordRejection, TypeInv, LoopOK
  <2>2. UNCHANGED log /\ (\/ receipts' = receipts
                         \/ receipts' = [receipts EXCEPT ![CommandOf[cur]] =
                                            [status |-> "rejected", seq |-> modelSeq]])
    BY <1>2 DEF RecordRejection
  <2>3. receipts[CommandOf[cur]].status = "none"
    BY <1>2 DEF RecordRejection, ReceiptInv, Stored
  <2> QED
    BY <1>a, <2>1, <2>2, <2>3 DEF CommittedOnce
<1>3. ASSUME NEW n \in 1..MaxBatch, Commit(n)  PROVE  CommittedOnce'
  <2> DEFINE mine(c) == {i \in DOMAIN log : log[i].command = c}
             own == CommandOf[cur]
             added == (Len(log) + 1)..(Len(log) + n)
  <2>1. /\ own \in Commands
        /\ Len(log') = Len(log) + n
        /\ \A i \in 1..Len(log) : log'[i] = log[i]
        /\ \A i \in added : log'[i] = [command |-> own, dispatch |-> cur]
    BY <1>3, CommitAppends
  <2>2. DOMAIN log' = 1..Len(log')
    BY <1>3, TypeNext DEF TypeInv, TypeOK, StoreOK
  <2>3. receipts[own].status = "none"
    BY <1>3 DEF Commit, ReceiptInv, Stored
  <2>4. receipts' = [receipts EXCEPT ![own] = [status |-> "accepted", seq |-> Len(log) + n]]
    BY <1>3 DEF Commit
  <2>5. mine(own) = {}
    BY <2>1, <2>3 DEF CommittedOnce
  <2>6. ASSUME NEW c, c = own  PROVE  mine(c)' = added
    <3>1. \A i \in 1..Len(log) : log[i].command # own
      BY <1>a, <2>5
    <3>2. \A i \in 1..(Len(log) + n) : log'[i].command = c <=> i \in added
      BY <1>a, <2>1, <2>6, <3>1
    <3>3. \A i : i \in mine(c)' <=> i \in added
      BY <1>a, <2>1, <2>2, <3>2
    <3> QED
      BY <3>3
  <2>7. \A c \in Commands : c # own => mine(c)' = mine(c) /\ receipts'[c] = receipts[c]
    BY <1>a, <2>1, <2>2, <2>4
  <2> SUFFICES ASSUME NEW c \in Commands
               PROVE  /\ receipts'[c].status = "accepted" <=> mine(c)' # {}
                      /\ mine(c)' # {} =>
                            /\ receipts'[c].seq \in mine(c)'
                            /\ \A i \in mine(c)' : /\ i <= receipts'[c].seq
                                                  /\ i..receipts'[c].seq \subseteq mine(c)'
                            /\ \A i, j \in mine(c)' : log'[i].dispatch = log'[j].dispatch
    BY DEF CommittedOnce
  <2>8. CASE c = own
    <3>1. receipts'[c] = [status |-> "accepted", seq |-> Len(log) + n]
      BY <1>a, <2>1, <2>4, <2>8
    <3>2. \A i, j \in added : log'[i].dispatch = log'[j].dispatch
      BY <2>1
    <3>3. mine(c)' = added
      BY <2>6, <2>8
    <3>4. Len(log) + n \in added /\ Len(log) \in Nat /\ n \in Nat
      BY <1>a
    <3> HIDE DEF mine
    <3> QED
      BY <3>1, <3>2, <3>3, <3>4
  <2>9. CASE c # own
    <3>1. \A i \in mine(c) : log'[i] = log[i]
      BY <1>a, <2>1
    <3>2. mine(c)' = mine(c) /\ receipts'[c] = receipts[c]
      BY <2>7, <2>9
    <3>3. /\ receipts[c].status = "accepted" <=> mine(c) # {}
          /\ mine(c) # {} =>
                /\ receipts[c].seq \in mine(c)
                /\ \A i \in mine(c) : /\ i <= receipts[c].seq
                                      /\ i..receipts[c].seq \subseteq mine(c)
                /\ \A i, j \in mine(c) : log[i].dispatch = log[j].dispatch
      BY DEF CommittedOnce
    <3> HIDE DEF mine
    <3> QED
      BY <3>1, <3>2, <3>3
  <2> QED
    BY <2>8, <2>9
<1> QED
  BY <1>1, <1>2, <1>3, StoreFrame

LEMMA LedgerNext == TypeInv /\ LedgerInv /\ [Next]_vars => LedgerInv'
BY ClockNext, EnvelopeNext, LogNext, ReceiptNext, CommittedOnceNext DEF LedgerInv

LEMMA LedgerInit == Init => LedgerInv
<1> SUFFICES ASSUME Init PROVE LedgerInv OBVIOUS
<1>1. CommittedOnce
  BY DEF Init, CommittedOnce
<1>2. EnvelopeInv
  BY DEF Init, EnvelopeInv, Busy
<1>3. LogInv
  BY DEF Init, LogInv, Failing
<1>4. ReceiptInv /\ ClockInv
  BY DEF Init, ReceiptInv, ClockInv, AfterCommit, Failing
<1> QED
  BY <1>1, <1>2, <1>3, <1>4 DEF LedgerInv

LEMMA Invariance == Spec => [](TypeInv /\ LedgerInv)
<1>1. Init => TypeInv /\ LedgerInv
  BY TypeInit, LedgerInit
<1>2. TypeInv /\ LedgerInv /\ [Next]_vars => (TypeInv /\ LedgerInv)'
  BY TypeNext, LedgerNext
<1> QED
  BY <1>1, <1>2, PTL DEF Spec

------------------------------------------------------------------------------
\* Every step is a step of CommandLedger, or none

\* While time can pass, a receipt can be read when a timeout asks for it: the
\* handler takes a failed read for "no receipt" and reports the timeout of a
\* command that may be in the log.
ReceiptsReadable == Deadlines => "receiptRead" \notin Faults

LEMMA StepImplements ==
    ASSUME ReceiptsReadable, TypeInv, LedgerInv, [Next]_vars
    PROVE  [Ledger!Next]_(Ledger!vars)
<1> USE DEF durable, callers, worker, memory, bounds
<1>a. /\ StoreOK /\ EnvelopesOK /\ WorkerOK /\ MemoryOK /\ LoopOK
      /\ EnvelopeInv /\ LogInv /\ ReceiptInv /\ ClockInv /\ CommittedOnce
  BY DEF TypeInv, TypeOK, LedgerInv
<1>b. Busy => cur \in Dispatches /\ Ledger!Waiting(cur)
  BY <1>a DEF Busy, LoopOK, EnvelopeInv, Waiting, Ledger!Waiting
<1>c. \A d \in Dispatches : Ledger!InLog(d) <=> InLog(d)
  BY DEF InLog, Ledger!InLog
<1>d. \A i \in DOMAIN log : /\ log[i].command = CommandOf[log[i].dispatch]
                           /\ execution[log[i].dispatch] = "in-flight"
  <2>1. DOMAIN log = 1..Len(log)
    BY <1>a DEF StoreOK
  <2> QED
    BY <1>a, <2>1 DEF LogInv
<1>e. SUFFICES ASSUME ~UNCHANGED <<log, receipts, reply>>  PROVE Ledger!Next
  BY DEF Ledger!vars
<1>1. ASSUME NEW d \in Dispatches, Dispatch(d)  PROVE  Ledger!Next
  <2>1. Ledger!Ask(d)
    BY <1>1 DEF Dispatch, Told, Ledger!Ask
  <2> QED
    BY <2>1 DEF Ledger!Next
<1>2. ASSUME NEW d \in Dispatches, Abandon(d)  PROVE  Ledger!Next
  <2>1. ~Ledger!InLog(d)
    BY <1>2, <1>c, <1>d DEF Abandon, InLog
  <2>2. Ledger!TellFailure(d, "timeout")
    BY <1>2, <2>1 DEF Abandon, Waiting, Told, Ledger!TellFailure, Ledger!Waiting
  <2> QED
    BY <2>2 DEF Ledger!Next, Ledger!Failures
<1>3. CASE AnswerStored
  <2>1. cur \in Dispatches /\ Ledger!Waiting(cur)
    BY <1>3, <1>b DEF AnswerStored, Busy
  <2>2. Stored(cur).status \in {"accepted", "rejected"}
    BY <1>3, <1>a, <2>1 DEF AnswerStored, StoreOK, Receipt, Stored
  <2>3. Ledger!TellOk(cur) \/ Ledger!TellRejected(cur)
    BY <1>3, <2>1, <2>2
       DEF AnswerStored, Settle, Succeeded, Told, Stored, Ledger!TellOk, Ledger!TellRejected,
           Ledger!Stored
  <2> QED
    BY <2>1, <2>3 DEF Ledger!Next
<1>4. ASSUME NEW n \in 1..MaxBatch, Commit(n)  PROVE  Ledger!Next
  <2>1. cur \in Dispatches /\ Ledger!Waiting(cur)
    BY <1>4, <1>b DEF Commit, Busy
  <2>2. Ledger!Stored(cur).status = "none"
    BY <1>4, <1>a DEF Commit, ReceiptInv, Stored, Ledger!Stored
  <2>3. Ledger!Accept(cur, n)
    BY <1>4, <2>1, <2>2 DEF Commit, Ledger!Accept, Ledger!Batch
  <2> QED
    BY <2>1, <2>3 DEF Ledger!Next
<1>5. CASE Answer
  <2>1. cur \in Dispatches /\ Ledger!Waiting(cur)
    BY <1>5, <1>b DEF Answer, Busy
  <2>2. Stored(cur) = [status |-> "accepted", seq |-> Len(log)]
    BY <1>5, <1>a DEF Answer, ReceiptInv, AfterCommit
  <2>3. Ledger!TellOk(cur)
    BY <1>5, <2>1, <2>2 DEF Answer, Settle, Succeeded, Stored, Ledger!TellOk, Ledger!Stored
  <2> QED
    BY <2>1, <2>3 DEF Ledger!Next
<1>6. CASE RecordRejection
  <2>1. cur \in Dispatches /\ Ledger!Waiting(cur)
    BY <1>6, <1>b DEF RecordRejection, Busy
  <2>2. Ledger!Stored(cur).status = "none"
    BY <1>6, <1>a DEF RecordRejection, ReceiptInv, Stored, Ledger!Stored
  <2>3. modelSeq \in 0..Len(log)
    BY <1>a DEF MemoryOK
  <2>4. Ledger!Reject(cur)
    BY <1>6, <1>e, <2>1, <2>2, <2>3 DEF RecordRejection, Ledger!Reject
  <2> QED
    BY <2>1, <2>4 DEF Ledger!Next
<1>7. CASE AnswerFailure
  <2>1. cur \in Dispatches /\ Ledger!Waiting(cur)
    BY <1>7, <1>b DEF AnswerFailure, Busy
  <2>2. ~InLog(cur)
    <3>1. CASE failure # "timeout"
      BY <1>7, <1>a, <3>1 DEF AnswerFailure, LogInv, Failing
    <3>2. CASE failure = "timeout"
      <4>1. pc = "resolve" /\ Stored(cur).status = "none"
        BY <1>7, <1>a, <3>2 DEF AnswerFailure, ReceiptInv, ClockInv, Failing, ReceiptsReadable
      <4>2. \A i \in DOMAIN log : log[i].command # CommandOf[cur]
        BY <1>a, <2>1, <4>1 DEF CommittedOnce, Stored
      <4> QED
        BY <1>d, <4>2 DEF InLog
    <3> QED
      BY <3>1, <3>2
  <2>3. PICK why \in Ledger!Failures : reply' = [reply EXCEPT ![cur] = Told(why)]
    BY <1>7, <1>a DEF AnswerFailure, Settle, WorkerOK, Ledger!Failures
  <2>4. Ledger!TellFailure(cur, why)
    BY <1>7, <1>c, <2>1, <2>2, <2>3 DEF AnswerFailure, Told, Ledger!TellFailure
  <2> QED
    BY <2>1, <2>4 DEF Ledger!Next
<1>8. CASE Crash
  <2>1. Ledger!Abort
    BY <1>8 DEF Crash, Told, Waiting, Ledger!Abort, Ledger!Waiting
  <2> QED
    BY <2>1 DEF Ledger!Next
<1>9. CASE Take \/ Skip \/ Start \/ NoReceipt \/ LookupFails \/ DecideFails \/ Interrupt
  BY <1>9, <1>e DEF Take, Skip, Start, NoReceipt, LookupFails, DecideFails, Interrupt
<1>10. CASE LoopStep
  BY <1>10, <1>e, LoopFrame DEF ledgerVars
<1>11. CASE Reconcile \/ ReconcileFails
  BY <1>11, <1>e, ReconcileFrame DEF ledgerVars
<1>12. CASE Maintenance \/ UNCHANGED vars
  BY <1>12, <1>e, MaintenanceFrame DEF ledgerVars
<1>13. CASE Boot \/ \E d \in Dispatches : Expire(d)
  BY <1>13, <1>e DEF Boot, Expire
<1> QED
  BY <1>1, <1>2, <1>3, <1>4, <1>5, <1>6, <1>7, <1>8, <1>9, <1>10, <1>11, <1>12, <1>13
     DEF Next, Caller, Handle, LoopStep

------------------------------------------------------------------------------
\* The read model and the log

\* A reconciliation that follows a timeout can read the log ...
ReconciliationReads == Deadlines => "reconcileRead" \notin Faults

\* ... and one read takes it to the end of it.
OneReadReconciles == Deadlines /\ pc = "failed" => ReplayEnd(startSeq) = Len(log)

Held == Elements(model)

\* How far the read model must have come: while a commit is not adopted yet, to
\* the events before it; after a timeout, to where the reconciliation starts.
Adopted == IF pc = "committed" THEN first - 1
           ELSE IF pc = "failed" /\ Deadlines THEN startSeq
           ELSE Len(log)

ModelInv ==
    /\ pc \in AfterCommit => startSeq < first
    /\ pc # "down" => \A n \in 1..Adopted : n \in Held

LEMMA LoadedElements ==
    ASSUME NEW b \in Nat
    PROVE  \A n \in 1..b : n \in Elements(UpTo(b))
BY DEF Elements, UpTo

\* The log itself only grows when a command commits.
LEMMA LogFrame ==
    ASSUME [Next]_vars
    PROVE  UNCHANGED log \/ \E n \in 1..MaxBatch : Commit(n)
BY StoreFrame DEF RecordRejection

LEMMA ModelNext ==
    ASSUME ReconciliationReads, OneReadReconciles, TypeInv, ClockInv, ModelInv, [Next]_vars
    PROVE  ModelInv'
<1> USE DEF durable, callers, worker, memory, bounds
<1>a. /\ WorkerOK /\ LoopOK /\ EnvelopesOK /\ MemoryOK
      /\ Len(log) \in Nat /\ startSeq \in Nat /\ startSeq <= Len(log)
      /\ model \in Seq(Nat)
  BY DEF TypeInv, TypeOK, StoreOK, WorkerOK, MemoryOK
<1>b. Deadlines \in BOOLEAN
  OBVIOUS
<1>1. CASE Caller \/ UNCHANGED vars
  BY <1>1 DEF Caller, Dispatch, Expire, Abandon, vars, ModelInv, Adopted, Held, AfterCommit
<1>2. CASE Take \/ Skip \/ NoReceipt \/ AnswerStored \/ RecordRejection \/ AnswerFailure \/ Answer
  BY <1>2, <1>a DEF Take, Skip, NoReceipt, AnswerStored, RecordRejection, AnswerFailure, Answer,
                    Settle, ModelInv, Adopted, Held, AfterCommit
<1>3. CASE Start
  BY <1>3, <1>a DEF Start, Fail, ClockInv, ModelInv, Adopted, Held, AfterCommit
<1>4. CASE LookupFails \/ DecideFails
  BY <1>4, <1>a DEF LookupFails, DecideFails, Fail, ModelInv, Adopted, Held, AfterCommit
<1>5. CASE Interrupt
  <2>1. Deadlines /\ pc' = "failed" /\ UNCHANGED <<log, model, startSeq, first>>
    BY <1>5, <1>a DEF Interrupt, Interruptible, Fail, LoopOK, ClockInv
  <2>2. startSeq <= Adopted /\ pc # "down"
    BY <1>5, <1>a DEF Interrupt, Interruptible, Adopted, ModelInv, AfterCommit, LoopOK
  <2>3. Adopted \in Nat
    BY <1>a DEF Adopted, AfterCommit, LoopOK
  <2> QED
    BY <1>a, <2>1, <2>2, <2>3 DEF ModelInv, Adopted, Held, AfterCommit
<1>6. ASSUME NEW n \in 1..MaxBatch, Commit(n)  PROVE  ModelInv'
  BY <1>6, <1>a DEF Commit, ModelInv, Adopted, Held, AfterCommit
<1>7. CASE Adopt
  <2>1. /\ first - 1 \in Nat /\ first - 1 <= Len(log)
        /\ UNCHANGED <<log, startSeq, first>> /\ pc = "committed" /\ pc' = "deferred"
        /\ model' = model \o Between(first - 1, Len(log))
    BY <1>7, <1>a DEF Adopt, LoopOK
  <2>2. /\ \A n \in Held : n \in Held'
        /\ \A n \in ((first - 1) + 1)..Len(log) : n \in Held'
    BY <1>a, <2>1, ReplayElements DEF Held
  <2>3. \A n \in 1..(first - 1) : n \in Held
    BY <2>1 DEF ModelInv, Adopted
  <2>4. \A n \in 1..Len(log) : n \in Held'
    <3> HIDE DEF Held
    <3>1. first \in Nat
      BY <1>a DEF WorkerOK
    <3> QED
      BY <1>a, <2>1, <2>2, <2>3, <3>1
  <2> QED
    BY <2>1, <2>4 DEF ModelInv, Adopted, AfterCommit
<1>8. CASE DeferToCatchUp \/ ProjectDeferred \/ DeferredFails \/ Claim \/ Fork \/ Publish
  BY <1>8 DEF DeferToCatchUp, ProjectDeferred, DeferredFails, Claim, Fork, Publish, Advance,
              ModelInv, Adopted, Held, AfterCommit
<1>9. CASE Reconcile
  <2> DEFINE end == ReplayEnd(startSeq)
  <2>1. /\ pc = "failed" /\ pc' = "resolve" /\ UNCHANGED <<log, startSeq, first>>
        /\ \/ end > startSeq /\ model' = model \o Between(startSeq, end)
           \/ ~(end > startSeq) /\ model' = model
    BY <1>9 DEF Reconcile
  <2>2. end \in Nat /\ startSeq <= end
    BY ReplayEndRange, <1>a DEF TypeInv, WorkerOK
  <2>e. OneReadReconciles /\ pc = "failed" /\ Deadlines => end = Len(log)
    BY DEF OneReadReconciles
  <2> HIDE DEF end
  <2>3. /\ \A n \in Elements(model) : n \in Elements(model \o Between(startSeq, end))
        /\ \A n \in (startSeq + 1)..end : n \in Elements(model \o Between(startSeq, end))
    BY <1>a, <2>2, ReplayElements
  <2>4. /\ \A n \in Held : n \in Held'
        /\ \A n \in (startSeq + 1)..end : n \in Held'
    <3>1. CASE end > startSeq
      BY <2>1, <2>3, <3>1 DEF Held
    <3>2. CASE ~(end > startSeq)
      BY <1>a, <2>1, <2>2, <3>2 DEF Held
    <3> QED
      BY <3>1, <3>2
  <2>5. Adopted' = Len(log)
    BY <2>1 DEF Adopted
  <2>6. \A n \in 1..Len(log) : n \in Held'
    <3> HIDE DEF Held
    <3>1. CASE Deadlines
      <4>1. end = Len(log) /\ \A n \in 1..startSeq : n \in Held
        BY <2>1, <2>e, <3>1 DEF ModelInv, Adopted
      <4> QED
        BY <1>a, <2>4, <4>1
    <3>2. CASE ~Deadlines
      BY <2>1, <2>4, <3>2 DEF ModelInv, Adopted
    <3> QED
      BY <3>1, <3>2
  <2> QED
    BY <2>1, <2>5, <2>6 DEF ModelInv, AfterCommit
<1>10. CASE ReconcileFails
  BY <1>10, <1>b DEF ReconcileFails, ReconciliationReads, ModelInv, Adopted, Held, AfterCommit
<1>11. CASE CatchUp \/ CatchUpFails \/ RepairFails
  BY <1>11 DEF CatchUp, CatchUpFails, RepairFails, Maintain, ModelInv, Adopted, Held, AfterCommit
<1>12. CASE Refresh \/ Repair
  <2>1. /\ UNCHANGED <<log, pc, startSeq, first>> /\ pc \in {"idle", "lock"}
        /\ model' = UpTo(Len(log))
    BY <1>12 DEF Refresh, Repair, Maintain, LockFree, LoadModel
  <2> QED
    BY <1>a, <2>1, LoadedElements DEF ModelInv, Adopted, Held, AfterCommit
<1>13. CASE Crash
  BY <1>13 DEF Crash, ModelInv, AfterCommit
<1>14. CASE Boot
  <2>1. UNCHANGED log /\ pc' = "idle" /\ model' = UpTo(Len(log))
    BY <1>14 DEF Boot, LoadModel
  <2> QED
    BY <1>a, <2>1, LoadedElements DEF ModelInv, Adopted, Held, AfterCommit
<1> QED
  BY <1>1, <1>2, <1>3, <1>4, <1>5, <1>6, <1>7, <1>8, <1>9, <1>10, <1>11, <1>12, <1>13, <1>14
     DEF Next, Handle, Maintenance

------------------------------------------------------------------------------
\* The stream of events

Seen == Elements(published)

\* How far the stream must have come: while a commit is being handled, to the
\* event it is about to publish; after a timeout, to where the reconciliation
\* starts.
Announced == IF pc \in {"committed", "deferred", "schedule", "fork"} THEN first - 1
             ELSE IF pc = "publish" THEN next - 1
             ELSE IF pc = "failed" /\ Deadlines THEN startSeq
             ELSE Len(log)

StreamInv ==
    /\ NoGapInStream
    /\ pc \in AfterCommit => startSeq < first
    /\ pc = "down" => published = <<>>
    /\ pc # "down" => \A n \in (booted + 1)..Announced : n \in Seen

\* Publishing one event is a replay of one event.
LEMMA AppendReplays ==
    ASSUME NEW s \in Seq(Nat), NEW n \in Nat, n >= 1
    PROVE  Append(s, n) = s \o Between(n - 1, n)
<1>1. Between(n - 1, n) = <<n>>
  BY DEF Between
<1>2. Append(s, n) = s \o <<n>>
  BY AppendIsConcat
<1> QED
  BY <1>1, <1>2

\* What a replay from an event up to which the stream is complete does to it.
LEMMA StreamReplayed ==
    ASSUME published \in Seq(Nat), booted \in Nat, NoGapInStream,
           NEW a \in Nat, NEW b \in Nat, a <= b,
           \A n \in (booted + 1)..a : n \in Seen,
           published' = published \o Between(a, b), booted' = booted
    PROVE  /\ NoGapInStream'
           /\ \A n \in Seen : n \in Seen'
           /\ \A n \in (booted + 1)..b : n \in Seen'
<1>1. InOrder(published, booted)
  BY DEF InOrder, NoGapInStream
<1>2. a > booted => a \in Elements(published)
  BY DEF Seen
<1>3. InOrder(published \o Between(a, b), booted)
  BY <1>1, <1>2, ReplayInOrder
<1>4. NoGapInStream'
  <2> DEFINE t == published \o Between(a, b)
  <2> HIDE DEF t
  <2>1. InOrder(t, booted) /\ published' = t
    BY <1>3 DEF t
  <2> QED
    BY <2>1 DEF InOrder, NoGapInStream
<1>5. /\ \A n \in Elements(published) : n \in Elements(published \o Between(a, b))
      /\ \A n \in (a + 1)..b : n \in Elements(published \o Between(a, b))
  BY ReplayElements
<1>6. /\ \A n \in Seen : n \in Seen'
      /\ \A n \in (a + 1)..b : n \in Seen'
  BY <1>5 DEF Seen
<1>7. \A n \in (booted + 1)..b : n \in Seen'
  <2> HIDE DEF Seen
  <2> QED
    BY <1>6
<1> QED
  BY <1>4, <1>6, <1>7

LEMMA StreamNext ==
    ASSUME ReconciliationReads, OneReadReconciles, TypeInv, ClockInv, StreamInv, [Next]_vars
    PROVE  StreamInv'
<1> USE DEF durable, callers, worker, memory, bounds
<1>a. /\ WorkerOK /\ LoopOK /\ EnvelopesOK /\ MemoryOK
      /\ Len(log) \in Nat /\ startSeq \in Nat /\ startSeq <= Len(log)
      /\ next \in Nat /\ first \in Nat
      /\ published \in Seq(Nat) /\ booted \in Nat
  BY DEF TypeInv, TypeOK, StoreOK, WorkerOK, MemoryOK
<1>1. CASE Caller \/ UNCHANGED vars
  BY <1>1 DEF Caller, Dispatch, Expire, Abandon, vars, StreamInv, NoGapInStream, Announced, Seen,
              AfterCommit
<1>2. CASE Take \/ Skip \/ NoReceipt \/ AnswerStored \/ RecordRejection \/ AnswerFailure \/ Answer
  BY <1>2, <1>a DEF Take, Skip, NoReceipt, AnswerStored, RecordRejection, AnswerFailure, Answer,
                    Settle, StreamInv, NoGapInStream, Announced, Seen, AfterCommit
<1>3. CASE Start
  <2>1. /\ pc = "lock" /\ UNCHANGED <<log, startSeq, published, booted>>
        /\ \/ Deadlines /\ pc' = "failed"
           \/ pc' = "lookup"
    BY <1>3 DEF Start, Fail, ClockInv
  <2>2. \A n \in (booted + 1)..Len(log) : n \in Seen
    BY <2>1 DEF StreamInv, Announced
  <2>3. NoGapInStream'
    BY <2>1 DEF StreamInv, NoGapInStream
  <2>4. \A n \in (booted + 1)..Announced' : n \in Seen
    BY <1>a, <2>1, <2>2 DEF Announced
  <2> QED
    BY <2>1, <2>3, <2>4 DEF StreamInv, Seen, AfterCommit
<1>4. CASE LookupFails \/ DecideFails
  <2>1. /\ pc \in {"lookup", "decide"} /\ pc' = "failed"
        /\ UNCHANGED <<log, startSeq, published, booted>>
    BY <1>4 DEF LookupFails, DecideFails, Fail
  <2>2. \A n \in (booted + 1)..Len(log) : n \in Seen
    BY <2>1 DEF StreamInv, Announced
  <2>3. NoGapInStream'
    BY <2>1 DEF StreamInv, NoGapInStream
  <2>4. \A n \in (booted + 1)..Announced' : n \in Seen
    BY <1>a, <2>1, <2>2 DEF Announced
  <2> QED
    BY <2>1, <2>3, <2>4 DEF StreamInv, Seen, AfterCommit
<1>5. CASE Interrupt
  <2>1. /\ Deadlines /\ pc' = "failed"
        /\ UNCHANGED <<log, startSeq, published, booted>>
    BY <1>5, <1>a DEF Interrupt, Interruptible, Fail, LoopOK, ClockInv
  <2>2. startSeq <= Announced /\ Announced \in Nat /\ pc # "down"
    BY <1>5, <1>a DEF Interrupt, Interruptible, Announced, StreamInv, AfterCommit, LoopOK
  <2> QED
    BY <1>a, <2>1, <2>2 DEF StreamInv, NoGapInStream, Announced, Seen, AfterCommit
<1>6. ASSUME NEW n \in 1..MaxBatch, Commit(n)  PROVE  StreamInv'
  BY <1>6, <1>a DEF Commit, StreamInv, NoGapInStream, Announced, Seen, AfterCommit
<1>7. CASE Adopt
  BY <1>7, <1>a DEF Adopt, StreamInv, NoGapInStream, Announced, Seen, AfterCommit
<1>8. CASE DeferToCatchUp \/ ProjectDeferred \/ DeferredFails \/ Claim \/ Fork
  BY <1>8, <1>a DEF DeferToCatchUp, ProjectDeferred, DeferredFails, Claim, Fork, Advance,
                    StreamInv, NoGapInStream, Announced, Seen, AfterCommit
<1>9. CASE Publish
  <2>1. /\ pc = "publish" /\ next >= 1 /\ next <= Len(log)
        /\ UNCHANGED <<log, startSeq, first, booted>>
        /\ published' = Append(published, next)
        /\ \/ next = Len(log) /\ pc' = "answer"
           \/ pc' = "publish" /\ next' = next + 1
    BY <1>9, <1>a DEF Publish, Advance, LoopOK
  <2>2. published' = published \o Between(next - 1, next)
    BY <1>a, <2>1, AppendReplays
  <2>3. \A n \in (booted + 1)..(next - 1) : n \in Seen
    BY <2>1 DEF StreamInv, Announced
  <2>4. next - 1 \in Nat /\ next - 1 <= next
    BY <1>a, <2>1
  <2>5. NoGapInStream' /\ \A n \in (booted + 1)..next : n \in Seen'
    BY <1>a, <2>1, <2>2, <2>3, <2>4, StreamReplayed DEF StreamInv
  <2>6. Announced' = next
    BY <1>a, <2>1 DEF Announced
  <2> QED
    BY <2>1, <2>5, <2>6 DEF StreamInv, AfterCommit
<1>10. CASE Reconcile
  <2> DEFINE end == ReplayEnd(startSeq)
  <2>1. /\ pc = "failed" /\ pc' = "resolve" /\ UNCHANGED <<log, startSeq, first, booted>>
        /\ \/ end > startSeq /\ published' = published \o Between(startSeq, end)
           \/ ~(end > startSeq) /\ published' = published
    BY <1>10 DEF Reconcile
  <2>2. end \in Nat /\ startSeq <= end /\ end <= Len(log)
    BY ReplayEndRange, <1>a DEF TypeInv, WorkerOK
  <2>3. OneReadReconciles /\ pc = "failed" /\ Deadlines => end = Len(log)
    BY DEF OneReadReconciles
  <2> HIDE DEF end
  <2>4. \A n \in (booted + 1)..startSeq : n \in Seen
    BY <1>a, <2>1 DEF StreamInv, Announced
  <2>5. /\ NoGapInStream'
        /\ \A n \in Seen : n \in Seen'
        /\ \A n \in (booted + 1)..end : n \in Seen'
    <3>1. CASE end > startSeq
      BY <1>a, <2>1, <2>2, <2>4, <3>1, StreamReplayed DEF StreamInv
    <3>2. CASE ~(end > startSeq)
      BY <1>a, <2>1, <2>2, <2>4, <3>2 DEF StreamInv, NoGapInStream, Seen
    <3> QED
      BY <3>1, <3>2
  <2>6. \A n \in (booted + 1)..Len(log) : n \in Seen'
    <3>1. CASE Deadlines
      BY <2>1, <2>3, <2>5, <3>1
    <3>2. CASE ~Deadlines
      BY <2>1, <2>5, <3>2 DEF StreamInv, Announced
    <3> QED
      BY <3>1, <3>2
  <2> QED
    BY <2>1, <2>5, <2>6 DEF StreamInv, Announced, AfterCommit
<1>11. CASE ReconcileFails
  BY <1>11 DEF ReconcileFails, ReconciliationReads, StreamInv, NoGapInStream, Announced, Seen,
               AfterCommit
<1>12. CASE Maintenance
  <2>1. UNCHANGED <<log, pc, startSeq, first, next, published, booted>>
    BY <1>12 DEF Maintenance, CatchUp, CatchUpFails, Refresh, Repair, RepairFails, Maintain
  <2> QED
    BY <2>1 DEF StreamInv, NoGapInStream, Announced, Seen, AfterCommit
<1>13. CASE Crash
  BY <1>13 DEF Crash, StreamInv, NoGapInStream, AfterCommit
<1>14. CASE Boot
  BY <1>14, <1>a DEF Boot, StreamInv, NoGapInStream, Announced, AfterCommit
<1> QED
  BY <1>1, <1>2, <1>3, <1>4, <1>5, <1>6, <1>7, <1>8, <1>9, <1>10, <1>11, <1>12, <1>13, <1>14
     DEF Next, Handle

------------------------------------------------------------------------------
\* The deferred projection

\* The deferred cursor is at most one read behind the log, so that a bootstrap
\* replay ends at the end of the log.
DeferredWithinRead == Len(log) <= shellCursor + ReadLimit

\* How far the summaries are refreshed while the projection is not dirty.
Settled == IF pc = "committed" THEN first - 1
           ELSE IF pc = "deferred" THEN next - 1
           ELSE Len(log)

RefreshInv ==
    /\ pc \in {"schedule", "fork"} => dirty
    /\ NoSkippedRefresh
    /\ pc # "down" /\ ~dirty => \A i \in 1..Settled : summaryAt[ThreadOf[log[i].command]] >= i

LEMMA EventThread ==
    ASSUME TypeOK
    PROVE  \A i \in 1..Len(log) : ThreadOf[log[i].command] \in Threads
<1> SUFFICES ASSUME NEW i \in 1..Len(log) PROVE ThreadOf[log[i].command] \in Threads
  OBVIOUS
<1>1. log \in Seq([command : Commands, dispatch : Dispatches])
  BY DEF TypeOK, StoreOK
<1>2. log[i] \in [command : Commands, dispatch : Dispatches]
  BY <1>1, ElementOfSeq, Zenon
<1>3. log[i].command \in Commands
  BY <1>2
<1> QED
  BY <1>3

\* A refresh lowers no summary, and brings those of the events it covers to the
\* end of the log.
LEMMA RefreshRaises ==
    ASSUME TypeOK, NEW a \in Nat, NEW b \in Nat
    PROVE  /\ \A t \in Threads : Refreshed(a, b)[t] >= summaryAt[t]
           /\ \A i \in (a + 1)..b : i \in 1..Len(log) =>
                Refreshed(a, b)[ThreadOf[log[i].command]] >= i
<1>1. /\ Len(log) \in Nat
      /\ \A t \in Threads : summaryAt[t] \in 0..Len(log)
      /\ \A i \in 1..Len(log) : ThreadOf[log[i].command] \in Threads
  BY EventThread DEF TypeOK, StoreOK
<1>2. \A t \in Threads : Refreshed(a, b)[t] >= summaryAt[t]
  BY <1>1 DEF Refreshed
<1>3. ASSUME NEW i \in (a + 1)..b, i \in 1..Len(log)
      PROVE  Refreshed(a, b)[ThreadOf[log[i].command]] = Len(log)
  BY <1>1, <1>3 DEF Refreshed
<1>4. \A i \in 1..Len(log) : Len(log) >= i
  BY <1>1
<1>5. ASSUME NEW i \in (a + 1)..b, i \in 1..Len(log)
      PROVE  Refreshed(a, b)[ThreadOf[log[i].command]] >= i
  <2>1. Len(log) >= i
    BY <1>4, <1>5
  <2> QED
    BY <1>3, <1>5, <2>1
<1> QED
  BY <1>2, <1>5

\* Refreshing the summaries of the events after a, up to b, when those up to a
\* are refreshed.
LEMMA RefreshUpTo ==
    ASSUME TypeOK, NEW a \in Nat, NEW b \in Nat, b <= Len(log), UNCHANGED log,
           summaryAt' = Refreshed(a, b)
    PROVE  /\ \A i \in 1..Len(log) : summaryAt[ThreadOf[log[i].command]] >= i
                => summaryAt'[ThreadOf[log[i].command]] >= i
           /\ (\A i \in 1..a : summaryAt[ThreadOf[log[i].command]] >= i)
                => \A i \in 1..b : summaryAt'[ThreadOf[log[i].command]] >= i
<1>1. /\ Len(log) \in Nat
      /\ \A i \in 1..Len(log) : ThreadOf[log[i].command] \in Threads
      /\ \A t \in Threads : summaryAt[t] \in Nat /\ summaryAt'[t] \in Nat
  BY EventThread, RefreshedRange DEF TypeOK, StoreOK
<1>2. /\ \A t \in Threads : summaryAt'[t] >= summaryAt[t]
      /\ \A i \in (a + 1)..b : i \in 1..Len(log) => summaryAt'[ThreadOf[log[i].command]] >= i
  BY RefreshRaises
<1>3. ASSUME NEW i \in 1..Len(log), summaryAt[ThreadOf[log[i].command]] >= i
      PROVE  summaryAt'[ThreadOf[log[i].command]] >= i
  BY <1>1, <1>2, <1>3
<1>4. ASSUME \A i \in 1..a : summaryAt[ThreadOf[log[i].command]] >= i, NEW i \in 1..b
      PROVE  summaryAt'[ThreadOf[log[i].command]] >= i
  <2>1. i \in 1..Len(log) /\ (i \in 1..a \/ i \in (a + 1)..b)
    BY <1>1
  <2> QED
    BY <1>2, <1>3, <1>4, <2>1
<1> QED
  BY <1>3, <1>4

\* A bootstrap replay of the deferred projection up to b.
LEMMA BootstrapRefreshes ==
    ASSUME TypeOK, NoSkippedRefresh, NEW b \in Nat, b <= Len(log), UNCHANGED log,
           summaryAt' = Refreshed(shellCursor, b)
    PROVE  /\ \A i \in 1..Len(log) : summaryAt[ThreadOf[log[i].command]] >= i
                => summaryAt'[ThreadOf[log[i].command]] >= i
           /\ \A i \in 1..b : summaryAt'[ThreadOf[log[i].command]] >= i
<1>1. shellCursor \in Nat
  BY DEF TypeOK, StoreOK
<1> QED
  BY <1>1, RefreshUpTo, Zenon DEF NoSkippedRefresh

LEMMA RefreshNext ==
    ASSUME ~Deadlines, DeferredWithinRead, TypeInv, ClockInv, RefreshInv, [Next]_vars
    PROVE  RefreshInv'
<1> USE DEF durable, callers, worker, memory, bounds
<1>a. /\ TypeOK /\ WorkerOK /\ LoopOK /\ EnvelopesOK /\ MemoryOK
      /\ Len(log) \in Nat /\ shellCursor \in Nat /\ shellCursor <= Len(log)
      /\ next \in Nat /\ first \in Nat
  BY DEF TypeInv, TypeOK, StoreOK, WorkerOK
<1>1. CASE Caller \/ UNCHANGED vars
  BY <1>1 DEF Caller, Dispatch, Expire, Abandon, vars, RefreshInv, NoSkippedRefresh, Settled
<1>2. CASE Take \/ Skip \/ NoReceipt \/ AnswerStored \/ RecordRejection \/ AnswerFailure \/ Answer
  BY <1>2 DEF Take, Skip, NoReceipt, AnswerStored, RecordRejection, AnswerFailure, Answer,
              Settle, RefreshInv, NoSkippedRefresh, Settled
<1>3. CASE Start \/ LookupFails \/ DecideFails \/ Reconcile \/ ReconcileFails
  BY <1>3 DEF Start, LookupFails, DecideFails, Reconcile, ReconcileFails, Fail, RefreshInv,
              NoSkippedRefresh, Settled
<1>4. CASE Interrupt
  BY <1>4, <1>a DEF Interrupt, Interruptible, LoopOK, ClockInv
<1>5. ASSUME NEW n \in 1..MaxBatch, Commit(n)  PROVE  RefreshInv'
  <2>1. /\ pc = "decide" /\ pc' = "committed" /\ first' = Len(log) + 1
        /\ UNCHANGED <<shellCursor, summaryAt, dirty>>
    BY <1>5 DEF Commit
  <2>2. \A i \in 1..Len(log) : log'[i] = log[i]
    BY <1>5, CommitAppends
  <2>3. Settled' = Len(log) /\ Settled = Len(log)
    BY <1>a, <2>1 DEF Settled
  <2>4. NoSkippedRefresh'
    BY <1>a, <2>1, <2>2 DEF RefreshInv, NoSkippedRefresh
  <2>5. ~dirty => \A i \in 1..Len(log) : summaryAt'[ThreadOf[log'[i].command]] >= i
    BY <2>1, <2>2, <2>3 DEF RefreshInv
  <2> QED
    BY <2>1, <2>3, <2>4, <2>5 DEF RefreshInv
<1>6. CASE Adopt
  BY <1>6 DEF Adopt, RefreshInv, NoSkippedRefresh, Settled
<1>7. CASE DeferToCatchUp \/ DeferredFails \/ Claim \/ Fork
  BY <1>7 DEF DeferToCatchUp, DeferredFails, Claim, Fork, Advance, RefreshInv, NoSkippedRefresh,
              Settled
<1>8. CASE ProjectDeferred
  <2>1. /\ pc = "deferred" /\ ~dirty /\ next >= 1 /\ next <= Len(log)
        /\ UNCHANGED <<log, dirty>>
        /\ summaryAt' = Refreshed(next - 1, next)
        /\ shellCursor' = next \/ shellCursor' = shellCursor
        /\ \/ next = Len(log) /\ pc' = "publish"
           \/ pc' = "deferred" /\ next' = next + 1
    BY <1>8, <1>a DEF ProjectDeferred, Advance, LoopOK
  <2>2. next - 1 \in Nat
    BY <1>a, <2>1
  <2>3. \A i \in 1..(next - 1) : summaryAt[ThreadOf[log[i].command]] >= i
    BY <2>1 DEF RefreshInv, Settled
  <2>4. /\ \A i \in 1..Len(log) : summaryAt[ThreadOf[log[i].command]] >= i
                => summaryAt'[ThreadOf[log[i].command]] >= i
        /\ \A i \in 1..next : summaryAt'[ThreadOf[log[i].command]] >= i
    BY <1>a, <2>1, <2>2, <2>3, RefreshUpTo
  <2>5. Settled' = next
    BY <1>a, <2>1 DEF Settled
  <2>6. \A i \in 1..shellCursor : summaryAt'[ThreadOf[log[i].command]] >= i
    BY <1>a, <2>4 DEF RefreshInv, NoSkippedRefresh
  <2>7. NoSkippedRefresh'
    BY <2>1, <2>4, <2>6 DEF NoSkippedRefresh
  <2> QED
    BY <2>1, <2>4, <2>5, <2>7 DEF RefreshInv
<1>9. CASE Publish
  BY <1>9 DEF Publish, Advance, RefreshInv, NoSkippedRefresh, Settled
<1>10. ReplayEnd(shellCursor) = Len(log)
  BY <1>a DEF DeferredWithinRead, ReplayEnd, Least
<1>11. CASE CatchUp \/ Repair \/ Boot
  <2>1. /\ UNCHANGED log /\ shellCursor' = Len(log)
        /\ summaryAt' = Refreshed(shellCursor, Len(log))
        /\ pc' \in {"idle", "lock"}
    BY <1>10, <1>11 DEF CatchUp, Repair, Boot, BootstrapShell, Maintain, LockFree
  <2>2. \A i \in 1..Len(log) : summaryAt'[ThreadOf[log[i].command]] >= i
    BY <1>a, <2>1, BootstrapRefreshes DEF RefreshInv
  <2>3. Settled' = Len(log)
    BY <2>1 DEF Settled
  <2> QED
    BY <2>1, <2>2, <2>3 DEF RefreshInv, NoSkippedRefresh
<1>12. CASE CatchUpFails \/ RepairFails
  <2>1. PICK b \in shellCursor..Len(log) :
            /\ UNCHANGED <<log, pc, dirty>> /\ pc \in {"idle", "lock"}
            /\ summaryAt' = Refreshed(shellCursor, b)
            /\ shellCursor' = b \/ shellCursor' = shellCursor
    BY <1>10, <1>12 DEF CatchUpFails, RepairFails, BootstrapShell, Maintain, LockFree
  <2>2. b \in Nat /\ b <= Len(log)
    BY <1>a
  <2>3. /\ \A i \in 1..Len(log) : summaryAt[ThreadOf[log[i].command]] >= i
                => summaryAt'[ThreadOf[log[i].command]] >= i
        /\ \A i \in 1..b : summaryAt'[ThreadOf[log[i].command]] >= i
    BY <1>a, <2>1, <2>2, BootstrapRefreshes DEF RefreshInv
  <2>4. \A i \in 1..shellCursor : summaryAt'[ThreadOf[log[i].command]] >= i
    BY <1>a, <2>3 DEF RefreshInv, NoSkippedRefresh
  <2>5. NoSkippedRefresh'
    BY <2>1, <2>3, <2>4 DEF NoSkippedRefresh
  <2>6. Settled' = Len(log) /\ Settled = Len(log)
    BY <2>1 DEF Settled
  <2> QED
    BY <2>1, <2>3, <2>5, <2>6 DEF RefreshInv
<1>13. CASE Refresh
  BY <1>13 DEF Refresh, Maintain, LockFree, RefreshInv, NoSkippedRefresh, Settled
<1>14. CASE Crash
  BY <1>14 DEF Crash, RefreshInv, NoSkippedRefresh
<1> QED
  BY <1>1, <1>2, <1>3, <1>4, <1>5, <1>6, <1>7, <1>8, <1>9, <1>11, <1>12, <1>13, <1>14
     DEF Next, Handle, Maintenance

------------------------------------------------------------------------------
\* Theorems

\* However often a command id is dispatched, retried after a timeout or after a
\* crash, its events enter the log once, in one piece, and the accepted receipt
\* names the last of them; whichever storage operations fail.
THEOREM CommandsCommittedOnce == Spec => []CommittedOnce
<1>1. TypeInv /\ LedgerInv => CommittedOnce
  BY DEF LedgerInv
<1> QED
  BY <1>1, Invariance, PTL

\* The engine keeps the promises of CommandLedger: every answer agrees with what
\* is stored, and a failure is never reported for a command whose events are in
\* the log, as long as a timeout can read the receipts.
THEOREM EngineImplementsLedger == ASSUME ReceiptsReadable PROVE Spec => LedgerSpec
<1>1. Init => Ledger!Init
  BY DEF Init, Ledger!Init
<1>2. ReceiptsReadable /\ TypeInv /\ LedgerInv /\ [Next]_vars => [Ledger!Next]_(Ledger!vars)
  BY StepImplements
<1>3. ReceiptsReadable
  OBVIOUS
<1> QED
  BY <1>1, <1>2, <1>3, Invariance, PTL DEF Spec, LedgerSpec, Ledger!Spec

LEMMA EngineConstraints ==
    Spec => []TypeInv /\ []ClockInv
<1>1. TypeInv /\ LedgerInv => TypeInv /\ ClockInv
  BY DEF LedgerInv
<1> QED
  BY <1>1, Invariance, PTL

\* Whatever was interrupted, failed, restored or restarted before, the worker
\* decides a command on a read model that holds every event of the log, provided
\* that the reconciliation after a timeout can read the log and needs one read.
THEOREM DecisionsSeeWholeLog ==
    ASSUME ReconciliationReads
    PROVE  Spec /\ []OneReadReconciles => []DecidesOnWholeLog
<1>1. Init => ModelInv
  BY DEF Init, ModelInv, AfterCommit
<1>2. OneReadReconciles /\ TypeInv /\ ClockInv /\ ModelInv /\ [Next]_vars => ModelInv'
  BY ModelNext
<1>3. TypeInv /\ ModelInv => DecidesOnWholeLog
  <2> SUFFICES ASSUME TypeInv, ModelInv, pc = "decide", NEW i \in DOMAIN log
               PROVE  \E j \in DOMAIN model : model[j] = i
    BY DEF DecidesOnWholeLog
  <2>1. i \in 1..Adopted
    BY DEF Adopted, TypeInv, TypeOK, StoreOK
  <2> QED
    BY <2>1 DEF ModelInv, Held, Elements
<1> QED
  BY <1>1, <1>2, <1>3, EngineConstraints, PTL DEF Spec

LEMMA StreamInvariance ==
    ASSUME ReconciliationReads
    PROVE  Spec /\ []OneReadReconciles => []StreamInv
<1>1. Init => StreamInv
  BY DEF Init, StreamInv, NoGapInStream, AfterCommit
<1>2. OneReadReconciles /\ TypeInv /\ ClockInv /\ StreamInv /\ [Next]_vars => StreamInv'
  BY StreamNext
<1> QED
  BY <1>1, <1>2, EngineConstraints, PTL DEF Spec

\* Under the same provisos, a subscriber never sees an event before the one that
\* precedes it, although events are published outside the transaction and a
\* timeout leaves the rest of them to the reconciliation.
THEOREM StreamHasNoGap ==
    ASSUME ReconciliationReads
    PROVE  Spec /\ []OneReadReconciles => []NoGapInStream
<1>1. StreamInv => NoGapInStream
  BY DEF StreamInv
<1> QED
  BY <1>1, StreamInvariance, PTL

\* Under the same provisos, nothing the process committed is left unpublished
\* when the worker is between commands.
THEOREM EverythingPublished ==
    ASSUME ReconciliationReads
    PROVE  Spec /\ []OneReadReconciles => []NothingUnpublished
<1>1. StreamInv => NothingUnpublished
  <2> SUFFICES ASSUME StreamInv, LockFree, NEW n \in (booted + 1)..Len(log)
               PROVE  \E i \in DOMAIN published : published[i] = n
    BY DEF NothingUnpublished
  <2>1. pc \in {"idle", "lock"} /\ Announced = Len(log)
    BY DEF LockFree, Announced
  <2> QED
    BY <2>1 DEF StreamInv, Seen, Elements
<1> QED
  BY <1>1, StreamInvariance, PTL

\* While no command times out, and a bootstrap replay of the deferred projection
\* reaches the end of the log, its cursor passes no event whose summary refresh
\* has not run, whichever refreshes, catch-ups and repairs fail.
THEOREM NoRefreshSkipped ==
    ASSUME ~Deadlines
    PROVE  Spec /\ []DeferredWithinRead => []NoSkippedRefresh
<1>1. Init => RefreshInv
  BY DEF Init, RefreshInv, NoSkippedRefresh
<1>2. DeferredWithinRead /\ TypeInv /\ ClockInv /\ RefreshInv /\ [Next]_vars => RefreshInv'
  BY RefreshNext
<1>3. RefreshInv => NoSkippedRefresh
  BY DEF RefreshInv
<1> QED
  BY <1>1, <1>2, <1>3, EngineConstraints, PTL DEF Spec
==============================================================================
