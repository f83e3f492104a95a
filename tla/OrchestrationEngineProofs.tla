---------------------- MODULE OrchestrationEngineProofs ----------------------
(***************************************************************************)
(* Proofs about OrchestrationEngine, for any dispatches, commands, batch   *)
(* sizes, read limit and faults.                                           *)
(***************************************************************************)
EXTENDS OrchestrationEngine, SequenceTheorems, TLAPS

USE EngineConstants

------------------------------------------------------------------------------
\* Lemmas about the operators

LEMMA ReplayEndRange ==
    ASSUME TypeOK, NEW from \in 0..Len(log)
    PROVE  ReplayEnd(from) \in from..Len(log)
BY DEF ReplayEnd, Least, TypeOK, StoreOK

LEMMA CountingIsNat ==
    ASSUME NEW a \in Nat, NEW b \in Nat
    PROVE  UpTo(b) \in Seq(Nat) /\ (a <= b => Between(a, b) \in Seq(Nat))
BY DEF UpTo, Between

\* The events of one command, as the transaction appends them.
Batch(d, n) == [i \in 1..n |-> [command |-> CommandOf[d], dispatch |-> d]]

LEMMA BatchAppended ==
    ASSUME TypeOK, NEW d \in Dispatches, NEW n \in 1..MaxBatch
    PROVE  /\ log \o Batch(d, n) \in Seq([command : Commands, dispatch : Dispatches])
           /\ Len(log \o Batch(d, n)) = Len(log) + n
           /\ \A i \in 1..Len(log) : (log \o Batch(d, n))[i] = log[i]
           /\ \A i \in (Len(log) + 1)..(Len(log) + n) :
                (log \o Batch(d, n))[i] = [command |-> CommandOf[d], dispatch |-> d]
<1>1. Batch(d, n) \in Seq([command : Commands, dispatch : Dispatches]) /\ Len(Batch(d, n)) = n
  BY DEF Batch
<1>2. log \in Seq([command : Commands, dispatch : Dispatches])
  BY DEF TypeOK, StoreOK
<1> QED
  BY <1>1, <1>2, ConcatProperties DEF Batch

LEMMA RefreshedRange ==
    ASSUME TypeOK, NEW a, NEW b
    PROVE  Refreshed(a, b) \in [Threads -> 0..Len(log)]
BY DEF Refreshed, TypeOK, StoreOK

------------------------------------------------------------------------------
\* Types

\* While the worker handles an envelope it holds one, and the loop over the
\* committed events stays between the first and the last of them.
LoopOK ==
    /\ pc \notin {"down", "idle"} => cur \in Dispatches
    /\ pc \in {"committed", "deferred", "schedule", "fork", "publish", "answer"} => first \in 1..Len(log)
    /\ pc \in {"deferred", "schedule", "fork", "publish"} => next \in first..Len(log)

TypeInv == TypeOK /\ LoopOK

LEMMA TypeInit == Init => TypeInv
<1> SUFFICES ASSUME Init PROVE TypeInv OBVIOUS
<1>1. \A S : <<>> \in Seq(S) /\ Len(<<>>) = 0
  OBVIOUS
<1>2. StoreOK
  BY <1>1 DEF Init, StoreOK, Receipt
<1>3. EnvelopesOK
  BY <1>1 DEF Init, EnvelopesOK, Reply
<1>4. WorkerOK /\ LoopOK
  BY <1>1 DEF Init, WorkerOK, LoopOK
<1>5. MemoryOK
  BY <1>1 DEF Init, MemoryOK
<1>6. FlagsOK
  BY DEF Init, FlagsOK
<1> QED
  BY <1>2, <1>3, <1>4, <1>5, <1>6 DEF TypeInv, TypeOK

LEMMA TypeNext == TypeInv /\ [Next]_vars => TypeInv'
<1> SUFFICES ASSUME TypeInv, [Next]_vars PROVE TypeInv' OBVIOUS
<1> USE DEF durable, callers, worker, memory, bounds
<1>a. StoreOK /\ EnvelopesOK /\ WorkerOK /\ MemoryOK /\ FlagsOK /\ LoopOK /\ Len(log) \in Nat
  BY DEF TypeInv, TypeOK, StoreOK
<1>b. SUFFICES StoreOK' /\ EnvelopesOK' /\ WorkerOK' /\ MemoryOK' /\ FlagsOK' /\ LoopOK'
  BY DEF TypeInv, TypeOK
<1>1. ASSUME NEW d \in Dispatches, Dispatch(d)
       PROVE  StoreOK' /\ EnvelopesOK' /\ WorkerOK' /\ MemoryOK' /\ FlagsOK' /\ LoopOK'
  <2>1. queue' \in Seq(Dispatches)
    BY <1>1, <1>a, AppendProperties DEF Dispatch, EnvelopesOK
  <2>2. reply' \in [Dispatches -> Reply]
    BY <1>1, <1>a DEF Dispatch, EnvelopesOK, Reply, Told
  <2>20. FlagsOK'
    BY <1>1, <1>a DEF Dispatch, FlagsOK
  <2>21. StoreOK' /\ EnvelopesOK' /\ WorkerOK' /\ MemoryOK' /\ LoopOK'
    BY <1>1, <1>a, <2>1, <2>2 DEF Dispatch, StoreOK, EnvelopesOK, WorkerOK, MemoryOK, LoopOK
  <2> QED
    BY <2>20, <2>21
<1>2. ASSUME NEW d \in Dispatches, Expire(d)
       PROVE  StoreOK' /\ EnvelopesOK' /\ WorkerOK' /\ MemoryOK' /\ FlagsOK' /\ LoopOK'
  <2>20. FlagsOK'
    BY <1>2, <1>a DEF Expire, FlagsOK
  <2>21. StoreOK' /\ EnvelopesOK' /\ WorkerOK' /\ MemoryOK' /\ LoopOK'
    BY <1>2, <1>a DEF Expire, StoreOK, EnvelopesOK, WorkerOK, MemoryOK, LoopOK
  <2> QED
    BY <2>20, <2>21
<1>3. ASSUME NEW d \in Dispatches, Abandon(d)
       PROVE  StoreOK' /\ EnvelopesOK' /\ WorkerOK' /\ MemoryOK' /\ FlagsOK' /\ LoopOK'
  <2>20. FlagsOK'
    BY <1>3, <1>a DEF Abandon, FlagsOK
  <2>21. StoreOK' /\ EnvelopesOK' /\ WorkerOK' /\ MemoryOK' /\ LoopOK'
    BY <1>3, <1>a DEF Abandon, Reply, Told, StoreOK, EnvelopesOK, WorkerOK, MemoryOK, LoopOK
  <2> QED
    BY <2>20, <2>21
<1>4. CASE Take
  <2>1. Head(queue) \in Dispatches /\ Tail(queue) \in Seq(Dispatches)
    BY <1>4, <1>a, HeadTailProperties DEF Take, EnvelopesOK
  <2>20. FlagsOK'
    BY <1>4, <1>a, <2>1 DEF Take, FlagsOK
  <2>21. StoreOK' /\ EnvelopesOK' /\ WorkerOK' /\ MemoryOK' /\ LoopOK'
    BY <1>4, <1>a, <2>1 DEF Take, StoreOK, EnvelopesOK, WorkerOK, MemoryOK, LoopOK
  <2> QED
    BY <2>20, <2>21
<1>5. CASE Skip
  <2>20. FlagsOK'
    BY <1>5, <1>a DEF Skip, FlagsOK
  <2>21. StoreOK' /\ EnvelopesOK' /\ WorkerOK' /\ MemoryOK' /\ LoopOK'
    BY <1>5, <1>a DEF Skip, StoreOK, EnvelopesOK, WorkerOK, MemoryOK, LoopOK
  <2> QED
    BY <2>20, <2>21
<1>6. CASE Start
  <2>20. FlagsOK'
    BY <1>6, <1>a DEF Start, FlagsOK, Fail
  <2>21. StoreOK' /\ EnvelopesOK' /\ WorkerOK' /\ MemoryOK' /\ LoopOK'
    BY <1>6, <1>a DEF Start, Fail, StoreOK, EnvelopesOK, WorkerOK, MemoryOK, LoopOK
  <2> QED
    BY <2>20, <2>21
<1>7. CASE AnswerStored
  <2>1. cur \in Dispatches /\ Stored(cur) \in Receipt
    BY <1>7, <1>a DEF AnswerStored, Stored, StoreOK, LoopOK
  <2>2. reply' \in [Dispatches -> Reply]
    BY <1>7, <1>a, <2>1 DEF AnswerStored, EnvelopesOK, Settle, Succeeded, Told, Reply, Receipt
  <2>20. FlagsOK'
    BY <1>7, <1>a DEF AnswerStored, FlagsOK, Settle
  <2>21. StoreOK' /\ EnvelopesOK' /\ WorkerOK' /\ MemoryOK' /\ LoopOK'
    BY <1>7, <1>a, <2>2 DEF AnswerStored, Settle, StoreOK, EnvelopesOK, WorkerOK, MemoryOK, LoopOK
  <2> QED
    BY <2>20, <2>21
<1>8. CASE NoReceipt
  <2>20. FlagsOK'
    BY <1>8, <1>a DEF NoReceipt, FlagsOK
  <2>21. StoreOK' /\ EnvelopesOK' /\ WorkerOK' /\ MemoryOK' /\ LoopOK'
    BY <1>8, <1>a DEF NoReceipt, StoreOK, EnvelopesOK, WorkerOK, MemoryOK, LoopOK
  <2> QED
    BY <2>20, <2>21
<1>9. CASE LookupFails
  <2>20. FlagsOK'
    BY <1>9, <1>a DEF LookupFails, FlagsOK, Fail
  <2>21. StoreOK' /\ EnvelopesOK' /\ WorkerOK' /\ MemoryOK' /\ LoopOK'
    BY <1>9, <1>a DEF LookupFails, Fail, StoreOK, EnvelopesOK, WorkerOK, MemoryOK, LoopOK
  <2> QED
    BY <2>20, <2>21
<1>10. CASE DecideFails
  <2>20. FlagsOK'
    BY <1>10, <1>a DEF DecideFails, FlagsOK, Fail
  <2>21. StoreOK' /\ EnvelopesOK' /\ WorkerOK' /\ MemoryOK' /\ LoopOK'
    BY <1>10, <1>a DEF DecideFails, Fail, StoreOK, EnvelopesOK, WorkerOK, MemoryOK, LoopOK
  <2> QED
    BY <2>20, <2>21
<1>11. ASSUME NEW n \in 1..MaxBatch, Commit(n)
       PROVE  StoreOK' /\ EnvelopesOK' /\ WorkerOK' /\ MemoryOK' /\ FlagsOK' /\ LoopOK'
  <2>1. cur \in Dispatches /\ CommandOf[cur] \in Commands
    BY <1>11, <1>a DEF Commit, LoopOK
  <2>2. log' = log \o Batch(cur, n)
    BY <1>11 DEF Commit, Batch
  <2>3. log' \in Seq([command : Commands, dispatch : Dispatches]) /\ Len(log') = Len(log) + n
    BY <2>1, <2>2, BatchAppended DEF TypeInv
  <2>4. receipts' \in [Commands -> Receipt]
    <3>1. Len(log) + n \in Nat /\ receipts \in [Commands -> Receipt]
      BY <1>a DEF StoreOK
    <3>2. [status |-> "accepted", seq |-> Len(log) + n] \in Receipt
      BY <3>1 DEF Receipt
    <3>3. receipts' = [receipts EXCEPT ![CommandOf[cur]] =
                            [status |-> "accepted", seq |-> Len(log) + n]]
      BY <1>11 DEF Commit
    <3> QED
      BY <3>1, <3>2, <3>3
  <2>5. summaryAt' \in [Threads -> 0..Len(log')]
    BY <1>11, <1>a, <2>3 DEF Commit, StoreOK
  <2>6. StoreOK'
    BY <1>11, <1>a, <2>3, <2>4, <2>5 DEF Commit, StoreOK
  <2>7. WorkerOK' /\ LoopOK'
    BY <1>11, <1>a, <2>3 DEF Commit, WorkerOK, LoopOK
  <2>8. MemoryOK' /\ EnvelopesOK'
    BY <1>11, <1>a, <2>3 DEF Commit, MemoryOK, EnvelopesOK
  <2>20. FlagsOK'
    BY <1>11, <1>a DEF Commit, FlagsOK
  <2>21. StoreOK' /\ EnvelopesOK' /\ WorkerOK' /\ MemoryOK' /\ LoopOK'
    BY <1>11, <1>a, <2>6, <2>7, <2>8 DEF Commit, StoreOK, EnvelopesOK, WorkerOK, MemoryOK, LoopOK
  <2> QED
    BY <2>20, <2>21
<1>12. CASE Adopt
  <2>1. Between(first - 1, Len(log)) \in Seq(Nat)
    BY <1>12, <1>a, CountingIsNat DEF Adopt, LoopOK
  <2>2. model' \in Seq(Nat)
    BY <1>12, <1>a, <2>1 DEF Adopt, MemoryOK
  <2>20. FlagsOK'
    BY <1>12, <1>a DEF Adopt, FlagsOK
  <2>21. StoreOK'
    BY <1>12, <1>a, <2>2 DEF Adopt, StoreOK
  <2>22. EnvelopesOK'
    BY <1>12, <1>a, <2>2 DEF Adopt, EnvelopesOK
  <2>23. WorkerOK' /\ LoopOK'
    BY <1>12, <1>a, <2>2 DEF Adopt, WorkerOK, LoopOK
  <2>24. MemoryOK'
    BY <1>12, <1>a, <2>2 DEF Adopt, MemoryOK
  <2> QED
    BY <2>20, <2>21, <2>22, <2>23, <2>24
<1>13. CASE DeferToCatchUp
  <2>20. FlagsOK'
    BY <1>13, <1>a DEF DeferToCatchUp, FlagsOK
  <2>21. StoreOK'
    BY <1>13, <1>a DEF DeferToCatchUp, StoreOK
  <2>22. EnvelopesOK'
    BY <1>13, <1>a DEF DeferToCatchUp, EnvelopesOK
  <2>23. WorkerOK' /\ LoopOK'
    BY <1>13, <1>a DEF DeferToCatchUp, WorkerOK, LoopOK
  <2>24. MemoryOK'
    BY <1>13, <1>a DEF DeferToCatchUp, MemoryOK
  <2> QED
    BY <2>20, <2>21, <2>22, <2>23, <2>24
<1>14. CASE ProjectDeferred
  <2>1. summaryAt' \in [Threads -> 0..Len(log)]
    BY <1>14, RefreshedRange DEF ProjectDeferred, TypeInv
  <2>20. FlagsOK'
    BY <1>14, <1>a DEF ProjectDeferred, FlagsOK
  <2>2. shellCursor' \in 0..Len(log)
    BY <1>14, <1>a DEF ProjectDeferred, StoreOK, WorkerOK
  <2>21. StoreOK'
    BY <1>14, <1>a, <2>1, <2>2 DEF ProjectDeferred, StoreOK
  <2>22. EnvelopesOK'
    BY <1>14, <1>a, <2>1 DEF ProjectDeferred, Advance, EnvelopesOK
  <2>23. WorkerOK' /\ LoopOK'
    BY <1>14, <1>a, <2>1 DEF ProjectDeferred, Advance, WorkerOK, LoopOK
  <2>24. MemoryOK'
    BY <1>14, <1>a, <2>1 DEF ProjectDeferred, Advance, MemoryOK
  <2> QED
    BY <2>20, <2>21, <2>22, <2>23, <2>24
<1>15. CASE DeferredFails
  <2>20. FlagsOK'
    BY <1>15, <1>a DEF DeferredFails, FlagsOK
  <2>21. StoreOK'
    BY <1>15, <1>a DEF DeferredFails, StoreOK
  <2>22. EnvelopesOK'
    BY <1>15, <1>a DEF DeferredFails, EnvelopesOK
  <2>23. WorkerOK' /\ LoopOK'
    BY <1>15, <1>a DEF DeferredFails, WorkerOK, LoopOK
  <2>24. MemoryOK'
    BY <1>15, <1>a DEF DeferredFails, MemoryOK
  <2> QED
    BY <2>20, <2>21, <2>22, <2>23, <2>24
<1>16. CASE Claim
  <2>20. FlagsOK'
    BY <1>16, <1>a DEF Claim, FlagsOK
  <2>21. StoreOK'
    BY <1>16, <1>a DEF Claim, Advance, StoreOK
  <2>22. EnvelopesOK'
    BY <1>16, <1>a DEF Claim, Advance, EnvelopesOK
  <2>23. WorkerOK' /\ LoopOK'
    BY <1>16, <1>a DEF Claim, Advance, WorkerOK, LoopOK
  <2>24. MemoryOK'
    BY <1>16, <1>a DEF Claim, Advance, MemoryOK
  <2> QED
    BY <2>20, <2>21, <2>22, <2>23, <2>24
<1>17. CASE Fork
  <2>20. FlagsOK'
    BY <1>17, <1>a DEF Fork, FlagsOK
  <2>21. StoreOK'
    BY <1>17, <1>a DEF Fork, Advance, StoreOK
  <2>22. EnvelopesOK'
    BY <1>17, <1>a DEF Fork, Advance, EnvelopesOK
  <2>23. WorkerOK' /\ LoopOK'
    BY <1>17, <1>a DEF Fork, Advance, WorkerOK, LoopOK
  <2>24. MemoryOK'
    BY <1>17, <1>a DEF Fork, Advance, MemoryOK
  <2> QED
    BY <2>20, <2>21, <2>22, <2>23, <2>24
<1>18. CASE Publish
  <2>1. next \in Nat
    BY <1>18, <1>a DEF Publish, WorkerOK
  <2>2. published' \in Seq(Nat)
    BY <1>18, <1>a, <2>1, AppendProperties DEF Publish, MemoryOK
  <2>20. FlagsOK'
    BY <1>18, <1>a DEF Publish, FlagsOK
  <2>21. StoreOK'
    BY <1>18, <1>a, <2>2 DEF Publish, Advance, StoreOK
  <2>22. EnvelopesOK'
    BY <1>18, <1>a, <2>2 DEF Publish, Advance, EnvelopesOK
  <2>23. WorkerOK' /\ LoopOK'
    BY <1>18, <1>a, <2>2 DEF Publish, Advance, WorkerOK, LoopOK
  <2>24. MemoryOK'
    BY <1>18, <1>a, <2>2 DEF Publish, Advance, MemoryOK
  <2> QED
    BY <2>20, <2>21, <2>22, <2>23, <2>24
<1>19. CASE Answer
  <2>20. FlagsOK'
    BY <1>19, <1>a DEF Answer, FlagsOK, Settle
  <2>21. StoreOK' /\ EnvelopesOK' /\ WorkerOK' /\ MemoryOK' /\ LoopOK'
    BY <1>19, <1>a DEF Answer, Settle, Succeeded, Reply, StoreOK, EnvelopesOK, WorkerOK, MemoryOK, LoopOK
  <2> QED
    BY <2>20, <2>21
<1>20. CASE Interrupt
  <2>20. FlagsOK'
    BY <1>20, <1>a DEF Interrupt, FlagsOK, Fail
  <2>21. StoreOK' /\ EnvelopesOK' /\ WorkerOK' /\ MemoryOK' /\ LoopOK'
    BY <1>20, <1>a DEF Interrupt, Interruptible, Fail, StoreOK, EnvelopesOK, WorkerOK, MemoryOK, LoopOK
  <2> QED
    BY <2>20, <2>21
<1>21. CASE Reconcile
  <2>1. startSeq \in 0..Len(log)
    BY <1>a DEF WorkerOK
  <2>2. ReplayEnd(startSeq) \in startSeq..Len(log)
    BY <2>1, ReplayEndRange DEF TypeInv
  <2>3. Between(startSeq, ReplayEnd(startSeq)) \in Seq(Nat)
    BY <1>a, <2>1, <2>2, CountingIsNat
  <2>4. /\ model' \in Seq(Nat)
        /\ published' \in Seq(Nat)
        /\ modelSeq' \in 0..Len(log)
    <3>1. CASE ReplayEnd(startSeq) > startSeq
      <4> DEFINE replayed == Between(startSeq, ReplayEnd(startSeq))
      <4>1. model' = model \o replayed /\ published' = published \o replayed
        BY <1>21, <3>1 DEF Reconcile
      <4>2. model \in Seq(Nat) /\ published \in Seq(Nat) /\ replayed \in Seq(Nat)
        BY <1>a, <2>1, <2>2, <2>3 DEF MemoryOK
      <4> HIDE DEF replayed
      <4>3. model \o replayed \in Seq(Nat) /\ published \o replayed \in Seq(Nat)
        BY <4>2
      <4>4. modelSeq' \in 0..Len(log)
        BY <1>21, <2>1, <2>2, <3>1, <1>a DEF Reconcile
      <4> QED
        BY <4>1, <4>3, <4>4
    <3>2. CASE ~(ReplayEnd(startSeq) > startSeq)
      BY <1>21, <1>a, <3>2 DEF Reconcile, MemoryOK
    <3> QED
      BY <3>1, <3>2
  <2>20. FlagsOK'
    BY <1>21, <1>a DEF Reconcile, FlagsOK
  <2>21. StoreOK'
    BY <1>21, <1>a, <2>4 DEF Reconcile, StoreOK
  <2>22. EnvelopesOK'
    BY <1>21, <1>a, <2>4 DEF Reconcile, EnvelopesOK
  <2>23. WorkerOK' /\ LoopOK'
    BY <1>21, <1>a, <2>4 DEF Reconcile, WorkerOK, LoopOK
  <2>24. MemoryOK'
    BY <1>21, <1>a, <2>4 DEF Reconcile, MemoryOK
  <2> QED
    BY <2>20, <2>21, <2>22, <2>23, <2>24
<1>22. CASE ReconcileFails
  <2>20. FlagsOK'
    BY <1>22, <1>a DEF ReconcileFails, FlagsOK
  <2>21. StoreOK' /\ EnvelopesOK' /\ WorkerOK' /\ MemoryOK' /\ LoopOK'
    BY <1>22, <1>a DEF ReconcileFails, StoreOK, EnvelopesOK, WorkerOK, MemoryOK, LoopOK
  <2> QED
    BY <2>20, <2>21
<1>23. CASE RecordRejection
  <2>1. receipts' \in [Commands -> Receipt]
    <3>1. modelSeq \in Nat /\ receipts \in [Commands -> Receipt]
      BY <1>a DEF StoreOK, MemoryOK
    <3>2. [status |-> "rejected", seq |-> modelSeq] \in Receipt
      BY <3>1 DEF Receipt
    <3>3. \/ receipts' = [receipts EXCEPT ![CommandOf[cur]] =
                            [status |-> "rejected", seq |-> modelSeq]]
          \/ receipts' = receipts
      BY <1>23 DEF RecordRejection
    <3> QED
      BY <3>1, <3>2, <3>3
  <2>20. FlagsOK'
    BY <1>23, <1>a DEF RecordRejection, FlagsOK
  <2>21. StoreOK' /\ EnvelopesOK' /\ WorkerOK' /\ MemoryOK' /\ LoopOK'
    BY <1>23, <1>a, <2>1 DEF RecordRejection, StoreOK, EnvelopesOK, WorkerOK, MemoryOK, LoopOK
  <2> QED
    BY <2>20, <2>21
<1>24. CASE AnswerFailure
  <2>1. reply' \in [Dispatches -> Reply]
    BY <1>24, <1>a DEF AnswerFailure, Settle, Told, Reply, EnvelopesOK, WorkerOK
  <2>20. FlagsOK'
    BY <1>24, <1>a DEF AnswerFailure, FlagsOK, Settle
  <2>21. StoreOK' /\ EnvelopesOK' /\ WorkerOK' /\ MemoryOK' /\ LoopOK'
    BY <1>24, <1>a, <2>1 DEF AnswerFailure, Settle, StoreOK, EnvelopesOK, WorkerOK, MemoryOK, LoopOK
  <2> QED
    BY <2>20, <2>21
<1>25. CASE CatchUp
  <2>1. shellCursor \in 0..Len(log)
    BY <1>a DEF StoreOK
  <2>2. ReplayEnd(shellCursor) \in shellCursor..Len(log)
    BY <2>1, ReplayEndRange DEF TypeInv
  <2>3. shellCursor' \in 0..Len(log) /\ summaryAt' \in [Threads -> 0..Len(log)]
    BY <1>25, <1>a, <2>1, <2>2, RefreshedRange DEF CatchUp, BootstrapShell, TypeInv
  <2>20. FlagsOK'
    BY <1>25, <1>a DEF CatchUp, FlagsOK
  <2>21. StoreOK' /\ EnvelopesOK' /\ WorkerOK' /\ MemoryOK' /\ LoopOK'
    BY <1>25, <1>a, <2>3 DEF CatchUp, StoreOK, EnvelopesOK, WorkerOK, MemoryOK, LoopOK
  <2> QED
    BY <2>20, <2>21
<1>26. CASE CatchUpFails
  <2>1. shellCursor \in 0..Len(log)
    BY <1>a DEF StoreOK
  <2>2. ReplayEnd(shellCursor) \in shellCursor..Len(log)
    BY <2>1, ReplayEndRange DEF TypeInv
  <2>3. shellCursor' \in 0..Len(log) /\ summaryAt' \in [Threads -> 0..Len(log)]
    BY <1>26, <1>a, <2>1, <2>2, RefreshedRange DEF CatchUpFails, BootstrapShell, TypeInv
  <2>20. FlagsOK'
    BY <1>26, <1>a DEF CatchUpFails, FlagsOK
  <2>21. StoreOK' /\ EnvelopesOK' /\ WorkerOK' /\ MemoryOK' /\ LoopOK'
    BY <1>26, <1>a, <2>3 DEF CatchUpFails, StoreOK, EnvelopesOK, WorkerOK, MemoryOK, LoopOK
  <2> QED
    BY <2>20, <2>21
<1>27. CASE Refresh
  <2>1. shellCursor \in 0..Len(log)
    BY <1>a DEF StoreOK
  <2>2. model' \in Seq(Nat) /\ modelSeq' \in 0..Len(log)
    BY <1>27, <1>a, <2>1, CountingIsNat DEF Refresh, LoadModel, Least
  <2>20. FlagsOK'
    BY <1>27, <1>a DEF Refresh, FlagsOK, Maintain
  <2>21. StoreOK'
    BY <1>27, <1>a, <2>2 DEF Refresh, Maintain, StoreOK
  <2>22. EnvelopesOK'
    BY <1>27, <1>a, <2>2 DEF Refresh, Maintain, EnvelopesOK
  <2>23. WorkerOK' /\ LoopOK'
    BY <1>27, <1>a, <2>2 DEF Refresh, Maintain, WorkerOK, LoopOK
  <2>24. MemoryOK'
    BY <1>27, <1>a, <2>2 DEF Refresh, Maintain, MemoryOK
  <2> QED
    BY <2>20, <2>21, <2>22, <2>23, <2>24
<1>28. CASE Repair
  <2>1. shellCursor \in 0..Len(log)
    BY <1>a DEF StoreOK
  <2>2. ReplayEnd(shellCursor) \in shellCursor..Len(log)
    BY <2>1, ReplayEndRange DEF TypeInv
  <2>3. shellCursor' \in 0..Len(log) /\ summaryAt' \in [Threads -> 0..Len(log)]
    BY <1>28, <1>a, <2>1, <2>2, RefreshedRange DEF Repair, BootstrapShell, TypeInv
  <2>4. model' \in Seq(Nat) /\ modelSeq' \in 0..Len(log)
    BY <1>28, <1>a, <2>1, <2>2, CountingIsNat DEF Repair, LoadModel, Least
  <2>20. FlagsOK'
    BY <1>28, <1>a DEF Repair, FlagsOK, Maintain
  <2>21. StoreOK'
    BY <1>28, <1>a, <2>3, <2>4 DEF Repair, Maintain, StoreOK
  <2>22. EnvelopesOK'
    BY <1>28, <1>a, <2>3, <2>4 DEF Repair, Maintain, EnvelopesOK
  <2>23. WorkerOK' /\ LoopOK'
    BY <1>28, <1>a, <2>3, <2>4 DEF Repair, Maintain, WorkerOK, LoopOK
  <2>24. MemoryOK'
    BY <1>28, <1>a, <2>3, <2>4 DEF Repair, Maintain, MemoryOK
  <2> QED
    BY <2>20, <2>21, <2>22, <2>23, <2>24
<1>29. CASE RepairFails
  <2>1. summaryAt' \in [Threads -> 0..Len(log)]
    BY <1>29, RefreshedRange DEF RepairFails, TypeInv
  <2>20. FlagsOK'
    BY <1>29, <1>a DEF RepairFails, FlagsOK, Maintain
  <2>21. StoreOK'
    BY <1>29, <1>a, <2>1 DEF RepairFails, Maintain, StoreOK
  <2>22. EnvelopesOK'
    BY <1>29, <1>a, <2>1 DEF RepairFails, Maintain, EnvelopesOK
  <2>23. WorkerOK' /\ LoopOK'
    BY <1>29, <1>a, <2>1 DEF RepairFails, Maintain, WorkerOK, LoopOK
  <2>24. MemoryOK'
    BY <1>29, <1>a, <2>1 DEF RepairFails, Maintain, MemoryOK
  <2> QED
    BY <2>20, <2>21, <2>22, <2>23, <2>24
<1>30. CASE Crash
  <2>1. reply' \in [Dispatches -> Reply] /\ queue' \in Seq(Dispatches)
    BY <1>30, <1>a DEF Crash, EnvelopesOK, Told, Reply
  <2>2. published' \in Seq(Nat)
    BY <1>30 DEF Crash
  <2>20. FlagsOK'
    BY <1>30, <1>a DEF Crash, FlagsOK
  <2>21. StoreOK' /\ EnvelopesOK' /\ WorkerOK' /\ MemoryOK' /\ LoopOK'
    BY <1>30, <1>a, <2>1, <2>2, SMTT(30)
    DEF Crash, StoreOK, EnvelopesOK, WorkerOK, MemoryOK, LoopOK
  <2> QED
    BY <2>20, <2>21
<1>31. CASE Boot
  <2>1. shellCursor \in 0..Len(log)
    BY <1>a DEF StoreOK
  <2>2. ReplayEnd(shellCursor) \in shellCursor..Len(log)
    BY <2>1, ReplayEndRange DEF TypeInv
  <2>3. shellCursor' \in 0..Len(log) /\ summaryAt' \in [Threads -> 0..Len(log)]
    BY <1>31, <1>a, <2>1, <2>2, RefreshedRange DEF Boot, BootstrapShell, TypeInv
  <2>4. model' \in Seq(Nat) /\ modelSeq' \in 0..Len(log)
    BY <1>31, <1>a, <2>1, <2>2, CountingIsNat DEF Boot, LoadModel, Least
  <2>20. FlagsOK'
    BY <1>31, <1>a DEF Boot, FlagsOK
  <2>21. StoreOK' /\ EnvelopesOK' /\ WorkerOK' /\ MemoryOK' /\ LoopOK'
    BY <1>31, <1>a, <2>3, <2>4, SMTT(30)
    DEF Boot, StoreOK, EnvelopesOK, WorkerOK, MemoryOK, LoopOK
  <2> QED
    BY <2>20, <2>21
<1>32. CASE UNCHANGED vars
  <2>20. FlagsOK'
    BY <1>32, <1>a DEF vars, FlagsOK
  <2>21. StoreOK' /\ EnvelopesOK' /\ WorkerOK' /\ MemoryOK' /\ LoopOK'
    BY <1>32, <1>a DEF vars, StoreOK, EnvelopesOK, WorkerOK, MemoryOK, LoopOK
  <2> QED
    BY <2>20, <2>21
<1> QED
  BY <1>1, <1>2, <1>3, <1>4, <1>5, <1>6, <1>7, <1>8, <1>9, <1>10, <1>11, <1>12, <1>13, <1>14,
     <1>15, <1>16, <1>17, <1>18, <1>19, <1>20, <1>21, <1>22, <1>23, <1>24, <1>25, <1>26, <1>27,
     <1>28, <1>29, <1>30, <1>31, <1>32
     DEF Next, Caller, Handle, Maintenance

\* The variables of the engine stay in their ranges, for every value of the
\* constants: no cursor, start sequence or loop counter leaves the log.
THEOREM TypeCorrect == Spec => []TypeOK
<1>1. Init => TypeInv
  BY TypeInit
<1>2. TypeInv /\ [Next]_vars => TypeInv'
  BY TypeNext
<1>3. TypeInv => TypeOK
  BY DEF TypeInv
<1> QED
  BY <1>1, <1>2, <1>3, PTL DEF Spec
==============================================================================
