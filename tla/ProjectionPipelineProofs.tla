----------------------- MODULE ProjectionPipelineProofs -----------------------
(***************************************************************************)
(* Proofs about ProjectionPipeline, for every set of projectors and every  *)
(* bound.  What the cursors promise is proved where the reads of a         *)
(* bootstrap reach the end of the log (ReadsReachEnd), which fails         *)
(* otherwise as run pipeline_limit shows, and where the startup after an   *)
(* upgrade is not cut off (~RebuildFails).                                 *)
(***************************************************************************)
EXTENDS ProjectionPipeline, FilteringProofs

LEMMA Constants ==
    /\ Projectors \subseteq Cursors /\ Hot \in Cursors /\ Hot \notin Projectors
    /\ HotProjectors \subseteq Projectors /\ Shell \notin HotProjectors
    /\ Snapshot \subseteq HotProjectors /\ Projects \in Snapshot /\ Added \subseteq HotProjectors
    /\ Len(Order) \in Nat /\ DOMAIN Order = 1..Len(Order)
    /\ \A i \in DOMAIN Order : Order[i] \in Projectors
    /\ \A p \in Projectors : p \in {Order[i] : i \in DOMAIN Order}
    /\ MaxEvents \in Nat /\ ReadLimit \in Nat \ {0}
    /\ \A p \in Projectors : Matches[p] \cap Metadata # {} => p = Projects
<1>1. Len(Order) \in Nat /\ DOMAIN Order = 1..Len(Order)
  BY PipelineConstants, LenProperties
<1> QED
  BY <1>1, PipelineConstants DEF Cursors, HotProjectors, Projectors, Range

LEMMA ShellIsProjector == Shell \in Projectors /\ Shell # Hot
<1>1. Len(Order) \in Nat /\ DOMAIN Order = 1..Len(Order)
  BY Constants
<1>2. Shell \in Projectors
  <2>1. Len(Order) # 0
    BY PipelineConstants, EmptySeq
  <2>2. Shell = Order[Len(Order)]
    BY PipelineConstants DEF Last
  <2> QED
    BY <1>1, <2>1, <2>2 DEF Projectors, Range
<1> QED
  BY <1>2, Constants

------------------------------------------------------------------------------
\* Types

LEMMA SeqWiden == ASSUME NEW A, NEW B, A \subseteq B, NEW s \in Seq(A) PROVE s \in Seq(B)
<1>1. Len(s) \in Nat /\ s \in [1..Len(s) -> B]
  BY LenProperties
<1> QED
  BY <1>1

LEMMA MovedType ==
    ASSUME NEW L \in Nat, cursor \in [Cursors -> Missing..L], NEW who, NEW n \in Missing..L
    PROVE  Moved(who, n) \in [Cursors -> Missing..L]
BY DEF Moved, Larger, Missing

LEMMA AppliedType ==
    ASSUME NEW L \in Nat, rows \in [Projectors -> Seq(1..L)], NEW who, NEW n \in 1..L
    PROVE  Applied(who, n) \in [Projectors -> Seq(1..L)]
<1>1. \A p \in Projectors : Append(rows[p], n) \in Seq(1..L)
  <2> SUFFICES ASSUME NEW p \in Projectors PROVE Append(rows[p], n) \in Seq(1..L)
    OBVIOUS
  <2>1. rows[p] \in Seq(1..L)
    OBVIOUS
  <2> QED
    BY <2>1, AppendProperties
<1> QED
  BY <1>1 DEF Applied

StoreTypes ==
    /\ log \in Seq(Range(log)) /\ Len(log) <= MaxEvents
    /\ \A n \in DOMAIN log : log[n].type \in Types
    /\ cursor \in [Cursors -> Missing..Len(log)]
    /\ rows \in [Projectors -> Seq(1..Len(log))]

BackupTypes ==
    /\ backup.cursor \in [Cursors -> Missing..Len(log)]
    /\ backup.rows \in Seq(1..Len(log))

ControlTypes ==
    /\ mode \in {"down", "running", "startup", "catchUp", "repair"}
    /\ step \in 0..(Len(Order) + 1)
    /\ pos \in Missing..Len(log) /\ end \in Missing..Len(log)
    /\ pending \in 0..Len(log)

FlagTypes ==
    /\ dirty \in BOOLEAN /\ inFlight \in BOOLEAN /\ upgraded \in BOOLEAN
    /\ repairs \in Nat

TypeInv == StoreTypes /\ BackupTypes /\ ControlTypes /\ FlagTypes

LEMMA TypeInit == Init => TypeInv
<1> SUFFICES ASSUME Init PROVE TypeInv
  OBVIOUS
<1>1. Len(log) = 0 /\ \A S : log \in Seq(S)
  BY DEF Init
<1>2. StoreTypes
  <2>1. Len(log) <= MaxEvents
    BY <1>1, Constants
  <2>2. \A n \in DOMAIN log : log[n].type \in Types
    BY DEF Init
  <2>3. rows \in [Projectors -> Seq(1..Len(log))]
    BY <1>1 DEF Init
  <2>4. cursor \in [Cursors -> Missing..Len(log)]
    BY <1>1 DEF Init, Missing
  <2> QED
    BY <1>1, <2>1, <2>2, <2>3, <2>4 DEF StoreTypes
<1>3. BackupTypes
  <2>1. backup.cursor = cursor /\ backup.rows = <<>>
    BY DEF Init
  <2>2. backup.rows \in Seq(1..Len(log))
    BY <2>1
  <2> QED
    BY <1>2, <2>1, <2>2 DEF BackupTypes, StoreTypes
<1>4. ControlTypes
  BY <1>1, Constants DEF Init, ControlTypes, Missing
<1>5. FlagTypes
  BY DEF Init, FlagTypes
<1> QED
  BY <1>2, <1>3, <1>4, <1>5 DEF TypeInv

\* A committed event.
LEMMA CommitTypes ==
    ASSUME TypeInv, NEW t \in Types, Commit(t)
    PROVE  /\ TypeInv'
           /\ Len(log) \in Nat /\ Len(log') = Len(log) + 1
           /\ \A k \in 1..Len(log) : log'[k] = log[k]
           /\ log'[Len(log) + 1].type = t
<1> DEFINE text == IF t = "complete" THEN Text(rows[Messages], log) ELSE <<>>
           e == [type |-> t, text |-> text]
           S == Range(log) \cup {e}
           L == Len(log)
<1> HIDE DEF text
<1>1. log' = Append(log, e) /\ L < MaxEvents
  BY DEF Commit, text
<1>2. e.type = t
  OBVIOUS
<1> HIDE DEF e
<1>3. L \in Nat /\ log \in Seq(S)
  <2>1. log \in Seq(Range(log)) /\ Range(log) \subseteq S
    BY DEF TypeInv, StoreTypes
  <2> QED
    BY <2>1, SeqWiden, LenProperties
<1>4. /\ log' \in Seq(S) /\ Len(log') = L + 1 /\ DOMAIN log = 1..L /\ DOMAIN log' = 1..(L + 1)
      /\ \A k \in 1..L : log'[k] = log[k]
      /\ log'[L + 1] = e
  <2>1. e \in S
    OBVIOUS
  <2> HIDE DEF S
  <2> QED
    BY <1>1, <1>3, <2>1, AppendProperties, LenProperties
<1> HIDE DEF S, L
<1>5. log' \in Seq(Range(log'))
  BY <1>3, <1>4 DEF Range
<1>6. \A n \in DOMAIN log' : log'[n].type \in Types
  <2>1. \A n \in DOMAIN log : log[n].type \in Types
    BY DEF TypeInv, StoreTypes
  <2> QED
    BY <1>2, <1>3, <1>4, <2>1
<1>7. /\ cursor \in [Cursors -> Missing..(L + 1)] /\ rows \in [Projectors -> Seq(1..(L + 1))]
      /\ backup.cursor \in [Cursors -> Missing..(L + 1)] /\ backup.rows \in Seq(1..(L + 1))
  <2>1. 1..L \subseteq 1..(L + 1) /\ Missing..L \subseteq Missing..(L + 1)
    BY <1>3 DEF Missing
  <2>2. /\ cursor \in [Cursors -> Missing..L] /\ rows \in [Projectors -> Seq(1..L)]
        /\ backup.cursor \in [Cursors -> Missing..L] /\ backup.rows \in Seq(1..L)
    BY DEF TypeInv, StoreTypes, BackupTypes, L
  <2>3. Seq(1..L) \subseteq Seq(1..(L + 1))
    BY <2>1, SeqWiden
  <2> QED
    BY <2>1, <2>2, <2>3
<1>8. /\ cursor' \in [Cursors -> Missing..(L + 1)] /\ rows' \in [Projectors -> Seq(1..(L + 1))]
  <2>1. L + 1 \in Nat /\ L + 1 \in Missing..(L + 1) /\ L + 1 \in 1..(L + 1)
    BY <1>3 DEF Missing
  <2>2. PICK who1, who2 : cursor' = Moved(who1, L + 1) /\ rows' = Applied(who2, L + 1)
    BY DEF Commit, L
  <2> QED
    BY <1>7, <2>1, <2>2, MovedType, AppliedType
<1>9. StoreTypes'
  <2>1. Len(log') <= MaxEvents
    BY <1>1, <1>3, <1>4, Constants
  <2> QED
    BY <1>4, <1>5, <1>6, <1>8, <2>1 DEF StoreTypes
<1>10. BackupTypes'
  <2>1. backup' = backup
    BY DEF Commit
  <2> QED
    BY <1>4, <1>7, <2>1 DEF BackupTypes
<1>11. ControlTypes'
  <2>1. ControlTypes /\ mode' = mode /\ step' = step /\ pos' = pos /\ end' = end /\ pending' = L + 1
    BY DEF Commit, TypeInv, reader, L
  <2> QED
    BY <1>3, <1>4, <2>1 DEF ControlTypes, L, Missing
<1>12. FlagTypes'
  <2>1. FlagTypes
    BY DEF TypeInv
  <2>2. dirty' = dirty /\ inFlight' = inFlight /\ upgraded' = upgraded /\ repairs' = repairs
    BY DEF Commit, bounds
  <2> QED
    BY <2>1, <2>2, Zenon DEF FlagTypes
<1>13. TypeInv'
  BY <1>9, <1>10, <1>11, <1>12 DEF TypeInv
<1> QED
  BY <1>2, <1>3, <1>4, <1>13 DEF L

\* Every other step leaves the log alone.
LEMMA StoreUnchanged ==
    ASSUME StoreTypes, log' = log,
           cursor' \in [Cursors -> Missing..Len(log)], rows' \in [Projectors -> Seq(1..Len(log))]
    PROVE  StoreTypes'
BY DEF StoreTypes

\* No step but a commit lengthens what the readers and the steps range over.
LEMMA ControlMoved ==
    ASSUME ControlTypes, log' = log, pending' = pending,
           mode' \in {"down", "running", "startup", "catchUp", "repair"},
           step' \in 0..(Len(Order) + 1),
           pos' \in Missing..Len(log), end' \in Missing..Len(log)
    PROVE  ControlTypes'
BY DEF ControlTypes

LEMMA BeginTypes ==
    ASSUME ControlTypes, log' = log, pending' = pending, Len(log) \in Nat,
           NEW why \in {"down", "running", "startup", "catchUp", "repair"}, Begin(why)
    PROVE  ControlTypes'
<1>1. /\ mode' = why /\ step' = 0 /\ pos' = Missing /\ end' = Missing
  BY DEF Begin
<1>2. 0 \in 0..(Len(Order) + 1) /\ Missing \in Missing..Len(log)
  BY Constants DEF Missing
<1> QED
  BY <1>1, <1>2, ControlMoved

LEMMA TypeNext == TypeInv /\ [Next]_vars => TypeInv'
<1> SUFFICES ASSUME TypeInv, [Next]_vars PROVE TypeInv'
  OBVIOUS
<1>a. StoreTypes /\ BackupTypes /\ ControlTypes /\ FlagTypes
  BY DEF TypeInv
<1>b. /\ Len(log) \in Nat
      /\ cursor \in [Cursors -> Missing..Len(log)] /\ rows \in [Projectors -> Seq(1..Len(log))]
  <2>1. log \in Seq(Range(log))
    BY <1>a DEF StoreTypes
  <2> QED
    BY <1>a, <2>1, LenProperties DEF StoreTypes
<1>c. SUFFICES StoreTypes' /\ BackupTypes' /\ ControlTypes' /\ FlagTypes'
  BY DEF TypeInv
<1> USE DEF reader, store, bounds, control
<1>1. ASSUME NEW t \in Types, Commit(t)
      PROVE  StoreTypes' /\ BackupTypes' /\ ControlTypes' /\ FlagTypes'
  BY <1>1, CommitTypes DEF TypeInv
<1>2. CASE ProjectDeferred
  <2>1. pending \in 1..Len(log) /\ pending \in Missing..Len(log)
    BY <1>2, <1>a, <1>b DEF ProjectDeferred, ControlTypes, Missing
  <2>2. PICK who : rows' = Applied(who, pending)
    BY <1>2 DEF ProjectDeferred
  <2>3. rows' \in [Projectors -> Seq(1..Len(log))]
    BY <1>b, <2>1, <2>2, AppliedType
  <2>4. cursor' \in [Cursors -> Missing..Len(log)]
    BY <1>2, <1>b, <2>1, MovedType DEF ProjectDeferred
  <2>5. log' = log /\ backup' = backup
    BY <1>2 DEF ProjectDeferred
  <2>6. StoreTypes'
    BY <1>a, <2>3, <2>4, <2>5, StoreUnchanged
  <2>7. BackupTypes' /\ ControlTypes'
    BY <1>2, <1>a, <1>b, <2>5 DEF ProjectDeferred, BackupTypes, ControlTypes
  <2>8. FlagTypes'
    BY <1>2, <1>a, Zenon DEF ProjectDeferred, FlagTypes
  <2> QED
    BY <2>6, <2>7, <2>8
<1>3. CASE SkipDeferred
  <2>1. StoreTypes' /\ BackupTypes' /\ ControlTypes'
    BY <1>3, <1>a, <1>b DEF SkipDeferred, StoreTypes, BackupTypes, ControlTypes
  <2>2. dirty' = TRUE /\ inFlight' = TRUE /\ upgraded' = upgraded /\ repairs' = repairs
    BY <1>3 DEF SkipDeferred
  <2>3. FlagTypes'
    BY <1>a, <2>2, Zenon DEF FlagTypes
  <2> QED
    BY <2>1, <2>3
<1>4. CASE Interrupt
  <2>1. StoreTypes' /\ BackupTypes' /\ ControlTypes'
    BY <1>4, <1>a, <1>b DEF Interrupt, StoreTypes, BackupTypes, ControlTypes
  <2>2. FlagTypes'
    BY <1>4, <1>a, Zenon DEF Interrupt, FlagTypes
  <2> QED
    BY <2>1, <2>2
<1>5. CASE Boot
  <2>1. UNCHANGED <<log, cursor, rows, backup, pending>>
    BY <1>5 DEF Boot
  <2>2. StoreTypes' /\ BackupTypes'
    BY <1>a, <2>1 DEF StoreTypes, BackupTypes
  <2>3. Begin("startup")
    BY <1>5 DEF Boot
  <2>4. ControlTypes'
    BY <1>a, <1>b, <2>1, <2>3, BeginTypes
  <2>5. FlagTypes'
    BY <1>5, <1>a, Zenon DEF Boot, FlagTypes
  <2> QED
    BY <2>2, <2>4, <2>5
<1>6. CASE CatchUp
  <2>1. UNCHANGED <<log, cursor, rows, backup, pending>>
    BY <1>6 DEF CatchUp
  <2>2. StoreTypes' /\ BackupTypes'
    BY <1>a, <2>1 DEF StoreTypes, BackupTypes
  <2>3. Begin("catchUp")
    BY <1>6 DEF CatchUp
  <2>4. ControlTypes'
    BY <1>a, <1>b, <2>1, <2>3, BeginTypes
  <2>5. FlagTypes'
    BY <1>6, <1>a, Zenon DEF CatchUp, FlagTypes
  <2> QED
    BY <2>2, <2>4, <2>5
<1>7. CASE Repair
  <2>1. log' = log /\ Projects \in Projectors
    BY <1>7, Constants DEF Repair
  <2>2. rows' \in [Projectors -> Seq(1..Len(log))]
    <3>1. <<>> \in Seq(1..Len(log))
      OBVIOUS
    <3> QED
      BY <1>7, <1>b, <3>1 DEF Repair
  <2>3. cursor' \in [Cursors -> Missing..Len(log)]
    BY <1>7, <1>b DEF Repair, Missing
  <2>4. StoreTypes'
    BY <1>a, <2>1, <2>2, <2>3, StoreUnchanged
  <2>5. BackupTypes'
    <3>1. backup'.cursor = cursor /\ backup'.rows = rows[Projects]
      BY <1>7 DEF Repair
    <3>2. rows[Projects] \in Seq(1..Len(log))
      BY <1>b, <2>1
    <3> QED
      BY <1>b, <2>1, <3>1, <3>2 DEF BackupTypes
  <2>6. ControlTypes'
    BY <1>7, <1>a, <1>b, <2>1, Constants DEF Repair, Begin, Missing, ControlTypes
  <2>7. repairs' \in Nat
    BY <1>7, <1>a DEF Repair, FlagTypes
  <2>8. dirty' = dirty /\ inFlight' = inFlight /\ upgraded' = upgraded
    BY <1>7 DEF Repair
  <2>9. FlagTypes'
    BY <1>a, <2>7, <2>8, Zenon DEF FlagTypes
  <2> QED
    BY <2>4, <2>5, <2>6, <2>9
<1>8. CASE FastForward
  <2>1. log' = log /\ rows' = rows /\ backup' = backup
    BY <1>8 DEF FastForward
  <2>2. cursor[Hot] \in Missing..Len(log)
    BY <1>b, Constants
  <2>3. cursor' \in [Cursors -> Missing..Len(log)]
    BY <1>8, <1>b, <2>2, MovedType DEF FastForward
  <2>4. StoreTypes'
    BY <1>a, <1>b, <2>1, <2>3, StoreUnchanged
  <2>5. BackupTypes' /\ ControlTypes'
    BY <1>8, <1>a, <1>b, <2>1, Constants DEF FastForward, BackupTypes, ControlTypes
  <2>6. FlagTypes'
    BY <1>8, <1>a, Zenon DEF FastForward, FlagTypes
  <2> QED
    BY <2>4, <2>5, <2>6
<1>9. CASE Open
  <2>1. log' = log /\ rows' = rows /\ backup' = backup /\ cursor' = cursor
    BY <1>9 DEF Open
  <2>2. cursor[Order[step]] \in Missing..Len(log)
    BY <1>9, <1>b, Constants DEF Open
  <2>3. pos' \in Missing..Len(log) /\ end' \in Missing..Len(log)
    <3>1. Larger(cursor[Order[step]], 0) \in 0..Len(log)
      BY <1>b, <2>2 DEF Larger, Missing
    <3>2. pos' \in 0..Len(log) /\ end' \in {pos' + ReadLimit, Len(log)}
          /\ (end' = pos' + ReadLimit => end' <= Len(log))
      BY <1>9, <1>b, <3>1, Constants DEF Open
    <3> QED
      BY <1>b, <3>2, Constants DEF Missing
  <2>4. StoreTypes' /\ BackupTypes'
    BY <1>a, <2>1 DEF StoreTypes, BackupTypes
  <2>5. ControlTypes'
    BY <1>9, <1>a, <1>b, <2>1, <2>3 DEF Open, ControlTypes
  <2>6. FlagTypes'
    BY <1>9, <1>a, Zenon DEF Open, FlagTypes
  <2> QED
    BY <2>4, <2>5, <2>6
<1>10. CASE Replay
  <2>1. log' = log /\ backup' = backup
    BY <1>10 DEF Replay
  <2>2. PICK n \in (pos + 1)..end :
            rows' = Applied({Order[step]}, n) /\ cursor' = Moved({Order[step]}, n) /\ pos' = n
    BY <1>10, Zenon DEF Replay
  <2>3. n \in 1..Len(log) /\ n \in Missing..Len(log)
    BY <1>10, <1>a, <1>b DEF Replay, NoReader, ControlTypes, Missing
  <2>4. StoreTypes'
    BY <1>a, <1>b, <2>1, <2>2, <2>3, MovedType, AppliedType, StoreUnchanged
  <2>5. BackupTypes' /\ ControlTypes'
    BY <1>10, <1>a, <1>b, <2>1, <2>2, <2>3 DEF Replay, BackupTypes, ControlTypes
  <2>6. FlagTypes'
    BY <1>10, <1>a, Zenon DEF Replay, FlagTypes
  <2> QED
    BY <2>4, <2>5, <2>6
<1>11. CASE Close
  <2>1. log' = log /\ rows' = rows /\ backup' = backup
    BY <1>11 DEF Close
  <2>2. end \in Missing..Len(log)
    BY <1>a DEF ControlTypes
  <2>3. cursor' \in [Cursors -> Missing..Len(log)]
    BY <1>11, <1>b, <2>2, MovedType DEF Close
  <2>4. StoreTypes'
    BY <1>a, <1>b, <2>1, <2>3, StoreUnchanged
  <2>5. BackupTypes'
    BY <1>a, <2>1 DEF BackupTypes
  <2>6. ControlTypes'
    <3>1. /\ mode' = mode /\ step \in 1..Len(Order) /\ step' = step + 1
          /\ pos' = Missing /\ end' = Missing /\ pending' = pending
      BY <1>11, Constants DEF Close
    <3>2. step + 1 \in 0..(Len(Order) + 1) /\ Missing \in Missing..Len(log)
      BY <1>b, <3>1, Constants DEF Missing
    <3>3. mode \in {"down", "running", "startup", "catchUp", "repair"}
      BY <1>a DEF ControlTypes
    <3> QED
      BY <1>a, <2>1, <3>1, <3>2, <3>3, ControlMoved
  <2>7. FlagTypes'
    BY <1>11, <1>a, Zenon DEF Close, FlagTypes
  <2> QED
    BY <2>4, <2>5, <2>6, <2>7
<1>12. CASE Finish
  <2>1. log' = log /\ rows' = rows /\ backup' = backup
    BY <1>12 DEF Finish
  <2>2. cursor' \in [Cursors -> Missing..Len(log)]
    <3>1. CASE UNCHANGED cursor
      BY <1>b, <3>1
    <3>2. CASE \E p \in HotProjectors : cursor' = Moved({Hot}, cursor[p])
      <4>1. PICK p \in HotProjectors : cursor' = Moved({Hot}, cursor[p])
        BY <3>2
      <4>2. cursor[p] \in Missing..Len(log)
        BY <1>b, Constants
      <4> QED
        BY <1>b, <4>1, <4>2, MovedType
    <3> QED
      BY <1>12, <3>1, <3>2 DEF Finish
  <2>3. StoreTypes'
    BY <1>a, <1>b, <2>1, <2>2, StoreUnchanged
  <2>4. BackupTypes' /\ ControlTypes'
    BY <1>12, <1>a, <1>b, <2>1, Constants DEF Finish, BackupTypes, ControlTypes
  <2>5. dirty' \in BOOLEAN /\ inFlight' \in BOOLEAN /\ repairs' = repairs
    BY <1>12, <1>a, Zenon DEF Finish, FlagTypes
  <2>6. upgraded' = FALSE
    BY <1>12, Zenon DEF Finish
  <2>7. upgraded' \in BOOLEAN
    BY <2>6, Zenon
  <2>8. FlagTypes'
    BY <1>a, <2>5, <2>7, Zenon DEF FlagTypes
  <2> QED
    BY <2>3, <2>4, <2>8
<1>13. CASE BootstrapFails
  <2>1. log' = log /\ backup' = backup
    BY <1>13 DEF BootstrapFails
  <2>2. cursor' \in [Cursors -> Missing..Len(log)] /\ rows' \in [Projectors -> Seq(1..Len(log))]
    BY <1>13, <1>a, <1>b DEF BootstrapFails, BackupTypes
  <2>3. StoreTypes'
    BY <1>a, <2>1, <2>2, StoreUnchanged
  <2>4. BackupTypes' /\ ControlTypes'
    <3>1. /\ mode' \in {"down", "running"} /\ step' = 0
          /\ pos' = Missing /\ end' = Missing /\ pending' = pending
      BY <1>13 DEF BootstrapFails
    <3>2. 0 \in 0..(Len(Order) + 1) /\ Missing \in Missing..Len(log)
      BY <1>b, Constants DEF Missing
    <3>3. BackupTypes'
      BY <1>a, <2>1 DEF BackupTypes
    <3>4. ControlTypes'
      BY <1>a, <2>1, <3>1, <3>2, ControlMoved
    <3> QED
      BY <3>3, <3>4
  <2>5. inFlight' \in BOOLEAN
    BY <1>13, <1>a, Zenon DEF BootstrapFails, FlagTypes
  <2>6. FlagTypes'
    BY <1>13, <1>a, <2>5, Zenon DEF BootstrapFails, FlagTypes
  <2> QED
    BY <2>3, <2>4, <2>6
<1>14. CASE Crash
  <2>a. StoreTypes' /\ BackupTypes'
    BY <1>14, <1>a DEF Crash, StoreTypes, BackupTypes
  <2>b. log' = log /\ mode' = "down" /\ step' = 0 /\ pos' = Missing /\ end' = Missing /\ pending' = 0
    BY <1>14 DEF Crash
  <2>c. ControlTypes'
    BY <1>b, <2>b, Constants DEF ControlTypes, Missing
  <2>1. StoreTypes' /\ BackupTypes' /\ ControlTypes'
    BY <2>a, <2>c
  <2>2. dirty' = FALSE /\ inFlight' = FALSE
    BY <1>14, Zenon DEF Crash
  <2>3. dirty' \in BOOLEAN /\ inFlight' \in BOOLEAN
    BY <2>2, Zenon
  <2>4. upgraded' = upgraded /\ repairs' = repairs
    BY <1>14 DEF Crash
  <2>5. FlagTypes'
    BY <1>a, <2>3, <2>4, Zenon DEF FlagTypes
  <2> QED
    BY <2>1, <2>5
<1>15. ASSUME NEW p \in Added, Upgrade(p)
       PROVE  StoreTypes' /\ BackupTypes' /\ ControlTypes' /\ FlagTypes'
  <2>1. log' = log /\ backup' = backup /\ p \in Projectors /\ p \in Cursors
    BY <1>15, Constants DEF Upgrade
  <2>2. rows' \in [Projectors -> Seq(1..Len(log))]
    <3>1. <<>> \in Seq(1..Len(log))
      OBVIOUS
    <3> QED
      BY <1>15, <1>b, <3>1 DEF Upgrade
  <2>3. cursor' \in [Cursors -> Missing..Len(log)]
    <3>1. cursor' = [cursor EXCEPT ![p] = Missing] /\ Missing \in Missing..Len(log)
      BY <1>15, <1>b DEF Upgrade, Missing
    <3> QED
      BY <1>b, <3>1
  <2>4. StoreTypes'
    BY <1>a, <2>1, <2>2, <2>3, StoreUnchanged
  <2>5. BackupTypes' /\ ControlTypes'
    BY <1>15, <1>a, <2>1 DEF Upgrade, BackupTypes, ControlTypes
  <2>6. upgraded' = TRUE
    BY <1>15, Zenon DEF Upgrade
  <2>7. upgraded' \in BOOLEAN
    BY <2>6, Zenon
  <2>8. dirty' = dirty /\ inFlight' = inFlight /\ repairs' = repairs
    BY <1>15 DEF Upgrade
  <2>9. FlagTypes'
    BY <1>a, <2>7, <2>8, Zenon DEF FlagTypes
  <2> QED
    BY <2>4, <2>5, <2>9
<1>16. CASE UNCHANGED vars
  <2>1. StoreTypes' /\ BackupTypes' /\ ControlTypes'
    BY <1>16, <1>a DEF vars, StoreTypes, BackupTypes, ControlTypes
  <2>2. FlagTypes'
    BY <1>16, <1>a, Zenon DEF vars, FlagTypes
  <2> QED
    BY <2>1, <2>2
<1> QED
  BY <1>1, <1>2, <1>3, <1>4, <1>5, <1>6, <1>7, <1>8, <1>9, <1>10, <1>11, <1>12, <1>13, <1>14,
     <1>15, <1>16 DEF Next, Bootstrap

\* The cursors, rows and readers of the pipeline stay in their ranges.
THEOREM PipelineTypeCorrect == Spec => []TypeOK
<1>1. TypeInv => TypeOK
  <2> SUFFICES ASSUME TypeInv PROVE TypeOK
    OBVIOUS
  <2>1. StoreTypes /\ ControlTypes /\ FlagTypes
    BY DEF TypeInv
  <2>2. \A p \in Projectors : Range(rows[p]) \subseteq 1..Len(log)
    <3> SUFFICES ASSUME NEW p \in Projectors PROVE Range(rows[p]) \subseteq 1..Len(log)
      OBVIOUS
    <3>1. rows[p] \in Seq(1..Len(log))
      BY <2>1 DEF StoreTypes
    <3> QED
      BY <3>1, LenProperties DEF Range
  <2>3. {dirty, inFlight, upgraded} \subseteq BOOLEAN
    BY <2>1, Zenon DEF FlagTypes
  <2>4. DOMAIN cursor = Cursors /\ \A p \in Cursors : cursor[p] \in Missing..Len(log)
    BY <2>1 DEF StoreTypes
  <2> QED
    BY <2>1, <2>2, <2>3, <2>4 DEF TypeOK, StoreTypes, ControlTypes
<1> QED
  BY <1>1, TypeInit, TypeNext, PTL DEF Spec

------------------------------------------------------------------------------
\* The cursors

\* What the theorems below assume of a run: a projector that a bootstrap opens is at
\* most one read behind the log.
ReadsReachEnd ==
    Bootstrapping /\ step \in DOMAIN Order /\ NoReader
        => Len(log) <= Larger(cursor[Order[step]], 0) + ReadLimit

\* The events of the log that each hot projector accepts.
acc == [p \in HotProjectors |-> {k \in 1..Len(log) : Accepts(p, k)}]

\* Where a bootstrap is: the projectors before step are at the end of the log, and
\* the reader stands at the cursor of the one at step.
Progress ==
    /\ mode \in {"down", "running"} => step = 0
    /\ \A i \in DOMAIN Order : i < step => Larger(cursor[Order[i]], 0) = Len(log)
    /\ pos # Missing => /\ Bootstrapping /\ step \in DOMAIN Order
                        /\ pos = Larger(cursor[Order[step]], 0)
                        /\ end = Len(log)
    /\ upgraded => mode \in {"down", "startup"}
    /\ mode = "repair" => cursor[Hot] = Missing /\ repairs # 0

\* The rows of a projector that no repair may apply twice hold what its cursor says.
Exact ==
    \A p \in HotProjectors : repairs = 0 \/ p \notin Snapshot \ {Projects} =>
        rows[p] = Filtered(UpTo(Larger(cursor[p], 0)), acc[p])

Honest == \A p \in HotProjectors : \A n \in acc[p] : n <= cursor[p] => n \in Range(rows[p])

\* A cursor that lags lags behind events its projector rejects.
Behind ==
    \A p \in HotProjectors :
        (mode \in {"running", "catchUp"} \/ (mode = "repair" /\ p \notin Snapshot))
        => \A n \in acc[p] : n <= cursor[p]

\* So it may be moved to Hot; after an upgrade only one that has a row, before any
\* projector is rebuilt.
HotHonest ==
    \A p \in HotProjectors : (~upgraded \/ (step = 0 /\ cursor[p] # Missing)) =>
        \A n \in acc[p] : n <= cursor[Hot] => n <= cursor[p]

\* What a repair that fails puts back is what commands ran with.
BackupGood ==
    mode = "repair" =>
        /\ \A p \in HotProjectors : \A n \in acc[p] : n <= backup.cursor[p]
        /\ \A p \in HotProjectors \ {Projects} : \A n \in acc[p] : n \in Range(rows[p])
        /\ backup.rows = Filtered(UpTo(Len(log)), acc[Projects])

CursorInv == Progress /\ Exact /\ Honest /\ Behind /\ HotHonest /\ BackupGood

------------------------------------------------------------------------------
\* Lemmas

LEMMA Facts ==
    ASSUME TypeInv
    PROVE  /\ Len(log) \in Nat
           /\ \A p \in Cursors : cursor[p] \in Missing..Len(log)
           /\ \A p \in Projectors : rows[p] \in Seq(1..Len(log)) /\ rows[p] \in Seq(Nat)
           /\ \A p \in HotProjectors : acc[p] \in SUBSET (1..Len(log)) /\ acc[p] \in SUBSET Nat
           /\ step \in Nat
<1>1. Len(log) \in Nat
  <2>1. log \in Seq(Range(log))
    BY DEF TypeInv, StoreTypes
  <2> QED
    BY <2>1, LenProperties
<1>2. \A p \in Cursors : cursor[p] \in Missing..Len(log)
  BY DEF TypeInv, StoreTypes
<1>3. \A p \in Projectors : rows[p] \in Seq(1..Len(log)) /\ rows[p] \in Seq(Nat)
  <2>1. 1..Len(log) \subseteq Nat
    OBVIOUS
  <2>2. Seq(1..Len(log)) \subseteq Seq(Nat)
    BY <2>1, SeqWiden
  <2> QED
    BY <2>2 DEF TypeInv, StoreTypes
<1>4. \A p \in HotProjectors : acc[p] \in SUBSET (1..Len(log)) /\ acc[p] \in SUBSET Nat
  BY DEF acc
<1>5. step \in Nat
  BY Constants DEF TypeInv, ControlTypes
<1> QED
  BY <1>1, <1>2, <1>3, <1>4, <1>5

\* Cursors that move past rejected events only, while the rows stay.
LEMMA CursorsSkip ==
    ASSUME TypeInv, Exact, Honest, log' = log, repairs' = repairs, TypeInv',
           \A p \in HotProjectors :
                /\ rows'[p] = rows[p]
                /\ cursor[p] <= cursor'[p]
                /\ \A n \in acc[p] : n <= cursor'[p] => n <= cursor[p]
    PROVE  acc' = acc /\ Exact' /\ Honest'
<1>1. acc' = acc
  BY DEF acc, Accepts
<1>2. Exact'
  <2> SUFFICES ASSUME NEW p \in HotProjectors, repairs = 0 \/ p \notin Snapshot \ {Projects}
               PROVE  rows'[p] = Filtered(UpTo(Larger(cursor'[p], 0)), acc[p])
    BY <1>1 DEF Exact
  <2>1. rows[p] = Filtered(UpTo(Larger(cursor[p], 0)), acc[p])
    BY DEF Exact
  <2>2. cursor[p] \in Int /\ cursor'[p] \in Int /\ acc[p] \in SUBSET Nat
    <3>1. cursor[p] \in Missing..Len(log) /\ acc[p] \in SUBSET Nat
      BY Facts, Constants
    <3>2. cursor'[p] \in Missing..Len(log)
      BY Constants DEF TypeInv, StoreTypes
    <3> QED
      BY <3>1, <3>2 DEF Missing
  <2> DEFINE m == Larger(cursor[p], 0)
             n == Larger(cursor'[p], 0)
  <2>3. m \in Nat /\ n \in Nat /\ m <= n
    BY <2>2 DEF Larger
  <2>4. \A k \in acc[p] : k <= n => k <= m
    <3> SUFFICES ASSUME NEW k \in acc[p], k <= n PROVE k <= m
      OBVIOUS
    <3>1. k \in Nat /\ (k <= cursor'[p] => k <= cursor[p])
      BY <2>2
    <3> QED
      BY <2>2, <3>1 DEF Larger
  <2> HIDE DEF m, n
  <2>5. Filtered(UpTo(n), acc[p]) = Filtered(UpTo(m), acc[p])
    BY <2>2, <2>3, <2>4, FilteredUpToSkip
  <2> QED
    BY <2>1, <2>5 DEF m, n
<1>3. Honest'
  BY <1>1 DEF Honest
<1> QED
  BY <1>1, <1>2, <1>3

\* Moved and Applied at one projector.
LEMMA MovedAt ==
    ASSUME NEW who, NEW n, NEW p \in Cursors
    PROVE  Moved(who, n)[p] = IF p \in who THEN Larger(cursor[p], n) ELSE cursor[p]
BY DEF Moved

LEMMA AppliedAt ==
    ASSUME NEW who, NEW n, NEW p \in Projectors
    PROVE  Applied(who, n)[p] = IF p \in who THEN Append(rows[p], n) ELSE rows[p]
BY DEF Applied

LEMMA NothingYet == ASSUME NEW S PROVE Filtered(UpTo(0), S) = <<>>
<1>1. UpTo(0) = <<>>
  BY DEF UpTo
<1> QED
  BY <1>1, FilteredEmpty

LEMMA AppendChanges == ASSUME NEW A, NEW s \in Seq(A), NEW x \in A PROVE Append(s, x) # s
<1>1. Len(Append(s, x)) = Len(s) + 1 /\ Len(s) \in Nat
  BY AppendRange, LenProperties
<1>2. Len(Append(s, x)) # Len(s)
  BY <1>1
<1> QED
  BY <1>2

LEMMA CursorInit == Init => CursorInv
<1> SUFFICES ASSUME Init PROVE CursorInv
  OBVIOUS
<1>1. /\ Len(log) = 0 /\ \A p \in Cursors : cursor[p] = -1
      /\ \A p \in Projectors : rows[p] = <<>>
  BY DEF Init, Missing
<1>2. \A p \in HotProjectors : acc[p] = {}
  BY <1>1 DEF acc
<1>3. Progress
  BY DEF Init, Progress
<1>4. Exact
  <2>1. \A p \in HotProjectors : Larger(cursor[p], 0) = 0 /\ rows[p] = <<>>
    BY <1>1, Constants DEF Larger
  <2>2. \A S : Filtered(UpTo(0), S) = <<>>
    <3>1. UpTo(0) = <<>>
      BY DEF UpTo
    <3> QED
      BY <3>1, FilteredEmpty
  <2> QED
    BY <2>1, <2>2 DEF Exact
<1> QED
  BY <1>2, <1>3, <1>4 DEF Init, CursorInv, Honest, Behind, HotHonest, BackupGood

------------------------------------------------------------------------------
\* The steps

\* A hot cursor whose rows stay moves past rejected events only; the end of a repair
\* aside, which may put back the cursors it deleted.
OnlyRejected ==
    \A p \in HotProjectors :
        rows'[p] = rows[p] /\ ~(mode = "repair" /\ mode' = "running") =>
            \A n \in acc'[p] : n <= cursor'[p] => n <= cursor[p]

\* The steps that do not touch the rows of a hot projector.
LEMMA Skips ==
    ASSUME TypeInv, TypeInv', CursorInv, Progress',
           log' = log, repairs' = repairs, backup' = backup, upgraded' = upgraded,
           cursor'[Hot] = cursor[Hot],
           mode' \in {"running", "catchUp"} => mode \in {"running", "catchUp"},
           mode' = "repair" => mode = "repair",
           upgraded /\ step' = 0 => /\ step = 0
                                    /\ \A p \in HotProjectors : cursor'[p] = cursor[p],
           \A p \in HotProjectors :
                /\ rows'[p] = rows[p]
                /\ cursor[p] <= cursor'[p]
                /\ \A n \in acc[p] : n <= cursor'[p] => n <= cursor[p]
    PROVE  CursorInv' /\ OnlyRejected
<1>a. Exact /\ Honest /\ Behind /\ HotHonest /\ BackupGood
  BY DEF CursorInv
<1>1. acc' = acc /\ Exact' /\ Honest'
  BY <1>a, CursorsSkip
<1>2. \A p \in HotProjectors : \A n \in acc[p] : n <= cursor[p] => n <= cursor'[p]
  <2> SUFFICES ASSUME NEW p \in HotProjectors, NEW n \in acc[p], n <= cursor[p]
               PROVE  n <= cursor'[p]
    OBVIOUS
  <2>1. n \in Nat /\ cursor[p] \in Missing..Len(log) /\ cursor'[p] \in Missing..Len(log)
    <3>1. cursor'[p] \in Missing..Len(log)
      BY Constants DEF TypeInv, StoreTypes
    <3> QED
      BY <3>1, Facts, Constants
  <2>2. cursor[p] <= cursor'[p]
    OBVIOUS
  <2> QED
    BY <2>1, <2>2 DEF Missing
<1>3. Behind'
  BY <1>a, <1>1, <1>2 DEF Behind
<1>4. HotHonest'
  <2> SUFFICES ASSUME NEW p \in HotProjectors,
                      ~upgraded \/ (step' = 0 /\ cursor'[p] # Missing),
                      NEW n \in acc[p], n <= cursor[Hot]
               PROVE  n <= cursor'[p]
    BY <1>1 DEF HotHonest
  <2>1. ~upgraded \/ (step = 0 /\ cursor[p] # Missing)
    OBVIOUS
  <2> QED
    BY <1>a, <1>2, <2>1 DEF HotHonest
<1>5. BackupGood'
  BY <1>a, <1>1, Constants DEF BackupGood
<1>6. OnlyRejected
  BY <1>1 DEF OnlyRejected
<1> QED
  BY <1>1, <1>3, <1>4, <1>5, <1>6 DEF CursorInv

\* Steps that do not touch the store at all.
LEMMA Quiet ==
    ASSUME TypeInv, TypeInv', CursorInv, Progress', UNCHANGED <<store, backup, upgraded, repairs>>,
           mode' \in {"running", "catchUp"} => mode \in {"running", "catchUp"},
           mode' = "repair" => mode = "repair",
           upgraded /\ step' = 0 => step = 0
    PROVE  CursorInv' /\ OnlyRejected
<1>1. \A p \in HotProjectors : cursor[p] <= cursor[p]
  <2> SUFFICES ASSUME NEW p \in HotProjectors PROVE cursor[p] <= cursor[p]
    OBVIOUS
  <2>1. cursor[p] \in Missing..Len(log)
    BY Facts, Constants
  <2> QED
    BY <2>1 DEF Missing
<1>2. log' = log /\ cursor' = cursor /\ rows' = rows /\ backup' = backup /\ upgraded' = upgraded
      /\ repairs' = repairs
  BY DEF store
<1> QED
  BY <1>1, <1>2, Skips

LEMMA QuietSteps ==
    ASSUME TypeInv, TypeInv', CursorInv, ~RebuildFails,
           SkipDeferred \/ Interrupt \/ Boot \/ CatchUp \/ Crash \/ UNCHANGED vars
           \/ (BootstrapFails /\ mode # "repair")
    PROVE  CursorInv' /\ OnlyRejected
<1> USE DEF reader, control, bounds
<1>a. Progress
  BY DEF CursorInv
<1>b. \A i \in DOMAIN Order : i > 0 /\ ~(i < 0)
  BY Constants
<1>1. CASE SkipDeferred
  <2>1. Progress'
    BY <1>1, <1>a DEF SkipDeferred, Progress, store, Bootstrapping
  <2> QED
    BY <1>1, <2>1, Quiet DEF SkipDeferred
<1>2. CASE Interrupt
  <2>1. Progress'
    BY <1>2, <1>a DEF Interrupt, Progress, store, Bootstrapping
  <2> QED
    BY <1>2, <2>1, Quiet DEF Interrupt
<1>3. CASE Boot
  <2>1. Progress'
    BY <1>3, <1>a, <1>b DEF Boot, Begin, Progress, store
  <2>2. mode' = "startup" /\ step = 0
    BY <1>3, <1>a DEF Boot, Begin, Progress
  <2> QED
    BY <1>3, <2>1, <2>2, Quiet DEF Boot
<1>4. CASE CatchUp
  <2>1. Progress'
    BY <1>4, <1>a, <1>b DEF CatchUp, Begin, Progress, store
  <2>2. mode = "running" /\ mode' = "catchUp" /\ step = 0
    BY <1>4, <1>a DEF CatchUp, Begin, Progress
  <2> QED
    BY <1>4, <2>1, <2>2, Quiet DEF CatchUp
<1>5. CASE Crash
  <2>0. step' = 0 /\ pos' = Missing /\ mode' = "down"
    BY <1>5 DEF Crash
  <2>1. Progress'
    BY <1>b, <2>0 DEF Progress
  <2>2. mode' = "down" /\ ~upgraded
    BY <1>5 DEF Crash
  <2> QED
    BY <1>5, <2>1, <2>2, Quiet DEF Crash
<1>6. CASE UNCHANGED vars
  <2>1. Progress'
    BY <1>6, <1>a DEF vars, Progress, store, Bootstrapping
  <2> QED
    BY <1>6, <2>1, Quiet DEF vars
<1>7. CASE BootstrapFails /\ mode # "repair"
  <2>0. step' = 0 /\ pos' = Missing /\ mode' \in {"down", "running"} /\ ~upgraded'
    BY <1>7 DEF BootstrapFails
  <2>1. Progress'
    BY <1>b, <2>0 DEF Progress
  <2>2. ~upgraded /\ mode' = (IF mode = "startup" THEN "down" ELSE "running")
        /\ mode \in {"startup", "catchUp"}
    BY <1>7 DEF BootstrapFails, Bootstrapping
  <2>3. UNCHANGED <<store, backup, upgraded, repairs>>
    BY <1>7 DEF BootstrapFails, store
  <2> QED
    BY <2>1, <2>2, <2>3, Quiet
<1> QED
  BY <1>1, <1>2, <1>3, <1>4, <1>5, <1>6, <1>7

\* Only the cursor and the rows of the deferred projector move.
LEMMA ShellMoves ==
    ASSUME TypeInv, TypeInv', CursorInv, Progress', UNCHANGED <<log, backup, upgraded, repairs>>,
           NEW n, NEW m, cursor' = Moved({Shell}, n),
           rows' = Applied({Shell}, m) \/ rows' = Applied({}, m) \/ rows' = rows,
           mode' = mode, step' = step
    PROVE  CursorInv' /\ OnlyRejected
<1>1. \A p \in Cursors : p # Shell => cursor'[p] = cursor[p]
  BY MovedAt
<1>2. \A p \in Projectors : p # Shell => rows'[p] = rows[p]
  BY AppliedAt
<1>3. \A p \in HotProjectors : /\ cursor'[p] = cursor[p] /\ rows'[p] = rows[p]
                               /\ cursor[p] <= cursor'[p]
  <2> SUFFICES ASSUME NEW p \in HotProjectors
               PROVE  /\ cursor'[p] = cursor[p] /\ rows'[p] = rows[p]
                      /\ cursor[p] <= cursor'[p]
    OBVIOUS
  <2>1. cursor[p] \in Missing..Len(log) /\ p \in Projectors /\ p \in Cursors /\ p # Shell
    BY Facts, Constants
  <2>2. cursor'[p] = cursor[p] /\ rows'[p] = rows[p]
    BY <1>1, <1>2, <2>1
  <2> QED
    BY <2>1, <2>2 DEF Missing
<1>4. cursor'[Hot] = cursor[Hot]
  BY <1>1, Constants, ShellIsProjector
<1> QED
  BY <1>3, <1>4, Skips

LEMMA ProjectDeferredStep ==
    ASSUME TypeInv, TypeInv', CursorInv, ProjectDeferred
    PROVE  CursorInv' /\ OnlyRejected
<1> USE DEF reader, control, bounds
<1>a. Progress
  BY DEF CursorInv
<1>1. Progress'
  <2>1. step' = step /\ pos' = pos /\ mode' = mode /\ upgraded' = upgraded /\ mode = "running"
    BY DEF ProjectDeferred
  <2>2. \A i \in DOMAIN Order : ~(i < step)
    BY <1>a, <2>1, Constants DEF Progress
  <2> QED
    BY <1>a, <2>1, <2>2 DEF Progress, Bootstrapping
<1>2. rows' = Applied({Shell}, pending) \/ rows' = Applied({}, pending)
  BY DEF ProjectDeferred
<1> QED
  BY <1>1, <1>2, ShellMoves DEF ProjectDeferred

\* Cursors that grow stay at the end of the log.
LEMMA StaysAtEnd ==
    ASSUME TypeInv, TypeInv', log' = log, NEW p \in Cursors, cursor[p] <= cursor'[p],
           Larger(cursor[p], 0) = Len(log)
    PROVE  Larger(cursor'[p], 0) = Len(log)
<1>1. cursor[p] \in Missing..Len(log) /\ Len(log) \in Nat
  BY Facts
<1>2. cursor'[p] \in Missing..Len(log)
  BY DEF TypeInv, StoreTypes
<1> QED
  BY <1>1, <1>2 DEF Missing, Larger

LEMMA MovedGrows ==
    ASSUME TypeInv, NEW who, NEW n \in Int, cursor' = Moved(who, n), NEW p \in Cursors
    PROVE  cursor[p] <= cursor'[p]
<1>1. cursor[p] \in Missing..Len(log) /\ Len(log) \in Nat
  BY Facts
<1>2. cursor'[p] = IF p \in who THEN Larger(cursor[p], n) ELSE cursor[p]
  BY MovedAt
<1> QED
  BY <1>1, <1>2 DEF Missing, Larger

LEMMA FastForwardStep ==
    ASSUME TypeInv, TypeInv', CursorInv, FastForward
    PROVE  CursorInv' /\ OnlyRejected
<1> USE DEF reader, control, bounds
<1>a. Progress /\ HotHonest
  BY DEF CursorInv
<1> DEFINE who == {p \in HotProjectors : cursor[p] # Missing}
<1>1. /\ cursor' = Moved(who, cursor[Hot]) /\ step = 0 /\ step' = 1 /\ pos' = pos /\ end' = end
      /\ mode' = mode /\ Bootstrapping
      /\ log' = log /\ rows' = rows /\ backup' = backup /\ upgraded' = upgraded /\ repairs' = repairs
  BY DEF FastForward
<1>2. cursor[Hot] \in Int /\ \A p \in Cursors : cursor[p] \in Int
  BY Facts, Constants DEF Missing
<1>3. \A p \in Cursors : cursor[p] <= cursor'[p]
  BY <1>1, <1>2, MovedGrows
<1>4. cursor'[Hot] = cursor[Hot]
  BY <1>1, Constants, MovedAt
<1>5. Progress'
  <2>1. \A i \in DOMAIN Order : ~(i < 1) /\ i # 0
    BY Constants
  <2>2. pos' = Missing
    BY <1>a, <1>1, <2>1 DEF Progress
  <2> QED
    BY <1>a, <1>1, <1>4, <2>1, <2>2 DEF Progress, Bootstrapping
<1>6. ASSUME NEW p \in HotProjectors, NEW n \in acc[p], n <= cursor'[p]
      PROVE  n <= cursor[p]
  <2>1. p \in Cursors /\ n \in Nat
    BY Facts, Constants
  <2>2. cursor'[p] = IF p \in who THEN Larger(cursor[p], cursor[Hot]) ELSE cursor[p]
    BY <1>1, <2>1, MovedAt
  <2>3. CASE p \in who
    <3>1. n <= cursor[p] \/ n <= cursor[Hot]
      BY <1>6, <2>2, <2>3 DEF Larger
    <3> QED
      BY <1>a, <1>1, <2>3, <3>1 DEF HotHonest
  <2>4. CASE p \notin who
    BY <1>6, <2>2, <2>4
  <2> QED
    BY <2>3, <2>4
<1> QED
  BY <1>1, <1>3, <1>4, <1>5, <1>6, Constants, Skips DEF Bootstrapping

LEMMA OpenStep ==
    ASSUME TypeInv, TypeInv', CursorInv, Open, ReadsReachEnd
    PROVE  CursorInv' /\ OnlyRejected
<1> USE DEF reader, control, bounds
<1>a. Progress
  BY DEF CursorInv
<1>1. /\ step' = step /\ mode' = mode /\ Bootstrapping /\ step \in DOMAIN Order
      /\ UNCHANGED <<store, backup, upgraded, repairs>>
      /\ cursor' = cursor /\ log' = log /\ upgraded' = upgraded /\ repairs' = repairs
      /\ pos' = Larger(cursor[Order[step]], 0)
  BY DEF Open, store
<1>2. end' = Len(log)
  <2>1. Order[step] \in Cursors
    BY <1>1, Constants
  <2>2. Len(log) \in Nat /\ cursor[Order[step]] \in Missing..Len(log)
    BY <2>1, Facts
  <2>3. Len(log) <= pos' + ReadLimit /\ ReadLimit \in Nat
    BY <1>1, Constants DEF Open, ReadsReachEnd
  <2>4. pos' \in Nat
    BY <1>1, <2>2 DEF Larger, Missing
  <2>5. ~(pos' + ReadLimit < Len(log))
    BY <2>2, <2>3, <2>4
  <2> QED
    BY <2>5 DEF Open
<1>3. Progress'
  BY <1>a, <1>1, <1>2 DEF Progress, Bootstrapping
<1> QED
  BY <1>1, <1>3, Quiet

LEMMA CloseStep ==
    ASSUME TypeInv, TypeInv', CursorInv, Close
    PROVE  CursorInv' /\ OnlyRejected
<1> USE DEF reader, control, bounds
<1>a. Progress
  BY DEF CursorInv
<1> DEFINE p == Order[step]
<1>1. /\ step \in DOMAIN Order /\ step' = step + 1 /\ pos' = Missing /\ mode' = mode
      /\ log' = log /\ rows' = rows /\ backup' = backup /\ upgraded' = upgraded /\ repairs' = repairs
      /\ pos # Missing /\ \A n \in (pos + 1)..end : ~Accepts(p, n)
      /\ cursor' = IF pos < end THEN Moved({p}, end) ELSE cursor
  BY DEF Close, NoReader
<1>2. pos = Larger(cursor[p], 0) /\ end = Len(log)
  BY <1>a, <1>1 DEF Progress
<1>3. p \in Projectors /\ p \in Cursors /\ p # Hot /\ step \in Nat /\ step # 0
  BY <1>1, Constants
<1> HIDE DEF p
<1>4. Len(log) \in Nat /\ \A q \in Cursors : cursor[q] \in Missing..Len(log) /\ cursor[q] \in Int
  BY Facts DEF Missing
<1>5. cursor[p] \in Int /\ pos \in Nat /\ cursor[p] <= pos /\ (pos # 0 => pos = cursor[p]) /\ pos <= Len(log)
  BY <1>2, <1>3, <1>4 DEF Larger, Missing
<1>6. \A q \in Cursors : q # p => cursor'[q] = cursor[q]
  BY <1>1, MovedAt
<1>7. cursor'[p] = IF pos < Len(log) THEN Len(log) ELSE cursor[p]
  <2>1. CASE pos < end
    <3>1. cursor'[p] = Larger(cursor[p], end)
      BY <1>1, <1>3, <2>1, MovedAt
    <3> QED
      BY <1>2, <1>4, <1>5, <2>1, <3>1 DEF Larger
  <2>2. CASE ~(pos < end)
    BY <1>1, <1>2, <2>2
  <2> QED
    BY <2>1, <2>2
<1>8. \A q \in Cursors : cursor[q] <= cursor'[q]
  <2> SUFFICES ASSUME NEW q \in Cursors PROVE cursor[q] <= cursor'[q]
    OBVIOUS
  <2>1. CASE q = p
    BY <1>4, <1>5, <1>7, <2>1
  <2>2. CASE q # p
    <3>1. cursor[q] \in Int /\ cursor'[q] = cursor[q]
      BY <1>4, <1>6, <2>2
    <3> QED
      BY <3>1
  <2> QED
    BY <2>1, <2>2
<1>9. Larger(cursor'[p], 0) = Len(log)
  BY <1>2, <1>4, <1>5, <1>7 DEF Larger
<1>10. Progress'
  <2>1. ASSUME NEW i \in DOMAIN Order, i < step' PROVE Larger(cursor'[Order[i]], 0) = Len(log')
    <3>1. i \in Nat /\ Order[i] \in Cursors
      BY Constants
    <3>2. CASE i = step
      BY <1>1, <1>9, <3>2 DEF p
    <3>3. CASE i < step
      <4>1. Larger(cursor[Order[i]], 0) = Len(log)
        BY <1>a, <3>3 DEF Progress
      <4> QED
        BY <1>1, <1>8, <3>1, <4>1, StaysAtEnd
    <3> QED
      BY <1>1, <1>3, <2>1, <3>1, <3>2, <3>3
  <2>2. cursor'[Hot] = cursor[Hot]
    BY <1>3, <1>6, Constants
  <2>3. step' # 0 /\ Bootstrapping
    BY <1>1, <1>3 DEF Close
  <2> QED
    BY <1>a, <1>1, <2>1, <2>2, <2>3 DEF Progress, Bootstrapping
<1>11. ASSUME NEW q \in HotProjectors, NEW n \in acc[q], n <= cursor'[q]
       PROVE  n <= cursor[q]
  <2>1. n \in 1..Len(log) /\ Accepts(q, n) /\ q \in Cursors
    BY Constants DEF acc
  <2>2. CASE q = p
    <3>1. ~(n \in (pos + 1)..end)
      BY <1>1, <2>1, <2>2
    <3>2. n <= pos
      BY <1>2, <1>4, <1>5, <2>1, <3>1
    <3> QED
      BY <1>5, <2>1, <2>2, <3>2
  <2>3. CASE q # p
    BY <1>6, <1>11, <2>1, <2>3
  <2> QED
    BY <2>2, <2>3
<1>12. cursor'[Hot] = cursor[Hot]
  BY <1>3, <1>6, Constants
<1>13. step' # 0
  BY <1>1, <1>3
<1> QED
  BY <1>1, <1>8, <1>10, <1>11, <1>12, <1>13, Constants, Skips

LEMMA ReplayStep ==
    ASSUME TypeInv, TypeInv', CursorInv, Replay
    PROVE  CursorInv' /\ OnlyRejected
<1> USE DEF reader, control, bounds
<1>a. Progress /\ Exact /\ Honest /\ Behind /\ HotHonest /\ BackupGood
  BY DEF CursorInv
<1> DEFINE p == Order[step]
<1>1. PICK n \in (pos + 1)..end :
        /\ Accepts(p, n)
        /\ \A k \in (pos + 1)..(n - 1) : ~Accepts(p, k)
        /\ rows' = Applied({p}, n) /\ cursor' = Moved({p}, n) /\ pos' = n
  BY Zenon DEF Replay
<1>2. /\ step \in DOMAIN Order /\ step' = step /\ mode' = mode /\ end' = end /\ Bootstrapping
      /\ log' = log /\ backup' = backup /\ upgraded' = upgraded /\ repairs' = repairs
      /\ pos # Missing
  BY DEF Replay, NoReader
<1>3. pos = Larger(cursor[p], 0) /\ end = Len(log)
  BY <1>a, <1>2 DEF Progress
<1>4. p \in Projectors /\ p \in Cursors /\ p # Hot /\ step \in Nat /\ step # 0
  BY <1>2, Constants
<1> HIDE DEF p
<1>5. Len(log) \in Nat /\ cursor[p] \in Int /\ pos \in Nat /\ cursor[p] <= pos /\ (pos # 0 => pos = cursor[p])
  <2>1. Len(log) \in Nat /\ cursor[p] \in Missing..Len(log)
    BY <1>4, Facts
  <2> QED
    BY <1>3, <2>1 DEF Larger, Missing
<1>6. n \in Nat /\ n \in Int /\ pos < n /\ n <= Len(log) /\ n \in 1..Len(log)
  BY <1>1, <1>3, <1>5
<1>7. \A q \in Cursors : q # p => cursor'[q] = cursor[q]
  BY <1>1, MovedAt
<1>8. cursor'[p] = n
  <2>1. cursor'[p] = Larger(cursor[p], n)
    BY <1>1, <1>4, MovedAt
  <2> QED
    BY <1>5, <1>6, <2>1 DEF Larger
<1>9. \A q \in Cursors : cursor[q] <= cursor'[q]
  BY <1>1, <1>6, MovedGrows
<1>10. Progress'
  <2>1. ASSUME NEW i \in DOMAIN Order, i < step PROVE Larger(cursor'[Order[i]], 0) = Len(log)
    <3>1. Order[i] \in Cursors /\ Larger(cursor[Order[i]], 0) = Len(log)
      BY <1>a, <2>1, Constants DEF Progress
    <3> QED
      BY <1>2, <1>9, <3>1, StaysAtEnd
  <2>2. pos' = Larger(cursor'[p], 0)
    BY <1>1, <1>6, <1>8 DEF Larger
  <2>3. cursor'[Hot] = cursor[Hot]
    BY <1>4, <1>7, Constants
  <2> QED
    BY <1>a, <1>2, <1>3, <2>1, <2>2, <2>3 DEF Progress, Bootstrapping, p
<1>11. CASE p = Shell
  BY <1>1, <1>2, <1>10, <1>11, ShellMoves
<1>12. CASE p # Shell
  <2>1. p \in HotProjectors
    BY <1>4, <1>12 DEF HotProjectors
  <2>2. acc' = acc
    BY <1>2 DEF acc, Accepts
  <2>3. rows'[p] = Append(rows[p], n) /\ rows[p] \in Seq(Nat)
    BY <1>1, <1>4, AppliedAt, Facts
  <2>4. \A q \in HotProjectors : q # p => rows'[q] = rows[q] /\ cursor'[q] = cursor[q]
    <3>1. \A q \in HotProjectors : q \in Projectors /\ q \in Cursors
      BY Constants
    <3>2. \A q \in Projectors : q # p => rows'[q] = rows[q]
      BY <1>1, AppliedAt
    <3> QED
      BY <1>7, <3>1, <3>2
  <2>5. n \in acc[p] /\ acc[p] \in SUBSET Nat
    BY <1>1, <1>6, <2>1 DEF acc
  <2>6. ASSUME NEW k \in acc[p], k < n PROVE k <= pos
    <3>1. k \in 1..Len(log) /\ Accepts(p, k)
      BY <2>1 DEF acc
    <3>2. ~(k \in (pos + 1)..(n - 1))
      BY <1>1, <3>1
    <3> QED
      BY <1>5, <1>6, <2>6, <3>1, <3>2
  <2>7. Exact'
    <3> SUFFICES ASSUME NEW q \in HotProjectors, repairs = 0 \/ q \notin Snapshot \ {Projects}
                 PROVE  rows'[q] = Filtered(UpTo(Larger(cursor'[q], 0)), acc[q])
      BY <1>2, <2>2 DEF Exact
    <3>1. CASE q # p
      BY <1>a, <2>4, <3>1 DEF Exact
    <3>2. CASE q = p
      <4>1. rows[p] = Filtered(UpTo(pos), acc[p])
        BY <1>a, <1>3, <3>2 DEF Exact
      <4>2. Filtered(UpTo(n), acc[p]) = Append(Filtered(UpTo(pos), acc[p]), n)
        BY <1>5, <1>6, <2>5, <2>6, FilteredUpToNext
      <4>3. Larger(cursor'[p], 0) = n
        BY <1>6, <1>8 DEF Larger
      <4> QED
        BY <2>3, <3>2, <4>1, <4>2, <4>3
    <3> QED
      BY <3>1, <3>2
  <2>8. Range(rows'[p]) = Range(rows[p]) \cup {n}
    BY <1>6, <2>3, AppendRange
  <2>9. Honest'
    <3> SUFFICES ASSUME NEW q \in HotProjectors, NEW k \in acc[q], k <= cursor'[q]
                 PROVE  k \in Range(rows'[q])
      BY <2>2 DEF Honest
    <3>1. CASE q # p
      BY <1>a, <2>4, <3>1 DEF Honest
    <3>2. CASE q = p /\ k = n
      BY <2>8, <3>2
    <3>3. CASE q = p /\ k # n
      <4>1. k \in Nat /\ k # 0
        BY <2>1, <3>3 DEF acc
      <4>2. k <= cursor[p]
        BY <1>5, <1>6, <1>8, <2>6, <3>3, <4>1
      <4>3. k \in Range(rows[p])
        BY <1>a, <2>1, <3>3, <4>2 DEF Honest
      <4> QED
        BY <2>8, <3>3, <4>3
    <3> QED
      BY <3>1, <3>2, <3>3
  <2>10. ASSUME NEW q \in HotProjectors, NEW k \in acc[q], k <= cursor[q] PROVE k <= cursor'[q]
    <3>1. k \in Nat /\ cursor[q] \in Int /\ cursor'[q] \in Int /\ cursor[q] <= cursor'[q]
      <4>1. q \in Cursors /\ k \in Nat /\ cursor[q] \in Missing..Len(log)
        BY Facts, Constants
      <4>2. cursor'[q] = n \/ cursor'[q] = cursor[q]
        BY <1>8, <2>4
      <4> QED
        BY <1>6, <1>9, <4>1, <4>2 DEF Missing
    <3> QED
      BY <2>10, <3>1
  <2>11. Behind'
    BY <1>a, <1>2, <2>2, <2>10 DEF Behind
  <2>12. HotHonest'
    <3>1. cursor'[Hot] = cursor[Hot]
      BY <1>4, <1>7, Constants
    <3> QED
      BY <1>a, <1>2, <1>4, <2>2, <2>10, <3>1 DEF HotHonest
  <2>13. BackupGood'
    <3>1. \A q \in HotProjectors : Range(rows[q]) \subseteq Range(rows'[q])
      BY <2>4, <2>8
    <3> QED
      BY <1>a, <1>2, <2>2, <3>1 DEF BackupGood
  <2>14. OnlyRejected
    <3>1. rows'[p] # rows[p]
      BY <1>6, <2>3, AppendChanges
    <3> QED
      BY <2>2, <2>4, <3>1 DEF OnlyRejected
  <2> QED
    BY <1>10, <2>7, <2>9, <2>11, <2>12, <2>13, <2>14 DEF CursorInv
<1> QED
  BY <1>11, <1>12

\* At the end every hot projector has been through the whole log.
LEMMA FinishStep ==
    ASSUME TypeInv, TypeInv', CursorInv, Finish
    PROVE  CursorInv' /\ OnlyRejected
<1> USE DEF reader, control, bounds
<1>a. Progress /\ Exact /\ Honest
  BY DEF CursorInv
<1>1. /\ step = Len(Order) + 1 /\ step' = 0 /\ mode' = "running" /\ pos' = pos
      /\ log' = log /\ rows' = rows /\ repairs' = repairs
  BY DEF Finish
<1>2. upgraded' = FALSE
  BY DEF Finish
<1>3. ASSUME NEW p \in HotProjectors PROVE /\ cursor'[p] = cursor[p] /\ cursor[p] <= cursor[p]
                                          /\ \A n \in acc[p] : n <= cursor[p]
  <2>1. p \in Projectors /\ p \in Cursors /\ p # Hot
    BY Constants
  <2>2. cursor'[p] = cursor[p]
    <3>1. cursor' = cursor \/ \E n \in Range(cursor) : cursor' = Moved({Hot}, n)
      BY <2>1, Constants DEF Finish, Range, TypeInv, StoreTypes
    <3> QED
      BY <2>1, <3>1, MovedAt
  <2>3. Larger(cursor[p], 0) = Len(log)
    <3>1. PICK i \in DOMAIN Order : Order[i] = p
      BY <2>1, Constants
    <3>2. i < step
      BY <1>1, <3>1, Constants
    <3> QED
      BY <1>a, <3>1, <3>2 DEF Progress
  <2>4. cursor[p] \in Int /\ Len(log) \in Nat /\ acc[p] \in SUBSET (1..Len(log))
    BY <2>1, Facts DEF Missing
  <2> QED
    BY <2>2, <2>3, <2>4 DEF Larger
<1>4. acc' = acc /\ Exact' /\ Honest'
  BY <1>a, <1>1, <1>3, CursorsSkip
<1>5. Progress'
  <2>1. pos' = Missing
    BY <1>a, <1>1, Constants DEF Progress
  <2>2. \A i \in DOMAIN Order : ~(i < 0)
    BY Constants
  <2> QED
    BY <1>1, <1>2, <2>1, <2>2 DEF Progress
<1>6. Behind' /\ HotHonest' /\ BackupGood'
  BY <1>1, <1>3, <1>4 DEF Behind, HotHonest, BackupGood
<1>7. OnlyRejected
  BY <1>3, <1>4 DEF OnlyRejected
<1> QED
  BY <1>4, <1>5, <1>6, <1>7 DEF CursorInv

\* With nothing accepted left behind a cursor, the rows are those of the whole log.
LEMMA ExactToTheEnd ==
    ASSUME TypeInv, NEW p \in HotProjectors, NEW c \in Missing..Len(log), \A n \in acc[p] : n <= c
    PROVE  Filtered(UpTo(Larger(c, 0)), acc[p]) = Filtered(UpTo(Len(log)), acc[p])
<1>1. Len(log) \in Nat /\ acc[p] \in SUBSET (1..Len(log)) /\ acc[p] \in SUBSET Nat
  BY Facts
<1> DEFINE m == Larger(c, 0)
<1>2. m \in Nat /\ m <= Len(log) /\ c <= m
  BY <1>1 DEF Larger, Missing
<1>3. \A k \in acc[p] : k <= Len(log) => k <= m
  BY <1>1, <1>2 DEF Missing
<1> HIDE DEF m
<1>4. Filtered(UpTo(Len(log)), acc[p]) = Filtered(UpTo(m), acc[p])
  BY <1>1, <1>2, <1>3, FilteredUpToSkip
<1> QED
  BY <1>4 DEF m

LEMMA RepairStep ==
    ASSUME TypeInv, TypeInv', CursorInv, Repair
    PROVE  CursorInv' /\ OnlyRejected
<1> USE DEF reader, control, bounds
<1>a. Progress /\ Exact /\ Honest /\ Behind
  BY DEF CursorInv
<1>1. /\ mode = "running" /\ mode' = "repair" /\ step' = 0 /\ pos' = Missing
      /\ log' = log /\ upgraded' = upgraded /\ repairs' = repairs + 1
      /\ backup'.cursor = cursor /\ backup'.rows = rows[Projects]
      /\ rows' = [rows EXCEPT ![Projects] = <<>>]
      /\ cursor' = [p \in Cursors |-> IF p \in Snapshot \cup {Hot} THEN Missing ELSE cursor[p]]
  BY DEF Repair, Begin
<1>2. acc' = acc
  BY <1>1 DEF acc, Accepts
<1>3. repairs' # 0
  BY <1>1 DEF TypeInv, FlagTypes
<1>4. cursor'[Hot] = Missing /\ \A p \in Snapshot : cursor'[p] = Missing
  BY <1>1, Constants
<1>5. \A p \in HotProjectors : p \notin Snapshot => cursor'[p] = cursor[p]
  BY <1>1, Constants
<1>6. rows'[Projects] = <<>> /\ \A p \in HotProjectors : p # Projects => rows'[p] = rows[p]
  <2>1. rows \in [Projectors -> Seq(1..Len(log))] /\ Projects \in Projectors
    BY Constants DEF TypeInv, StoreTypes
  <2> QED
    BY <1>1, <2>1, Constants
<1>7. Progress'
  <2>1. \A i \in DOMAIN Order : ~(i < 0)
    BY Constants
  <2>2. ~upgraded
    BY <1>a, <1>1 DEF Progress
  <2> QED
    BY <1>1, <1>3, <1>4, <2>1, <2>2 DEF Progress
<1>8. Exact'
  <2> SUFFICES ASSUME NEW p \in HotProjectors, p \notin Snapshot \ {Projects}
               PROVE  rows'[p] = Filtered(UpTo(Larger(cursor'[p], 0)), acc[p])
    BY <1>2, <1>3 DEF Exact
  <2>1. CASE p = Projects
    <3>1. Larger(cursor'[p], 0) = 0
      BY <1>4, <2>1, Constants DEF Larger, Missing
    <3> QED
      BY <1>6, <2>1, <3>1, NothingYet
  <2>2. CASE p # Projects
    BY <1>a, <1>5, <1>6, <2>2 DEF Exact
  <2> QED
    BY <2>1, <2>2
<1>9. Honest'
  <2> SUFFICES ASSUME NEW p \in HotProjectors, NEW n \in acc[p], n <= cursor'[p]
               PROVE  n \in Range(rows'[p])
    BY <1>2 DEF Honest
  <2>1. p \notin Snapshot
    <3>1. n \in Nat
      BY Facts
    <3> QED
      BY <1>4, <3>1 DEF Missing
  <2> QED
    BY <1>a, <1>5, <1>6, <2>1, Constants DEF Honest
<1>10. Behind'
  BY <1>a, <1>1, <1>2, <1>5 DEF Behind
<1>11. HotHonest'
  <2>1. \A p \in HotProjectors : \A n \in acc[p] : ~(n <= cursor'[Hot])
    <3>1. \A p \in HotProjectors : acc[p] \in SUBSET Nat
      BY Facts
    <3> QED
      BY <1>4, <3>1 DEF Missing
  <2> QED
    BY <1>2, <2>1 DEF HotHonest
<1>12. BackupGood'
  <2>1. \A p \in HotProjectors : \A n \in acc[p] : n <= cursor[p]
    BY <1>a, <1>1 DEF Behind
  <2>2. \A p \in HotProjectors \ {Projects} : \A n \in acc[p] : n \in Range(rows'[p])
    BY <1>a, <1>6, <2>1 DEF Honest
  <2>3. rows[Projects] = Filtered(UpTo(Len(log)), acc[Projects])
    <3>1. Projects \in HotProjectors /\ cursor[Projects] \in Missing..Len(log)
      BY Facts, Constants
    <3>2. rows[Projects] = Filtered(UpTo(Larger(cursor[Projects], 0)), acc[Projects])
      BY <1>a, <3>1 DEF Exact
    <3> QED
      BY <2>1, <3>1, <3>2, ExactToTheEnd
  <2> QED
    BY <1>1, <1>2, <2>1, <2>2, <2>3 DEF BackupGood
<1>13. OnlyRejected
  <2> SUFFICES ASSUME NEW p \in HotProjectors, NEW n \in acc[p], n <= cursor'[p]
               PROVE  n <= cursor[p]
    BY <1>2 DEF OnlyRejected
  <2>1. n <= cursor[p]
    BY <1>a, <1>1 DEF Behind
  <2> QED
    BY <2>1
<1> QED
  BY <1>7, <1>8, <1>9, <1>10, <1>11, <1>12, <1>13 DEF CursorInv

\* A failed repair puts back what commands ran with.
LEMMA RestoreStep ==
    ASSUME TypeInv, TypeInv', CursorInv, BootstrapFails, mode = "repair"
    PROVE  CursorInv' /\ OnlyRejected
<1> USE DEF reader, control, bounds
<1>a. Progress /\ Exact /\ BackupGood /\ Behind
  BY DEF CursorInv
<1>1. /\ mode' = "running" /\ step' = 0 /\ pos' = Missing
      /\ log' = log /\ upgraded' = upgraded /\ repairs' = repairs
      /\ cursor' = backup.cursor /\ rows' = [rows EXCEPT ![Projects] = backup.rows]
  BY DEF BootstrapFails
<1>2. acc' = acc
  BY <1>1 DEF acc, Accepts
<1>3. /\ \A p \in HotProjectors : \A n \in acc[p] : n <= cursor'[p]
      /\ \A p \in HotProjectors \ {Projects} : \A n \in acc[p] : n \in Range(rows[p])
      /\ backup.rows = Filtered(UpTo(Len(log)), acc[Projects])
  BY <1>a, <1>1 DEF BackupGood
<1>4. ~upgraded /\ repairs # 0
  BY <1>a DEF Progress
<1>5. rows'[Projects] = backup.rows /\ \A p \in HotProjectors : p # Projects => rows'[p] = rows[p]
  <2>1. rows \in [Projectors -> Seq(1..Len(log))] /\ Projects \in Projectors
    BY Constants DEF TypeInv, StoreTypes
  <2> QED
    BY <1>1, <2>1, Constants
<1>6. \A p \in HotProjectors : cursor[p] \in Missing..Len(log) /\ cursor'[p] \in Missing..Len(log)
  <2>1. \A p \in HotProjectors : cursor'[p] \in Missing..Len(log)
    BY <1>1, Constants DEF TypeInv, BackupTypes
  <2> QED
    BY <2>1, Facts, Constants
<1>7. Progress'
  <2>1. \A i \in DOMAIN Order : ~(i < 0)
    BY Constants
  <2> QED
    BY <1>1, <1>4, <2>1 DEF Progress
<1>8. Exact'
  <2> SUFFICES ASSUME NEW p \in HotProjectors, p \notin Snapshot \ {Projects}
               PROVE  rows'[p] = Filtered(UpTo(Larger(cursor'[p], 0)), acc[p])
    BY <1>1, <1>2, <1>4 DEF Exact
  <2>1. Filtered(UpTo(Larger(cursor'[p], 0)), acc[p]) = Filtered(UpTo(Len(log)), acc[p])
    BY <1>3, <1>6, ExactToTheEnd
  <2>2. CASE p = Projects
    BY <1>3, <1>5, <2>1, <2>2
  <2>3. CASE p # Projects
    <3>1. rows[p] = Filtered(UpTo(Larger(cursor[p], 0)), acc[p])
      BY <1>a, <2>3 DEF Exact
    <3>2. \A n \in acc[p] : n <= cursor[p]
      BY <1>a, <2>3 DEF Behind
    <3>3. Filtered(UpTo(Larger(cursor[p], 0)), acc[p]) = Filtered(UpTo(Len(log)), acc[p])
      BY <1>6, <3>2, ExactToTheEnd
    <3> QED
      BY <1>5, <2>1, <2>3, <3>1, <3>3
  <2> QED
    BY <2>2, <2>3
<1>9. Honest'
  <2> SUFFICES ASSUME NEW p \in HotProjectors, NEW n \in acc[p]
               PROVE  n \in Range(rows'[p])
    BY <1>2 DEF Honest
  <2>1. CASE p = Projects
    <3>1. Len(log) \in Nat /\ n \in 1..Len(log)
      BY Facts
    <3>2. Range(Filtered(UpTo(Len(log)), acc[p])) = (1..Len(log)) \cap acc[p]
      BY <3>1, FilteredUpToElements
    <3> QED
      BY <1>3, <1>5, <2>1, <3>1, <3>2
  <2>2. CASE p # Projects
    BY <1>3, <1>5, <2>2
  <2> QED
    BY <2>1, <2>2
<1>10. Behind' /\ HotHonest' /\ BackupGood'
  BY <1>1, <1>2, <1>3 DEF Behind, HotHonest, BackupGood
<1>11. OnlyRejected
  BY <1>1 DEF OnlyRejected
<1> QED
  BY <1>7, <1>8, <1>9, <1>10, <1>11 DEF CursorInv

LEMMA UpgradeStep ==
    ASSUME TypeInv, TypeInv', CursorInv, NEW p \in Added, Upgrade(p)
    PROVE  CursorInv' /\ OnlyRejected
<1> USE DEF reader, control, bounds
<1>a. Progress /\ Exact /\ Honest /\ HotHonest
  BY DEF CursorInv
<1>1. /\ mode = "down" /\ mode' = mode /\ step' = step /\ pos' = pos /\ end' = end
      /\ log' = log /\ repairs' = repairs
      /\ rows' = [rows EXCEPT ![p] = <<>>] /\ cursor' = [cursor EXCEPT ![p] = Missing]
  BY DEF Upgrade
<1>2. acc' = acc
  BY <1>1 DEF acc, Accepts
<1>3. p \in HotProjectors /\ p \in Projectors /\ p \in Cursors /\ p # Hot
  BY Constants
<1>4. /\ rows'[p] = <<>> /\ cursor'[p] = Missing /\ cursor'[Hot] = cursor[Hot]
      /\ \A q \in HotProjectors : q # p => rows'[q] = rows[q] /\ cursor'[q] = cursor[q]
  <2>1. rows \in [Projectors -> Seq(1..Len(log))] /\ cursor \in [Cursors -> Missing..Len(log)]
    BY DEF TypeInv, StoreTypes
  <2> QED
    BY <1>1, <1>3, <2>1, Constants
<1>5. step = 0 /\ pos = Missing
  <2>1. mode \notin {"startup", "catchUp", "repair"}
    BY <1>1
  <2> QED
    BY <1>a, <1>1, <2>1 DEF Progress, Bootstrapping
<1>6. Progress'
  <2>1. \A i \in DOMAIN Order : ~(i < 0)
    BY Constants
  <2> QED
    BY <1>1, <1>5, <2>1 DEF Progress
<1>7. Exact'
  <2> SUFFICES ASSUME NEW q \in HotProjectors, repairs = 0 \/ q \notin Snapshot \ {Projects}
               PROVE  rows'[q] = Filtered(UpTo(Larger(cursor'[q], 0)), acc[q])
    BY <1>1, <1>2 DEF Exact
  <2>1. CASE q = p
    <3>1. Larger(cursor'[q], 0) = 0
      BY <1>4, <2>1 DEF Larger, Missing
    <3> QED
      BY <1>4, <2>1, <3>1, NothingYet
  <2>2. CASE q # p
    BY <1>a, <1>4, <2>2 DEF Exact
  <2> QED
    BY <2>1, <2>2
<1>8. Honest'
  <2> SUFFICES ASSUME NEW q \in HotProjectors, NEW n \in acc[q], n <= cursor'[q]
               PROVE  n \in Range(rows'[q])
    BY <1>2 DEF Honest
  <2>1. q # p
    <3>1. n \in Nat
      BY Facts
    <3> QED
      BY <1>4, <3>1 DEF Missing
  <2> QED
    BY <1>a, <1>4, <2>1 DEF Honest
<1>9. Behind' /\ BackupGood'
  BY <1>1 DEF Behind, BackupGood
<1>10. HotHonest'
  <2> SUFFICES ASSUME NEW q \in HotProjectors, ~upgraded' \/ cursor'[q] # Missing,
                      NEW n \in acc[q], n <= cursor[Hot]
               PROVE  n <= cursor'[q]
    BY <1>2, <1>4 DEF HotHonest
  <2>1. upgraded' = TRUE
    BY DEF Upgrade
  <2>2. cursor'[q] # Missing
    BY <2>1
  <2>3. q # p
    BY <1>4, <2>2
  <2>4. cursor'[q] = cursor[q]
    BY <1>4, <2>3
  <2> QED
    BY <1>a, <1>5, <2>2, <2>4 DEF HotHonest
<1>11. OnlyRejected
  <2> SUFFICES ASSUME NEW q \in HotProjectors, NEW n \in acc[q], n <= cursor'[q]
               PROVE  n <= cursor[q]
    BY <1>2 DEF OnlyRejected
  <2>1. q # p
    <3>1. n \in Nat
      BY Facts
    <3> QED
      BY <1>4, <3>1 DEF Missing
  <2> QED
    BY <1>4, <2>1
<1> QED
  BY <1>6, <1>7, <1>8, <1>9, <1>10, <1>11 DEF CursorInv

LEMMA CommitStep ==
    ASSUME TypeInv, CursorInv, NEW t \in Types, Commit(t)
    PROVE  CursorInv' /\ OnlyRejected
<1> USE DEF reader, control, bounds
<1>a. Progress /\ Exact /\ Honest /\ Behind
  BY DEF CursorInv
<1> DEFINE N == Len(log) + 1
           accepting == {p \in HotProjectors : t \in Matches[p]}
           who == {Hot} \cup (IF t \in Metadata THEN Snapshot ELSE accepting)
<1>1. /\ mode = "running" /\ mode' = mode /\ step' = step /\ pos' = pos /\ end' = end
      /\ upgraded' = upgraded /\ repairs' = repairs
      /\ rows' = Applied(accepting, N) /\ cursor' = Moved(who, N)
  BY DEF Commit
<1>2. /\ TypeInv' /\ Len(log) \in Nat /\ Len(log') = N
      /\ \A k \in 1..Len(log) : log'[k] = log[k]
      /\ log'[N].type = t
  BY CommitTypes
<1>3. N \in Nat /\ N \in Int /\ N # 0
  BY <1>2
<1>4. \A p \in accepting : p \in who
  <2> SUFFICES ASSUME NEW p \in accepting, t \in Metadata PROVE p \in Snapshot
    OBVIOUS
  <2>1. p \in Projectors /\ t \in Matches[p] \cap Metadata
    BY Constants
  <2> QED
    BY <2>1, Constants
<1> HIDE DEF who
<1>5. ASSUME NEW p \in HotProjectors
      PROVE  acc'[p] = IF p \in accepting THEN acc[p] \cup {N} ELSE acc[p]
  <2>1. acc'[p] = {k \in 1..N : log'[k].type \in Matches[p]}
    BY <1>2 DEF acc, Accepts
  <2>2. acc[p] = {k \in 1..Len(log) : log[k].type \in Matches[p]}
    BY DEF acc, Accepts
  <2>3. \A k : k \in 1..N <=> (k \in 1..Len(log) \/ k = N)
    BY <1>2
  <2> QED
    BY <1>2, <2>1, <2>2, <2>3
<1>6. ASSUME NEW p \in HotProjectors
      PROVE  rows'[p] = IF p \in accepting THEN Append(rows[p], N) ELSE rows[p]
  BY <1>1, AppliedAt, Constants
<1>7. ASSUME NEW p \in HotProjectors
      PROVE  /\ cursor'[p] = IF p \in who THEN N ELSE cursor[p]
             /\ cursor[p] \in Int /\ cursor[p] < N
             /\ acc[p] \in SUBSET (1..Len(log)) /\ acc[p] \in SUBSET Nat
             /\ \A n \in acc[p] : n <= cursor[p]
             /\ rows[p] \in Seq(Nat)
  <2>1. p \in Cursors /\ p \in Projectors
    BY Constants
  <2>2. cursor[p] \in Missing..Len(log) /\ acc[p] \in SUBSET (1..Len(log)) /\ rows[p] \in Seq(Nat)
    BY <2>1, Facts
  <2>3. cursor'[p] = IF p \in who THEN Larger(cursor[p], N) ELSE cursor[p]
    BY <1>1, <2>1, MovedAt
  <2>4. cursor[p] \in Int /\ cursor[p] < N
    BY <1>2, <2>2 DEF Missing
  <2>5. \A n \in acc[p] : n <= cursor[p]
    BY <1>a, <1>1 DEF Behind
  <2> QED
    BY <1>3, <2>2, <2>3, <2>4, <2>5 DEF Larger
<1> HIDE DEF accepting, N
<1>8. Behind'
  <2> SUFFICES ASSUME NEW p \in HotProjectors, NEW n \in acc'[p] PROVE n <= cursor'[p]
    BY DEF Behind
  <2>1. n = N \/ (n \in acc[p] /\ n <= cursor[p] /\ n \in Nat)
    BY <1>5, <1>7
  <2>2. n = N => p \in accepting
    <3>1. N \notin acc[p]
      BY <1>2, <1>7 DEF N
    <3> QED
      BY <1>5, <3>1
  <2> QED
    BY <1>3, <1>4, <1>7, <2>1, <2>2
<1>9. Exact'
  <2> SUFFICES ASSUME NEW p \in HotProjectors, repairs = 0 \/ p \notin Snapshot \ {Projects}
               PROVE  rows'[p] = Filtered(UpTo(Larger(cursor'[p], 0)), acc'[p])
    BY <1>1 DEF Exact
  <2> DEFINE m == Larger(cursor[p], 0)
  <2>1. m \in Nat /\ m < N /\ cursor[p] <= m
    BY <1>3, <1>7 DEF Larger, N
  <2>2. rows[p] = Filtered(UpTo(m), acc[p])
    BY <1>a DEF Exact
  <2>3. acc[p] \in SUBSET Nat /\ \A k \in acc[p] : k <= m
    <3> SUFFICES ASSUME NEW k \in acc[p] PROVE k <= m
      BY <1>7
    <3>1. k \in Nat /\ k <= cursor[p] /\ cursor[p] \in Int
      BY <1>7
    <3> QED
      BY <2>1, <3>1
  <2>4. p \in who => Larger(cursor'[p], 0) = N
    BY <1>3, <1>7 DEF Larger
  <2>5. p \notin who => Larger(cursor'[p], 0) = m
    BY <1>7
  <2> HIDE DEF m
  <2>6. CASE p \in accepting
    <3> DEFINE S == acc[p] \cup {N}
    <3>1. S \in SUBSET Nat /\ N \in S /\ \A k \in S : k < N => k <= m
      BY <1>3, <2>3
    <3>2. Filtered(UpTo(N), S) = Append(Filtered(UpTo(m), S), N)
      <4> HIDE DEF S
      <4> QED
        BY <1>3, <2>1, <3>1, FilteredUpToNext
    <3>3. Filtered(UpTo(m), S) = Filtered(UpTo(m), acc[p])
      <4>1. UpTo(m) \in Seq(1..m) /\ Range(UpTo(m)) = 1..m
        BY <2>1, UpToRange
      <4>2. Range(UpTo(m)) \cap S = Range(UpTo(m)) \cap acc[p]
        BY <1>3, <2>1, <4>1
      <4> HIDE DEF S
      <4> QED
        BY <4>1, <4>2, FilteredSame
    <3> QED
      BY <1>4, <1>5, <1>6, <2>2, <2>4, <2>6, <3>2, <3>3
  <2>7. CASE p \notin accepting
    <3>1. rows'[p] = rows[p] /\ acc'[p] = acc[p]
      BY <1>5, <1>6, <2>7
    <3>2. Filtered(UpTo(N), acc[p]) = Filtered(UpTo(m), acc[p])
      <4>1. m <= N
        BY <1>3, <2>1
      <4> QED
        BY <1>3, <2>1, <2>3, <4>1, FilteredUpToSkip
    <3> QED
      BY <2>2, <2>4, <2>5, <3>1, <3>2
  <2> QED
    BY <2>6, <2>7
<1>10. Honest'
  <2> SUFFICES ASSUME NEW p \in HotProjectors, NEW n \in acc'[p]
               PROVE  n \in Range(rows'[p])
    BY DEF Honest
  <2>1. \A k \in acc[p] : k \in Range(rows[p])
    BY <1>a, <1>7 DEF Honest
  <2>2. CASE p \in accepting
    <3>1. Range(Append(rows[p], N)) = Range(rows[p]) \cup {N}
      BY <1>3, <1>7, AppendRange
    <3> QED
      BY <1>5, <1>6, <2>1, <2>2, <3>1
  <2>3. CASE p \notin accepting
    BY <1>5, <1>6, <2>1, <2>3
  <2> QED
    BY <2>2, <2>3
<1>11. HotHonest' /\ BackupGood'
  <2>1. \A p \in HotProjectors : \A n \in acc'[p] : n <= cursor'[p]
    BY <1>1, <1>8 DEF Behind
  <2> QED
    BY <1>1, <2>1 DEF HotHonest, BackupGood
<1>12. Progress'
  <2>1. step = 0 /\ ~upgraded /\ pos = Missing
    BY <1>a, <1>1 DEF Progress, Bootstrapping
  <2>2. \A i \in DOMAIN Order : ~(i < 0)
    BY Constants
  <2> QED
    BY <1>1, <2>1, <2>2 DEF Progress
<1>13. OnlyRejected
  <2> SUFFICES ASSUME NEW p \in HotProjectors, rows'[p] = rows[p], NEW n \in acc'[p]
               PROVE  n <= cursor[p]
    BY DEF OnlyRejected
  <2>1. p \notin accepting
    <3>1. Append(rows[p], N) # rows[p]
      BY <1>3, <1>7, AppendChanges
    <3> QED
      BY <1>6, <3>1, Zenon
  <2> QED
    BY <1>5, <1>7, <2>1
<1> QED
  BY <1>8, <1>9, <1>10, <1>11, <1>12, <1>13 DEF CursorInv

LEMMA CursorNext ==
    ASSUME TypeInv, CursorInv, ReadsReachEnd, ~RebuildFails, [Next]_vars
    PROVE  CursorInv' /\ OnlyRejected
<1>1. TypeInv'
  BY TypeNext
<1>2. ~RebuildFails
  OBVIOUS
<1>3. ASSUME NEW t \in Types, Commit(t) PROVE CursorInv' /\ OnlyRejected
  BY <1>3, CommitStep
<1>4. CASE ProjectDeferred
  BY <1>1, <1>4, ProjectDeferredStep
<1>5. CASE SkipDeferred \/ Interrupt \/ Boot \/ CatchUp \/ Crash \/ UNCHANGED vars
  BY <1>1, <1>2, <1>5, QuietSteps
<1>6. CASE BootstrapFails
  BY <1>1, <1>2, <1>6, QuietSteps, RestoreStep
<1>7. CASE Repair
  BY <1>1, <1>7, RepairStep
<1>8. CASE FastForward
  BY <1>1, <1>8, FastForwardStep
<1>9. CASE Open
  BY <1>1, <1>9, OpenStep
<1>10. CASE Replay
  BY <1>1, <1>10, ReplayStep
<1>11. CASE Close
  BY <1>1, <1>11, CloseStep
<1>12. CASE Finish
  BY <1>1, <1>12, FinishStep
<1>13. ASSUME NEW p \in Added, Upgrade(p) PROVE CursorInv' /\ OnlyRejected
  BY <1>1, <1>13, UpgradeStep
<1> QED
  BY <1>3, <1>4, <1>5, <1>6, <1>7, <1>8, <1>9, <1>10, <1>11, <1>12, <1>13 DEF Next, Bootstrap

------------------------------------------------------------------------------
\* The theorems

LEMMA CursorsAlways ==
    ASSUME ~RebuildFails
    PROVE  Spec /\ []ReadsReachEnd => [](TypeInv /\ CursorInv)
<1>1. Init => TypeInv /\ CursorInv
  BY TypeInit, CursorInit
<1>2. TypeInv /\ CursorInv /\ ReadsReachEnd /\ [Next]_vars => TypeInv' /\ CursorInv'
  BY TypeNext, CursorNext
<1> QED
  BY <1>1, <1>2, PTL DEF Spec

\* A hot cursor never passes an event its projector accepts and has not applied,
\* whatever crashes, failed bootstraps, repairs and upgrades come, while the reads of
\* bootstrapProjector reach the end of the log.
THEOREM HotCursorsAreHonest ==
    ASSUME ~RebuildFails
    PROVE  Spec /\ []ReadsReachEnd => []CursorsHonest
<1>1. TypeInv /\ CursorInv => CursorsHonest
  <2> SUFFICES ASSUME TypeInv, CursorInv, NEW p \in HotProjectors, NEW n \in 1..cursor[p],
                      Accepts(p, n)
               PROVE  n \in Range(rows[p])
    BY DEF CursorsHonest
  <2>1. cursor[p] \in Missing..Len(log) /\ Len(log) \in Nat
    BY Facts, Constants
  <2>2. n \in acc[p] /\ n <= cursor[p]
    BY <2>1 DEF acc, Missing
  <2> QED
    BY <2>2 DEF CursorInv, Honest
<1> QED
  BY <1>1, CursorsAlways, PTL

\* While commands run the rows of each hot projector are those of the whole log, under
\* the same proviso.
THEOREM RowsFollowLog ==
    ASSUME ~RebuildFails
    PROVE  Spec /\ []ReadsReachEnd => []RowsExact
<1>1. TypeInv /\ CursorInv => RowsExact
  <2> SUFFICES ASSUME TypeInv, CursorInv, mode = "running", NEW p \in HotProjectors
               PROVE  /\ Range(Accepted(p, Len(log))) \subseteq Range(rows[p])
                      /\ repairs = 0 \/ p \notin Snapshot \ {Projects}
                            => rows[p] = Accepted(p, Len(log))
    BY DEF RowsExact
  <2>1. /\ Len(log) \in Nat /\ cursor[p] \in Missing..Len(log)
        /\ \A n \in acc[p] : n <= cursor[p]
    BY Facts, Constants DEF CursorInv, Behind
  <2>2. Accepted(p, Len(log)) = Filtered(UpTo(Len(log)), acc[p])
    BY DEF Accepted, acc
  <2>3. Range(Filtered(UpTo(Len(log)), acc[p])) = (1..Len(log)) \cap acc[p]
    BY <2>1, FilteredUpToElements
  <2>4. Range(Accepted(p, Len(log))) \subseteq Range(rows[p])
    BY <2>1, <2>2, <2>3 DEF CursorInv, Honest
  <2>5. ASSUME repairs = 0 \/ p \notin Snapshot \ {Projects}
        PROVE  rows[p] = Accepted(p, Len(log))
    <3>1. rows[p] = Filtered(UpTo(Larger(cursor[p], 0)), acc[p])
      BY <2>5 DEF CursorInv, Exact
    <3> QED
      BY <2>1, <2>2, <3>1, ExactToTheEnd
  <2> QED
    BY <2>4, <2>5
<1> QED
  BY <1>1, CursorsAlways, PTL

\* The snapshot sequence a client resumes from covers nothing the hot rows it was read
\* with lack, even while a repair replays them, under the same proviso.
THEOREM SnapshotsAreHonest ==
    ASSUME ~RebuildFails
    PROVE  Spec /\ []ReadsReachEnd => []SnapshotHonest
<1>1. TypeInv /\ CursorInv => SnapshotHonest
  <2> DEFINE least == IF cursor[Hot] <= cursor[Shell] THEN cursor[Hot] ELSE cursor[Shell]
  <2> SUFFICES ASSUME TypeInv, CursorInv, mode \in {"running", "catchUp", "repair"},
                      NEW p \in HotProjectors, NEW n \in 1..Larger(0, least), Accepts(p, n)
               PROVE  n \in Range(rows[p])
    BY DEF SnapshotHonest
  <2>1. /\ Len(log) \in Nat /\ cursor[Hot] \in Missing..Len(log)
        /\ cursor[Shell] \in Missing..Len(log)
    BY Facts, Constants, ShellIsProjector
  <2>2. n \in 1..Len(log) /\ cursor[Hot] # Missing
    BY <2>1 DEF Larger, Missing
  <2>3. n \in acc[p]
    BY <2>2 DEF acc
  <2>4. mode \in {"running", "catchUp"}
    BY <2>2 DEF CursorInv, Progress
  <2> QED
    BY <2>3, <2>4 DEF CursorInv, Behind, Honest
<1> QED
  BY <1>1, CursorsAlways, PTL

\* A cursor that moves past events without applying them covers rejected ones only,
\* under the same proviso.
THEOREM LaggingCursorsSkipRejected ==
    ASSUME ~RebuildFails
    PROVE  Spec /\ []ReadsReachEnd => SkipsOnlyRejected
<1>1. TypeInv /\ CursorInv /\ ReadsReachEnd /\ [Next]_vars =>
        \A p \in HotProjectors :
            rows'[p] = rows[p] /\ ~(mode = "repair" /\ mode' = "running")
            => \A n \in (Larger(cursor[p], 0) + 1)..cursor'[p] :
                    log'[n].type \notin Matches[p]
  <2> SUFFICES ASSUME TypeInv, CursorInv, ReadsReachEnd, [Next]_vars, NEW p \in HotProjectors,
                      rows'[p] = rows[p], ~(mode = "repair" /\ mode' = "running"),
                      NEW n \in (Larger(cursor[p], 0) + 1)..cursor'[p],
                      log'[n].type \in Matches[p]
               PROVE  FALSE
    OBVIOUS
  <2>1. TypeInv' /\ OnlyRejected
    BY TypeNext, CursorNext
  <2>2. cursor[p] \in Missing..Len(log) /\ Len(log) \in Nat /\ p \in Cursors
    BY Facts, Constants
  <2>3. cursor'[p] \in Missing..Len(log') /\ Len(log') \in Nat
    <3>1. log' \in Seq(Range(log'))
      BY <2>1 DEF TypeInv, StoreTypes
    <3> QED
      BY <2>1, <2>2, <3>1, LenProperties DEF TypeInv, StoreTypes
  <2>4. n \in 1..Len(log') /\ n <= cursor'[p] /\ ~(n <= cursor[p])
    BY <2>2, <2>3 DEF Larger, Missing
  <2>5. n \in acc'[p]
    BY <2>4 DEF acc, Accepts
  <2> QED
    BY <2>1, <2>4, <2>5 DEF OnlyRejected
<1> QED
  BY <1>1, CursorsAlways, PTL DEF Spec, SkipsOnlyRejected
==============================================================================
