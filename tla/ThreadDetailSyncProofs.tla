------------------------ MODULE ThreadDetailSyncProofs ------------------------
(***************************************************************************)
(* What the fence of ThreadDetailSync hides from the store: once a         *)
(* subscription has settled, every event up to the fence was given to it   *)
(* or was published while its stream started, after the read of the        *)
(* snapshot and before the subscription; for every size of the buffers and *)
(* any number of events and upsets.                                        *)
(*                                                                         *)
(* The argument follows one stream from the moment its snapshot was read.  *)
(* What the store has, with the rows of a snapshot on its way, with what   *)
(* the start of the stream missed and with what precedes an event in the   *)
(* buffer, is everything before that event; so whoever takes the events in *)
(* order misses none but those.  An event that comes before there is a     *)
(* fence breaks this, and asks for a new stream; so does whatever else     *)
(* takes the fence away.                                                   *)
(***************************************************************************)
EXTENDS ThreadDetailSync, FilteringProofs, TLAPS

USE SyncConstants

------------------------------------------------------------------------------
\* Sequences

LEMMA TailFacts ==
    ASSUME NEW A, NEW s \in Seq(A), s # <<>>
    PROVE  /\ Len(s) \in Nat /\ Len(s) # 0 /\ DOMAIN s = 1..Len(s)
           /\ Head(s) = s[1] /\ Head(s) \in A
           /\ Tail(s) \in Seq(A) /\ Len(Tail(s)) = Len(s) - 1
           /\ DOMAIN Tail(s) = 1..(Len(s) - 1)
           /\ \A i \in 1..(Len(s) - 1) : Tail(s)[i] = s[i + 1]
<1>1. /\ Head(s) \in A /\ Tail(s) \in Seq(A) /\ Len(Tail(s)) = Len(s) - 1
      /\ \A i \in 1..Len(Tail(s)) : Tail(s)[i] = s[i + 1]
  BY HeadTailProperties
<1>2. Len(s) \in Nat /\ Len(s) # 0 /\ DOMAIN s = 1..Len(s)
  BY EmptySeq, LenProperties
<1>3. DOMAIN Tail(s) = 1..Len(Tail(s))
  BY <1>1, LenProperties
<1>4. Head(s) = s[1]
  OBVIOUS
<1> QED
  BY <1>1, <1>2, <1>3, <1>4

LEMMA AppendFacts ==
    ASSUME NEW A, NEW s \in Seq(A), NEW e \in A
    PROVE  /\ Append(s, e) \in Seq(A) /\ Len(Append(s, e)) = Len(s) + 1
           /\ Len(s) \in Nat /\ DOMAIN s = 1..Len(s)
           /\ DOMAIN Append(s, e) = 1..(Len(s) + 1)
           /\ \A i \in 1..Len(s) : Append(s, e)[i] = s[i]
           /\ Append(s, e)[Len(s) + 1] = e
           /\ Elements(Append(s, e)) = Elements(s) \cup {e}
<1>1. /\ Append(s, e) \in Seq(A) /\ Len(Append(s, e)) = Len(s) + 1
      /\ Elements(Append(s, e)) = Elements(s) \cup {e}
  <2>1. \A t : Elements(t) = Range(t)
    BY DEF Elements, Range
  <2> QED
    BY <2>1, AppendRange
<1>2. /\ \A i \in 1..Len(s) : Append(s, e)[i] = s[i]
      /\ Append(s, e)[Len(s) + 1] = e
  BY AppendProperties
<1>3. /\ Len(s) \in Nat /\ DOMAIN s = 1..Len(s)
      /\ DOMAIN Append(s, e) = 1..Len(Append(s, e))
  BY <1>1, LenProperties
<1> QED
  BY <1>1, <1>2, <1>3

LEMMA AppendElements ==
    ASSUME NEW A, NEW s \in Seq(A), NEW e \in A
    PROVE  Elements(Append(s, e)) = Elements(s) \cup {e}
BY AppendFacts

LEMMA IntervalsNest ==
    ASSUME NEW m \in Int, NEW n \in Int, m <= n
    PROVE  1..(m - 1) \subseteq 1..(n - 1)
OBVIOUS

LEMMA ElementsOf == ASSUME NEW A, NEW s \in Seq(A) PROVE Elements(s) \subseteq A
BY LenProperties, ElementOfSeq DEF Elements

\* The early events are bounded, and the oldest are the ones that go.
LEMMA BoundedFacts ==
    ASSUME NEW A, NEW s \in Seq(A), Len(s) <= PendingLimit, NEW e \in A
    PROVE  /\ Bounded(s, e) \in Seq(A) /\ Len(Bounded(s, e)) <= PendingLimit
           /\ Elements(Bounded(s, e)) \subseteq Elements(s) \cup {e}
<1>1. Len(s) \in Nat /\ PendingLimit \in Nat /\ PendingLimit # 0
  BY LenProperties
<1>2. CASE Len(s) >= PendingLimit
  <2>1. s # <<>> /\ Len(s) = PendingLimit
    BY <1>1, <1>2, EmptySeq
  <2>2. /\ Tail(s) \in Seq(A) /\ Len(Tail(s)) = Len(s) - 1
        /\ Elements(Tail(s)) \subseteq Elements(s)
    BY <2>1, TailFacts DEF Elements
  <2> DEFINE t == Tail(s)
  <2>3. Bounded(s, e) = Append(t, e) /\ t \in Seq(A)
    BY <1>2, <2>2 DEF Bounded
  <2> HIDE DEF t
  <2>4. /\ Append(t, e) \in Seq(A) /\ Len(Append(t, e)) = Len(t) + 1
        /\ Elements(Append(t, e)) = Elements(t) \cup {e}
    BY <2>3, AppendFacts
  <2> QED
    BY <1>1, <2>1, <2>2, <2>3, <2>4 DEF t
<1>3. CASE ~(Len(s) >= PendingLimit)
  <2>1. Bounded(s, e) = Append(s, e)
    BY <1>3 DEF Bounded
  <2>2. /\ Append(s, e) \in Seq(A) /\ Len(Append(s, e)) = Len(s) + 1
        /\ Elements(Append(s, e)) = Elements(s) \cup {e}
    BY AppendFacts
  <2> QED
    BY <1>1, <1>3, <2>1, <2>2
<1> QED
  BY <1>2, <1>3

\* What is handed over with a snapshot came early.
LEMMA LateFacts ==
    /\ Elements(Late) \subseteq Elements(pending)
    /\ Late # <<>> => Late[Len(Late)] \in Elements(pending)
<1> DEFINE S == {e \in Elements(pending) : e > snap.seq}
<1>1. UpTo(MaxEvents) \in Seq(Nat)
  BY UpToProperties
<1>2. Late \in Seq(Nat) /\ Range(Late) \subseteq S
  BY <1>1, FilteredElements DEF Late, Sorted
<1>3. Elements(Late) = Range(Late)
  BY DEF Elements, Range
<1>4. Late # <<>> => Late[Len(Late)] \in Elements(Late)
  <2> HIDE DEF S
  <2> SUFFICES ASSUME Late # <<>> PROVE Late[Len(Late)] \in Elements(Late)
    OBVIOUS
  <2>1. Len(Late) \in Nat /\ Len(Late) # 0 /\ DOMAIN Late = 1..Len(Late)
    BY <1>2, TailFacts
  <2>2. Len(Late) \in DOMAIN Late
    BY <2>1
  <2> QED
    BY <2>2 DEF Elements
<1> QED
  BY <1>2, <1>3, <1>4

------------------------------------------------------------------------------
\* Types

Flags ==
    /\ deferred \in BOOLEAN /\ dirty \in BOOLEAN
    /\ visible \in BOOLEAN /\ subscribed \in BOOLEAN /\ welcome \in BOOLEAN

CursorsOK == log \in 0..MaxEvents /\ shell \in 0..log /\ next \in 1..(log + 1)

LinkOK ==
    /\ stream \in {"off", "starting", "live", "failed", "retry"}
    /\ buffer \in Seq(1..log) /\ Len(buffer) <= Capacity
    /\ snap \in SnapshotItem
    /\ missed \subseteq 1..log

RouterOK ==
    /\ requests \subseteq {"subscribe", "unsubscribe", "snapshot"}
    /\ seq \in (0..log) \cup {None}
    /\ pending \in Seq(1..log) /\ Len(pending) <= PendingLimit
    /\ replay \in (0..log) \cup {None}
    /\ given \subseteq 1..log

\* A snapshot never promises what its rows do not hold.
SnapshotOK ==
    /\ snap.seq <= log
    /\ snap.rows <= log
    /\ snap.at = "ready" => snap.seq <= snap.rows
    /\ snap.at = "done" => snap.rows = 0

TypeInv ==
    /\ Flags /\ CursorsOK /\ LinkOK /\ RouterOK /\ SnapshotOK
    /\ upsets \in 0..MaxUpsets

LEMMA TypeInvType == TypeInv => TypeOK
<1> SUFFICES ASSUME TypeInv PROVE TypeOK
  OBVIOUS
<1>1. {deferred, dirty, visible, subscribed, welcome} \subseteq BOOLEAN
  BY Zenon DEF TypeInv, Flags
<1> QED
  BY <1>1 DEF TypeInv, CursorsOK, LinkOK, RouterOK, TypeOK

LEMMA TypeInit == Init => TypeInv
<1> SUFFICES ASSUME Init PROVE TypeInv
  OBVIOUS
<1>1. Flags
  BY DEF Init, Flags
<1>2. <<>> \in Seq(1..log) /\ Len(<<>>) = 0
  BY EmptySeq
<1> QED
  BY <1>1, <1>2
  DEF Init, TypeInv, CursorsOK, LinkOK, RouterOK, SnapshotOK, SnapshotItem, NoSnapshot

\* The engine, and what it offers to the stream.
LEMMA TypeEngine == ASSUME TypeInv, Engine PROVE TypeInv'
<1>a. Flags /\ CursorsOK /\ LinkOK /\ RouterOK /\ SnapshotOK /\ upsets \in 0..MaxUpsets
  BY DEF TypeInv
<1>b. MaxEvents \in Nat /\ MaxUpsets \in Nat /\ MaxBatch \in Nat /\ Capacity \in Nat
  OBVIOUS
<1>1. ASSUME NEW n \in 1..MaxBatch, Commit(n)
      PROVE  TypeInv'
  <2>1. log' \in 0..MaxEvents /\ log <= log' /\ log' = log + n
    BY <1>1, <1>a, <1>b DEF Commit, CursorsOK
  <2>2. 1..log \subseteq 1..log' /\ 0..log \subseteq 0..log'
    BY <1>a, <2>1 DEF CursorsOK
  <2>3. Seq(1..log) \subseteq Seq(1..log')
    BY <2>2, SeqMonotonic
  <2>4. Flags' /\ SnapshotOK' /\ upsets' \in 0..MaxUpsets
    <3>0. deferred' \in BOOLEAN
      <4>1. deferred' = FALSE
        BY <1>1, Zenon DEF Commit
      <4> QED
        BY <4>1, Zenon
    <3>1. Flags'
      <4>1. UNCHANGED <<dirty, visible, subscribed, welcome>>
        BY <1>1 DEF Commit, router
      <4> QED
        BY <1>a, <3>0, <4>1, Zenon DEF Flags
    <3>4. upsets' \in 0..MaxUpsets
      BY <1>1, <1>a DEF Commit
    <3>2. snap' = snap /\ snap.seq \in Int /\ snap.rows \in Int /\ log \in Int /\ log' \in Int
      BY <1>1, <1>a, <2>1 DEF Commit, LinkOK, SnapshotItem, CursorsOK, link
    <3>3. SnapshotOK'
      BY <1>a, <2>1, <3>2 DEF SnapshotOK
    <3> QED
      BY <3>1, <3>3, <3>4
  <2>5. CursorsOK'
    BY <1>1, <1>a, <2>1 DEF Commit, CursorsOK
  <2>6. LinkOK'
    BY <1>1, <1>a, <2>2, <2>3 DEF Commit, LinkOK, link, SnapshotItem
  <2>7. RouterOK'
    BY <1>1, <1>a, <2>2, <2>3 DEF Commit, RouterOK, router
  <2> QED
    BY <2>4, <2>5, <2>6, <2>7 DEF TypeInv
<1>2. CASE ProjectDeferred
  BY <1>2, <1>a
  DEF ProjectDeferred, TypeInv, Flags, CursorsOK, LinkOK, RouterOK, SnapshotOK, SnapshotItem,
      link, router
<1>3. CASE DeferToCatchUp
  <2>1. upsets' \in 0..MaxUpsets
    BY <1>3, <1>a, <1>b DEF DeferToCatchUp
  <2> QED
    BY <1>3, <1>a, <2>1
    DEF DeferToCatchUp, TypeInv, Flags, CursorsOK, LinkOK, RouterOK, SnapshotOK, SnapshotItem,
        link, router
<1>4. CASE CatchUp
  <2>0. dirty' \in BOOLEAN
    <3>1. dirty' = FALSE
      BY <1>4, Zenon DEF CatchUp
    <3> QED
      BY <3>1, Zenon
  <2>1. Flags'
    <3>1. UNCHANGED <<deferred, visible, subscribed, welcome>>
      BY <1>4 DEF CatchUp, router
    <3> QED
      BY <1>a, <2>0, <3>1, Zenon DEF Flags
  <2>2. CursorsOK'
    BY <1>4, <1>a DEF CatchUp, CursorsOK
  <2> QED
    BY <1>4, <1>a, <2>1, <2>2
    DEF CatchUp, TypeInv, LinkOK, RouterOK, SnapshotOK, SnapshotItem, link, router
<1>5. CASE Publish
  <2>1. /\ next \in 1..log /\ Offered(next) /\ next' = next + 1 /\ snap' = snap
        /\ UNCHANGED <<log, shell, deferred, dirty, router, given, visible, upsets>>
    BY <1>5, <1>a DEF Publish, CursorsOK
  <2>2. /\ stream' \in {"off", "starting", "live", "failed", "retry"}
        /\ buffer' \in Seq(1..log) /\ Len(buffer') <= Capacity
    <3>1. /\ Append(buffer, next) \in Seq(1..log)
          /\ Len(Append(buffer, next)) = Len(buffer) + 1 /\ Len(buffer) \in Nat
      BY <1>a, <2>1, AppendFacts DEF LinkOK
    <3>2. CASE stream # "live"
      BY <1>a, <2>1, <3>2 DEF Offered, LinkOK
    <3>3. CASE stream = "live" /\ Len(buffer) >= Capacity
      BY <1>a, <2>1, <3>3 DEF Offered, LinkOK
    <3>4. CASE stream = "live" /\ ~(Len(buffer) >= Capacity)
      <4>1. buffer' = Append(buffer, next) /\ stream' = stream
        BY <2>1, <3>4 DEF Offered
      <4>2. Len(buffer) + 1 <= Capacity
        BY <1>b, <3>1, <3>4
      <4> QED
        BY <1>a, <3>1, <4>1, <4>2 DEF LinkOK
    <3> QED
      BY <3>2, <3>3, <3>4
  <2>3. LinkOK' /\ SnapshotOK'
    <3>1. missed' \subseteq 1..log
      BY <1>5, <1>a, <2>1 DEF Publish, LinkOK
    <3> QED
      BY <1>a, <2>1, <2>2, <3>1 DEF LinkOK, SnapshotOK, SnapshotItem
  <2>4. Flags' /\ CursorsOK' /\ RouterOK' /\ upsets' \in 0..MaxUpsets
    BY <1>a, <2>1 DEF Flags, CursorsOK, RouterOK, router
  <2> QED
    BY <2>3, <2>4 DEF TypeInv
<1>6. ASSUME NEW k \in 1..MaxEvents, Reconcile(k)
      PROVE  TypeInv'
  <2>1. upsets' \in 0..MaxUpsets /\ CursorsOK'
    BY <1>6, <1>a, <1>b DEF Reconcile, CursorsOK
  <2>2. /\ UNCHANGED <<log, dirty, visible, given>> /\ deferred' \in BOOLEAN
        /\ UNCHANGED <<link, router>>
    BY <1>6 DEF Reconcile
  <2>3. Flags' /\ RouterOK'
    BY <1>a, <2>2 DEF Flags, RouterOK, router
  <2>4. LinkOK' /\ SnapshotOK'
    BY <1>a, <2>2 DEF LinkOK, SnapshotOK, SnapshotItem, link
  <2> QED
    BY <2>1, <2>3, <2>4 DEF TypeInv
<1> QED
  BY <1>1, <1>2, <1>3, <1>4, <1>5, <1>6 DEF Engine

LEMMA TypeTransport == ASSUME TypeInv, Transport PROVE TypeInv'
<1>a. Flags /\ CursorsOK /\ LinkOK /\ RouterOK /\ SnapshotOK /\ upsets \in 0..MaxUpsets
  BY DEF TypeInv
<1>b. MaxEvents \in Nat /\ MaxUpsets \in Nat /\ Capacity \in Nat
  OBVIOUS
<1>c. <<>> \in Seq(1..log) /\ Len(<<>>) = 0
  BY EmptySeq
<1>d. NoSnapshot \in SnapshotItem /\ SnapshotDue \in SnapshotItem
  BY <1>b DEF NoSnapshot, SnapshotDue, SnapshotItem
<1>e. /\ NoSnapshot.at = "done" /\ NoSnapshot.seq = 0 /\ NoSnapshot.rows = 0
      /\ SnapshotDue.at = "asked" /\ SnapshotDue.seq = 0 /\ SnapshotDue.rows = 0
  BY DEF NoSnapshot, SnapshotDue
<1>f. ASSUME Restarted, UNCHANGED log PROVE LinkOK' /\ SnapshotOK'
  BY <1>f, <1>a, <1>b, <1>c, <1>d, <1>e
  DEF Restarted, LinkOK, SnapshotOK, CursorsOK, SnapshotItem
<1>1. CASE ReadSnapshot
  <2> DEFINE s == [at |-> "ready", seq |-> Fence, rows |-> log]
  <2>1. Fence \in 0..log
    BY <1>a DEF Fence, Least, CursorsOK
  <2>2. s \in SnapshotItem /\ s.at = "ready" /\ s.seq = Fence /\ s.rows = log
    BY <1>a, <2>1 DEF SnapshotItem, CursorsOK
  <2> HIDE DEF s
  <2>3. snap' = s \/ snap' = NoSnapshot
    BY <1>1 DEF ReadSnapshot, s
  <2>4. SnapshotOK' /\ LinkOK'
    BY <1>1, <1>a, <1>d, <1>e, <2>1, <2>2, <2>3
    DEF ReadSnapshot, SnapshotOK, LinkOK, CursorsOK, server, SnapshotItem
  <2> QED
    BY <1>1, <1>a, <2>4
    DEF ReadSnapshot, TypeInv, Flags, CursorsOK, RouterOK, server, router
<1>2. CASE Drop
  <2>1. upsets' \in 0..MaxUpsets
    BY <1>2, <1>a, <1>b DEF Drop
  <2>2. LinkOK' /\ SnapshotOK'
    BY <1>2, <1>a, <1>b, <1>c, <1>d, <1>e
    DEF Drop, LinkOK, SnapshotOK, CursorsOK, server, SnapshotItem
  <2> QED
    BY <1>2, <1>a, <2>1, <2>2
    DEF Drop, TypeInv, Flags, CursorsOK, RouterOK, server, router
<1>3. CASE NoticeFailure
  <2>2. LinkOK' /\ SnapshotOK'
    BY <1>3, <1>a, <1>b, <1>c, <1>d, <1>e
    DEF NoticeFailure, LinkOK, SnapshotOK, CursorsOK, server, SnapshotItem
  <2> QED
    BY <1>3, <1>a, <2>2
    DEF NoticeFailure, TypeInv, Flags, CursorsOK, RouterOK, server, router
<1>4. CASE Reconnect
  <2>1. LinkOK' /\ SnapshotOK'
    BY <1>4, <1>f DEF Reconnect, server
  <2> QED
    BY <1>4, <1>a, <2>1
    DEF Reconnect, TypeInv, Flags, CursorsOK, RouterOK, server
<1>8. CASE Subscribe
  <2>1. /\ stream' = "live"
        /\ UNCHANGED <<server, buffer, snap, missed, router, given, visible, upsets>>
    BY <1>8 DEF Subscribe
  <2> QED
    BY <1>a, <2>1
    DEF TypeInv, Flags, CursorsOK, LinkOK, RouterOK, SnapshotOK, SnapshotItem, server, router
<1>5. ASSUME NEW r \in requests, StartStream(r)
      PROVE  TypeInv'
  <2>1. LinkOK' /\ SnapshotOK'
    BY <1>5, <1>f DEF StartStream, server
  <2> QED
    BY <1>5, <1>a, <2>1
    DEF StartStream, TypeInv, Flags, CursorsOK, RouterOK, server
<1>6. ASSUME NEW r \in requests, RequestFails(r)
      PROVE  TypeInv'
  BY <1>6, <1>a
  DEF RequestFails, TypeInv, Flags, CursorsOK, LinkOK, RouterOK, SnapshotOK, SnapshotItem,
      server, link
<1>7. CASE StopStream
  <2>1. log' = log /\ log \in Nat
    BY <1>7, <1>a DEF StopStream, server, CursorsOK
  <2>2. ASSUME stream = "retry" PROVE LinkOK' /\ SnapshotOK'
    BY <1>7, <1>a, <2>1, <2>2 DEF StopStream, LinkOK, SnapshotOK, SnapshotItem
  <2>3. ASSUME stream # "retry" PROVE LinkOK' /\ SnapshotOK'
    <3>1. stream' = "off" /\ buffer' = <<>> /\ snap' = NoSnapshot /\ missed' = missed
      BY <1>7, <2>3 DEF StopStream
    <3>2. SnapshotOK'
      BY <1>e, <2>1, <3>1 DEF SnapshotOK
    <3>3. LinkOK'
      BY <1>a, <1>b, <1>c, <1>d, <2>1, <3>1 DEF LinkOK, SnapshotItem
    <3> QED
      BY <3>2, <3>3
  <2>4. LinkOK' /\ SnapshotOK'
    BY <2>2, <2>3
  <2> QED
    BY <1>7, <1>a, <2>4
    DEF StopStream, TypeInv, Flags, CursorsOK, RouterOK, server
<1> QED
  BY <1>1, <1>2, <1>3, <1>4, <1>5, <1>6, <1>7, <1>8 DEF Transport

LEMMA TypeRouter == ASSUME TypeInv, Router PROVE TypeInv'
<1>a. Flags /\ CursorsOK /\ LinkOK /\ RouterOK /\ SnapshotOK /\ upsets \in 0..MaxUpsets
  BY DEF TypeInv
<1>b. MaxEvents \in Nat /\ MaxUpsets \in Nat /\ PendingLimit \in Nat
  OBVIOUS
<1>c. <<>> \in Seq(1..log) /\ Len(<<>>) = 0
  BY EmptySeq
<1>1. CASE Navigate
  <2>1. upsets' \in 0..MaxUpsets /\ Flags'
    BY <1>1, <1>a, <1>b DEF Navigate, Flags, server, router
  <2> QED
    BY <1>1, <1>a, <2>1
    DEF Navigate, TypeInv, CursorsOK, LinkOK, RouterOK, SnapshotOK, SnapshotItem,
        server, link, router
<1>2. CASE Enter \/ Leave \/ Welcome
  <2>1. Flags' /\ UNCHANGED <<log, shell, next, link, replay, given, upsets>>
    BY <1>2, <1>a DEF Enter, Leave, Welcome, Flags, server
  <2>2. RouterOK'
    <3>1. requests' \subseteq {"subscribe", "unsubscribe", "snapshot"}
      BY <1>2, <1>a DEF Enter, Leave, Welcome, RouterOK
    <3>2. seq' = None /\ pending' = <<>>
      BY <1>2 DEF Enter, Leave, Welcome
    <3> QED
      BY <1>a, <1>b, <1>c, <2>1, <3>1, <3>2 DEF RouterOK
  <2> QED
    BY <1>a, <2>1, <2>2 DEF TypeInv, CursorsOK, LinkOK, SnapshotOK, SnapshotItem, link
<1>3. CASE DeliverSnapshot
  <2>1. /\ snap' = NoSnapshot
        /\ UNCHANGED <<server, stream, buffer, missed, subscribed, requests, welcome, replay,
                       visible, upsets>>
    BY <1>3 DEF DeliverSnapshot
  <2>2. LinkOK' /\ SnapshotOK'
    BY <1>a, <1>b, <2>1 DEF LinkOK, SnapshotOK, CursorsOK, NoSnapshot, SnapshotItem, server
  <2>3. Elements(pending) \subseteq 1..log
    BY <1>a, ElementsOf DEF RouterOK
  <2>4. seq' \in 0..log
    <3>1. snap.seq \in 0..log
      BY <1>a DEF LinkOK, SnapshotOK, SnapshotItem, CursorsOK
    <3>2. Late # <<>> => Late[Len(Late)] \in 1..log
      BY <2>3, LateFacts
    <3> QED
      BY <1>3, <1>a, <3>1, <3>2 DEF DeliverSnapshot, CursorsOK
  <2>5. given' \subseteq 1..log
    <3>1. 1..snap.rows \subseteq 1..log
      BY <1>a DEF LinkOK, SnapshotOK, SnapshotItem, CursorsOK
    <3> QED
      BY <1>3, <1>a, <2>3, <3>1, LateFacts DEF DeliverSnapshot, RouterOK
  <2>6. RouterOK'
    BY <1>3, <1>a, <1>b, <1>c, <2>1, <2>4, <2>5 DEF DeliverSnapshot, RouterOK, server
  <2> QED
    BY <1>a, <2>1, <2>2, <2>6 DEF TypeInv, Flags, CursorsOK, server
<1>4. ASSUME NEW e \in Elements(buffer), DeliverEarly(e) \/ DeliverKnown(e) \/ DeliverNew(e)
      PROVE  TypeInv'
  <2>1. /\ buffer # <<>> /\ buffer' = Tail(buffer)
        /\ UNCHANGED <<server, stream, snap, missed, subscribed, welcome, replay, visible,
                       upsets>>
    BY <1>4 DEF DeliverEarly, DeliverKnown, DeliverNew, Arrives
  <2>2. e \in 1..log
    BY <1>a, ElementsOf DEF LinkOK
  <2>3. buffer' \in Seq(1..log) /\ Len(buffer') <= Capacity
    <3>1. Tail(buffer) \in Seq(1..log) /\ Len(Tail(buffer)) = Len(buffer) - 1
          /\ Len(buffer) \in Nat
      BY <1>a, <2>1, TailFacts DEF LinkOK
    <3> QED
      BY <1>a, <2>1, <3>1 DEF LinkOK
  <2>4. Bounded(pending, e) \in Seq(1..log) /\ Len(Bounded(pending, e)) <= PendingLimit
    BY <1>a, <2>2, BoundedFacts DEF RouterOK
  <2>5. RouterOK'
    <3>1. CASE DeliverEarly(e)
      BY <1>a, <2>1, <2>4, <3>1 DEF DeliverEarly, RouterOK, server
    <3>2. CASE DeliverKnown(e)
      BY <1>a, <2>1, <3>2 DEF DeliverKnown, RouterOK, server
    <3>3. CASE DeliverNew(e)
      BY <1>a, <2>1, <2>2, <3>3 DEF DeliverNew, RouterOK, server, CursorsOK
    <3> QED
      BY <1>4, <3>1, <3>2, <3>3
  <2> QED
    BY <1>a, <2>1, <2>3, <2>5
    DEF TypeInv, Flags, CursorsOK, LinkOK, SnapshotOK, SnapshotItem, server
<1>5. CASE AskSnapshot
  <2>1. upsets' \in 0..MaxUpsets
    BY <1>5, <1>a, <1>b DEF AskSnapshot
  <2> QED
    BY <1>5, <1>a, <2>1
    DEF AskSnapshot, TypeInv, Flags, CursorsOK, LinkOK, RouterOK, SnapshotOK, SnapshotItem,
        server, link
<1>6. CASE AskReplay \/ ReplayFails
  <2>1. replay' \in (0..log) \cup {None}
    BY <1>6, <1>a DEF AskReplay, ReplayFails, RouterOK
  <2>2. UNCHANGED <<server, link, subscribed, requests, welcome, seq, pending, given, visible,
                    upsets>>
    BY <1>6 DEF AskReplay, ReplayFails
  <2> QED
    BY <1>a, <2>1, <2>2
    DEF TypeInv, Flags, CursorsOK, LinkOK, RouterOK, SnapshotOK, SnapshotItem, server, link
<1>7. ASSUME NEW n \in 0..MaxEvents, ReceiveReplay(n)
      PROVE  TypeInv'
  <2>1. /\ n \in 0..log /\ replay' = None
        /\ UNCHANGED <<server, link, subscribed, requests, welcome, pending, visible, upsets>>
        /\ seq' = seq \/ seq' = n
        /\ given' = given \cup Replayed(n)
    BY <1>7, <1>a DEF ReceiveReplay, RouterOK, CursorsOK
  <2>2. Replayed(n) \subseteq 1..log
    BY <1>7, <1>a, <2>1 DEF ReceiveReplay, Replayed, RouterOK, CursorsOK
  <2>3. RouterOK'
    BY <1>a, <2>1, <2>2 DEF RouterOK, server
  <2> QED
    BY <1>a, <2>1, <2>3
    DEF TypeInv, Flags, CursorsOK, LinkOK, SnapshotOK, SnapshotItem, server, link
<1> QED
  BY <1>1, <1>2, <1>3, <1>4, <1>5, <1>6, <1>7 DEF Router

LEMMA TypeNext == TypeInv /\ [Next]_vars => TypeInv'
<1> SUFFICES ASSUME TypeInv, [Next]_vars PROVE TypeInv'
  OBVIOUS
<1>1. CASE UNCHANGED vars
  BY <1>1
  DEF vars, server, link, router, TypeInv, Flags, CursorsOK, LinkOK, RouterOK, SnapshotOK,
      SnapshotItem
<1> QED
  BY <1>1, TypeEngine, TypeTransport, TypeRouter DEF Next

\* The cursors, the fence and the events of every buffer stay within the log, and
\* the buffers within their limits.
THEOREM SyncTypeCorrect == Spec => []TypeOK
BY TypeInit, TypeNext, TypeInvType, PTL DEF Spec

------------------------------------------------------------------------------
\* The fence

\* The stream the client listens to is the one it wants, and is not to be restarted.
Served ==
    /\ stream \in {"starting", "live", "failed"}
    /\ subscribed
    /\ requests \cap {"subscribe", "snapshot"} = {}

\* What the store has, with the rows on their way and what the stream will not bring.
Has == given \cup missed \cup (IF snap.at = "ready" THEN 1..snap.rows ELSE {})

\* Everything before the fence is had, and before where a replay will set it.
FenceHad ==
    /\ seq # None => 1..seq \subseteq Has
    /\ seq = None /\ replay # None => 1..replay \subseteq Has

\* Everything before an event is had or comes before it.
StreamWhole ==
    /\ \A i \in DOMAIN buffer :
            1..(buffer[i] - 1) \subseteq Has \cup {buffer[j] : j \in 1..(i - 1)}
    /\ stream \in {"starting", "live"} => 1..(next - 1) \subseteq Has \cup Elements(buffer)

\* The events that came early are older than the snapshot that is to answer them.
EarlyAreOld == snap.at = "ready" => Elements(pending) \subseteq 1..snap.rows

FenceInv ==
    /\ TypeInv
    /\ (Served /\ snap.at # "asked") => FenceHad /\ StreamWhole /\ EarlyAreOld

LEMMA FenceInit == Init => FenceInv
BY TypeInit DEF Init, FenceInv, Served

\* Nothing of the stream or the router changes, and nothing more is published.
LEMMA FenceKept ==
    ASSUME TypeInv, FenceInv, UNCHANGED <<link, router, given>>, next' <= next, next' \in Int,
           Served', snap'.at # "asked"
    PROVE  FenceHad' /\ StreamWhole' /\ EarlyAreOld'
<1>1. /\ UNCHANGED <<stream, buffer, snap, missed, subscribed, requests, seq, pending, replay>>
      /\ given' = given
  BY DEF link, router
<1>2. FenceHad /\ StreamWhole /\ EarlyAreOld
  BY <1>1 DEF FenceInv, Served
<1>3. FenceHad' /\ EarlyAreOld'
  BY <1>1, <1>2 DEF FenceHad, EarlyAreOld, Has
<1>4. 1..(next' - 1) \subseteq 1..(next - 1)
  <2>1. next \in Int
    BY DEF TypeInv, CursorsOK
  <2> QED
    BY <2>1, IntervalsNest
<1>5. StreamWhole'
  <2>1. Has' = Has /\ Elements(buffer') = Elements(buffer)
    BY <1>1 DEF Has, Elements
  <2>2. \A i \in DOMAIN buffer' :
            1..(buffer'[i] - 1) \subseteq Has' \cup {buffer'[j] : j \in 1..(i - 1)}
    BY <1>1, <1>2, <2>1 DEF StreamWhole
  <2>3. stream' \in {"starting", "live"} => 1..(next' - 1) \subseteq Has' \cup Elements(buffer')
    BY <1>1, <1>2, <1>4, <2>1 DEF StreamWhole
  <2> QED
    BY <2>2, <2>3 DEF StreamWhole
<1> QED
  BY <1>3, <1>5

\* An event joins the buffer or fails the stream; it is missed by one that starts.
LEMMA FencePublish ==
    ASSUME TypeInv, FenceInv, Publish, Served', snap'.at # "asked"
    PROVE  FenceHad' /\ StreamWhole' /\ EarlyAreOld'
<1>1. /\ UNCHANGED <<snap, subscribed, requests, seq, pending, replay>> /\ given' = given
      /\ next' = next + 1 /\ next \in 1..log /\ Offered(next) /\ buffer \in Seq(1..log)
  BY DEF Publish, router, TypeInv, CursorsOK, LinkOK
<1>2. Served
  BY <1>1 DEF Served, Offered
<1>3. FenceHad /\ StreamWhole /\ EarlyAreOld
  BY <1>1, <1>2 DEF FenceInv
<1>4. FenceHad' /\ EarlyAreOld' /\ Has \subseteq Has'
  <2>1. missed \subseteq missed'
    BY DEF Publish
  <2>2. Has \subseteq Has'
    BY <1>1, <2>1 DEF Has
  <2> QED
    BY <1>1, <1>3, <2>2 DEF FenceHad, EarlyAreOld
<1>5. StreamWhole'
  <2>1. CASE stream' \notin {"starting", "live"} /\ buffer' = buffer
    BY <1>3, <1>4, <2>1 DEF StreamWhole
  <2>3. CASE stream = "starting" /\ stream' = stream /\ buffer' = buffer
    <3>1. next \in Has'
      <4>1. snap.rows \in Nat /\ (snap.at = "done" => snap.rows = 0)
            /\ snap.at \in {"ready", "done"}
        BY <1>1 DEF TypeInv, LinkOK, SnapshotOK, SnapshotItem
      <4>2. CASE Missed(next)
        BY <4>2 DEF Publish, Has
      <4>3. CASE ~Missed(next)
        <5>1. next \in 1..snap.rows
          BY <1>1, <2>3, <4>1, <4>3 DEF Missed, TypeInv, CursorsOK
        <5>2. snap'.at = "ready" /\ snap' = snap
          BY <1>1, <4>1, <5>1
        <5> QED
          BY <5>1, <5>2 DEF Has
      <4> QED
        BY <4>2, <4>3
    <3>2. 1..(next - 1) \subseteq Has \cup Elements(buffer) /\ Elements(buffer') = Elements(buffer)
      BY <1>3, <2>3 DEF StreamWhole
    <3>3. 1..(next' - 1) = (1..(next - 1)) \cup {next}
      BY <1>1 DEF TypeInv, CursorsOK
    <3>4. 1..(next' - 1) \subseteq Has' \cup Elements(buffer')
      BY <1>4, <3>1, <3>2, <3>3
    <3>5. \A i \in DOMAIN buffer' :
              1..(buffer'[i] - 1) \subseteq Has' \cup {buffer'[j] : j \in 1..(i - 1)}
      BY <1>3, <1>4, <2>3 DEF StreamWhole
    <3> QED
      BY <3>4, <3>5 DEF StreamWhole
  <2>2. CASE stream = "live" /\ buffer' = Append(buffer, next) /\ stream' = stream
    <3>1. /\ Len(buffer) \in Nat /\ DOMAIN buffer = 1..Len(buffer)
          /\ DOMAIN buffer' = 1..(Len(buffer) + 1)
          /\ \A i \in 1..Len(buffer) : buffer'[i] = buffer[i]
          /\ buffer'[Len(buffer) + 1] = next
          /\ Elements(buffer') = Elements(buffer) \cup {next}
      <4> DEFINE t == Append(buffer, next)
      <4>1. /\ Len(buffer) \in Nat /\ DOMAIN buffer = 1..Len(buffer)
            /\ DOMAIN t = 1..(Len(buffer) + 1)
            /\ \A i \in 1..Len(buffer) : t[i] = buffer[i]
            /\ t[Len(buffer) + 1] = next
            /\ Elements(t) = Elements(buffer) \cup {next}
        <5>1. next \in 1..log /\ buffer \in Seq(1..log)
          BY <1>1
        <5>2. /\ Len(buffer) \in Nat /\ DOMAIN buffer = 1..Len(buffer)
              /\ DOMAIN t = 1..(Len(buffer) + 1)
          BY <5>1, AppendFacts
        <5>3. \A i \in 1..Len(buffer) : t[i] = buffer[i]
          BY <5>1, AppendProperties
        <5>4. t[Len(buffer) + 1] = next
          BY <5>1, AppendFacts
        <5>5. Elements(t) = Elements(buffer) \cup {next}
          <6> HIDE DEF t
          <6>1. Elements(t) = {t[i] : i \in 1..(Len(buffer) + 1)}
            BY <5>2 DEF Elements
          <6>2. Elements(buffer) = {buffer[i] : i \in 1..Len(buffer)}
            BY <5>2 DEF Elements
          <6> QED
            BY <5>2, <5>3, <5>4, <6>1, <6>2
        <5> QED
          BY <5>2, <5>3, <5>4, <5>5
      <4>2. buffer' = t
        BY <2>2
      <4> HIDE DEF t
      <4>3. Elements(buffer') = Elements(t)
        BY <4>2 DEF Elements
      <4> QED
        BY <4>1, <4>2, <4>3
    <3>2. 1..(next - 1) \subseteq Has \cup Elements(buffer)
      BY <1>3, <2>2 DEF StreamWhole
    <3>3. ASSUME NEW i \in DOMAIN buffer'
          PROVE  1..(buffer'[i] - 1) \subseteq Has' \cup {buffer'[j] : j \in 1..(i - 1)}
      <4>1. CASE i = Len(buffer) + 1
        <5>1. {buffer'[j] : j \in 1..(i - 1)} = Elements(buffer)
          <6>1. 1..(i - 1) = DOMAIN buffer /\ \A j \in DOMAIN buffer : buffer'[j] = buffer[j]
            BY <3>1, <4>1
          <6> QED
            BY <6>1 DEF Elements
        <5> QED
          BY <1>4, <3>1, <3>2, <4>1, <5>1
      <4>2. CASE i # Len(buffer) + 1
        <5>1. i \in 1..Len(buffer) /\ buffer'[i] = buffer[i]
          BY <3>1, <3>3, <4>2
        <5>2. {buffer'[j] : j \in 1..(i - 1)} = {buffer[j] : j \in 1..(i - 1)}
          BY <3>1, <5>1
        <5>3. 1..(buffer[i] - 1) \subseteq Has \cup {buffer[j] : j \in 1..(i - 1)}
          BY <1>3, <3>1, <5>1 DEF StreamWhole
        <5> QED
          BY <1>4, <5>1, <5>2, <5>3
      <4> QED
        BY <4>1, <4>2
    <3>4. 1..(next' - 1) \subseteq Has' \cup Elements(buffer')
      <4>1. 1..(next' - 1) = (1..(next - 1)) \cup {next}
        BY <1>1 DEF TypeInv, CursorsOK
      <4> QED
        BY <1>4, <3>1, <3>2, <4>1
    <3> QED
      BY <3>3, <3>4 DEF StreamWhole
  <2> QED
    <3>1. stream \in {"off", "starting", "live", "failed", "retry"}
      BY DEF TypeInv, LinkOK
    <3> QED
      BY <1>1, <2>1, <2>2, <2>3, <3>1 DEF Offered
<1> QED
  BY <1>4, <1>5

\* A snapshot is read: it has every event there is.
LEMMA FenceReadSnapshot ==
    ASSUME TypeInv, FenceInv, ReadSnapshot, Served', snap'.at # "asked"
    PROVE  FenceHad' /\ StreamWhole' /\ EarlyAreOld'
<1>1. /\ UNCHANGED <<log, next, stream, buffer, missed, subscribed, requests, seq, pending,
                     replay>>
      /\ given' = given
      /\ log \in Nat /\ next \in 1..(log + 1)
      /\ buffer \in Seq(1..log) /\ pending \in Seq(1..log)
      /\ seq \in (0..log) \cup {None} /\ replay \in (0..log) \cup {None}
  BY DEF ReadSnapshot, server, router, TypeInv, CursorsOK, LinkOK, RouterOK
<1>2. 1..log \subseteq Has' /\ (snap'.at = "ready" => snap'.rows = log)
  <2>1. CASE log > 0
    <3>1. snap' = [at |-> "ready", seq |-> Fence, rows |-> log]
      BY <2>1 DEF ReadSnapshot
    <3>2. snap'.at = "ready" /\ snap'.rows = log
      BY <3>1
    <3> QED
      BY <3>2 DEF Has
  <2>2. CASE ~(log > 0)
    <3>1. snap' = NoSnapshot /\ 1..log = {}
      BY <1>1, <2>2 DEF ReadSnapshot
    <3> QED
      BY <3>1 DEF NoSnapshot
  <2> QED
    BY <2>1, <2>2
<1>3. FenceHad'
  BY <1>1, <1>2 DEF FenceHad
<1>4. EarlyAreOld'
  BY <1>1, <1>2, ElementsOf DEF EarlyAreOld
<1>5. StreamWhole'
  <2>1. ASSUME NEW i \in DOMAIN buffer PROVE 1..(buffer[i] - 1) \subseteq Has'
    <3>1. buffer[i] \in 1..log
      BY <1>1, ElementOfSeq, LenProperties
    <3> QED
      BY <1>1, <1>2, <3>1
  <2>2. 1..(next - 1) \subseteq Has'
    BY <1>1, <1>2
  <2> QED
    BY <1>1, <2>1, <2>2 DEF StreamWhole
<1> QED
  BY <1>3, <1>4, <1>5

\* The snapshot is delivered: the store has its rows, and the early events are older.
LEMMA FenceDeliverSnapshot ==
    ASSUME TypeInv, FenceInv, DeliverSnapshot, Served', snap'.at # "asked"
    PROVE  FenceHad' /\ StreamWhole' /\ EarlyAreOld'
<1>1. /\ UNCHANGED <<log, next, stream, buffer, missed, subscribed, requests, replay>>
      /\ snap.at = "ready" /\ snap' = NoSnapshot /\ pending' = <<>>
      /\ seq' = IF Late = <<>> THEN snap.seq ELSE Late[Len(Late)]
      /\ given' = given \cup (1..snap.rows) \cup Elements(Late)
  BY DEF DeliverSnapshot, server
<1>2. FenceHad /\ StreamWhole /\ EarlyAreOld
  BY <1>1 DEF FenceInv, Served
<1>3. Has \subseteq Has' /\ 1..snap.rows \subseteq Has'
  BY <1>1 DEF Has
<1>4. StreamWhole'
  BY <1>1, <1>2, <1>3 DEF StreamWhole
<1>5. EarlyAreOld'
  BY <1>1 DEF EarlyAreOld, NoSnapshot
<1>6. FenceHad'
  <2>1. /\ snap.rows \in Nat /\ snap.seq \in Nat /\ snap.seq <= snap.rows
        /\ snap.seq # None
    BY <1>1 DEF TypeInv, SnapshotOK, LinkOK, SnapshotItem
  <2>2. seq' \in 0..snap.rows
    BY <1>1, <1>2, <2>1, LateFacts DEF EarlyAreOld
  <2>3. seq' # None /\ 1..seq' \subseteq 1..snap.rows
    BY <2>1, <2>2
  <2> QED
    BY <1>3, <2>3 DEF FenceHad
<1> QED
  BY <1>4, <1>5, <1>6

\* An event is delivered behind a fence: it was had, or everything before it was.
LEMMA FenceDeliver ==
    ASSUME TypeInv, FenceInv, NEW e, DeliverKnown(e) \/ DeliverNew(e), Served',
           snap'.at # "asked"
    PROVE  FenceHad' /\ StreamWhole' /\ EarlyAreOld'
<1>1. /\ UNCHANGED <<log, next, stream, snap, missed, subscribed, requests, pending, replay>>
      /\ buffer # <<>> /\ e = Head(buffer) /\ buffer' = Tail(buffer) /\ seq # None
      /\ buffer \in Seq(1..log) /\ seq \in Nat /\ log \in Nat
      /\ given \subseteq given'
  <2>1. /\ UNCHANGED <<log, next, stream, snap, missed, subscribed, requests, pending, replay>>
        /\ buffer # <<>> /\ e = Head(buffer) /\ buffer' = Tail(buffer) /\ seq # None
        /\ given \subseteq given'
    BY DEF DeliverKnown, DeliverNew, Arrives, server
  <2>2. buffer \in Seq(1..log) /\ log \in Nat /\ seq \in (0..log) \cup {None}
    BY DEF TypeInv, LinkOK, RouterOK, CursorsOK
  <2> QED
    BY <2>1, <2>2
<1>2. FenceHad /\ StreamWhole /\ EarlyAreOld
  BY <1>1 DEF FenceInv, Served
<1>3. /\ Len(buffer) \in Nat /\ Len(buffer) # 0 /\ DOMAIN buffer = 1..Len(buffer)
      /\ e = buffer[1] /\ e \in 1..log
      /\ DOMAIN buffer' = 1..(Len(buffer) - 1)
      /\ \A i \in 1..(Len(buffer) - 1) : buffer'[i] = buffer[i + 1]
  BY <1>1, TailFacts
<1>4. Has \subseteq Has' /\ e \in Has'
  <2>1. Has \subseteq Has'
    BY <1>1 DEF Has
  <2>2. CASE DeliverKnown(e)
    <3>1. e \in 1..seq
      BY <1>1, <1>3, <2>2 DEF DeliverKnown, TypeInv, CursorsOK
    <3> QED
      BY <1>1, <1>2, <2>1, <3>1 DEF FenceHad
  <2>3. CASE DeliverNew(e)
    BY <2>1, <2>3 DEF DeliverNew, Has
  <2> QED
    BY <2>1, <2>2, <2>3
<1>5. FenceHad'
  <2>1. CASE DeliverKnown(e)
    BY <1>1, <1>2, <1>4, <2>1 DEF DeliverKnown, FenceHad
  <2>2. CASE DeliverNew(e)
    <3>1. seq' = e /\ e # None
      BY <1>1, <1>3, <2>2 DEF DeliverNew
    <3>2. 1 \in DOMAIN buffer /\ 1..(1 - 1) = {}
      BY <1>3
    <3>3. 1..(buffer[1] - 1) \subseteq Has \cup {buffer[j] : j \in 1..(1 - 1)}
      BY <1>2, <3>2, Zenon DEF StreamWhole
    <3>5. 1..(e - 1) \subseteq Has
      BY <1>3, <3>2, <3>3
    <3>4. 1..e = (1..(e - 1)) \cup {e}
      BY <1>3 DEF TypeInv, CursorsOK
    <3> QED
      BY <1>4, <3>1, <3>5, <3>4 DEF FenceHad
  <2> QED
    BY <2>1, <2>2
<1>6. EarlyAreOld'
  BY <1>1, <1>2 DEF EarlyAreOld
<1>7. StreamWhole'
  <2>1. ASSUME NEW i \in DOMAIN buffer'
        PROVE  1..(buffer'[i] - 1) \subseteq Has' \cup {buffer'[j] : j \in 1..(i - 1)}
    <3>1. i \in 1..(Len(buffer) - 1) /\ i + 1 \in DOMAIN buffer /\ buffer'[i] = buffer[i + 1]
      BY <1>3, <2>1
    <3>2. 1..(buffer[i + 1] - 1) \subseteq Has \cup {buffer[j] : j \in 1..((i + 1) - 1)}
      BY <1>2, <3>1 DEF StreamWhole
    <3>3. ASSUME NEW j \in 1..((i + 1) - 1)
          PROVE  buffer[j] \in Has' \cup {buffer'[m] : m \in 1..(i - 1)}
      <4>1. CASE j = 1
        BY <1>3, <1>4, <4>1
      <4>2. CASE j # 1
        <5>1. j - 1 \in 1..(i - 1) /\ j - 1 \in 1..(Len(buffer) - 1) /\ (j - 1) + 1 = j
          BY <3>1, <3>3, <4>2
        <5>2. buffer'[j - 1] = buffer[j]
          BY <1>3, <5>1
        <5> QED
          BY <5>1, <5>2
      <4> QED
        BY <4>1, <4>2
    <3>4. {buffer[j] : j \in 1..((i + 1) - 1)} \subseteq Has' \cup {buffer'[m] : m \in 1..(i - 1)}
      BY <3>3
    <3> QED
      BY <1>4, <3>1, <3>2, <3>4
  <2>2. Elements(buffer) \subseteq Has' \cup Elements(buffer')
    <3> SUFFICES ASSUME NEW j \in 1..Len(buffer)
                 PROVE  buffer[j] \in Has' \cup Elements(buffer')
      BY <1>3 DEF Elements
    <3>1. CASE j = 1
      BY <1>3, <1>4, <3>1
    <3>2. CASE j # 1
      <4>1. j - 1 \in 1..(Len(buffer) - 1) /\ (j - 1) + 1 = j
        BY <1>3, <3>2
      <4>2. buffer'[j - 1] = buffer[j] /\ j - 1 \in DOMAIN buffer'
        BY <1>3, <4>1
      <4> QED
        BY <4>2 DEF Elements
    <3> QED
      BY <3>1, <3>2
  <2>3. stream' \in {"starting", "live"} => 1..(next' - 1) \subseteq Has' \cup Elements(buffer')
    BY <1>1, <1>2, <1>4, <2>2 DEF StreamWhole
  <2> QED
    BY <2>1, <2>3 DEF StreamWhole
<1> QED
  BY <1>5, <1>6, <1>7

\* The stream is subscribed: it misses no more.
LEMMA FenceSubscribe ==
    ASSUME TypeInv, FenceInv, Subscribe, Served', snap'.at # "asked"
    PROVE  FenceHad' /\ StreamWhole' /\ EarlyAreOld'
<1>1. /\ UNCHANGED <<next, buffer, snap, missed, subscribed, requests, seq, pending, replay>>
      /\ given' = given /\ stream = "starting"
  BY DEF Subscribe, server, router
<1>2. FenceHad /\ StreamWhole /\ EarlyAreOld
  BY <1>1 DEF FenceInv, Served
<1>3. Has' = Has
  BY <1>1 DEF Has
<1> QED
  BY <1>1, <1>2, <1>3 DEF FenceHad, StreamWhole, EarlyAreOld, Elements

\* A replay takes up at the fence, and without one at where it was asked from.
LEMMA FenceReplay ==
    ASSUME TypeInv, FenceInv, Served', snap'.at # "asked",
           AskReplay \/ ReplayFails \/ \E n \in 0..MaxEvents : ReceiveReplay(n)
    PROVE  FenceHad' /\ StreamWhole' /\ EarlyAreOld'
<1>1. /\ UNCHANGED <<log, next, stream, buffer, snap, missed, subscribed, requests, pending>>
      /\ given \subseteq given'
  BY DEF AskReplay, ReplayFails, ReceiveReplay, server, link
<1>2. FenceHad /\ StreamWhole /\ EarlyAreOld
  BY <1>1 DEF FenceInv, Served
<1>3. Has \subseteq Has'
  BY <1>1 DEF Has
<1>4. StreamWhole' /\ EarlyAreOld'
  BY <1>1, <1>2, <1>3 DEF StreamWhole, EarlyAreOld
<1>5. FenceHad'
  <2>1. CASE AskReplay \/ ReplayFails
    BY <1>2, <1>3, <2>1 DEF AskReplay, ReplayFails, FenceHad
  <2>2. ASSUME NEW n \in 0..MaxEvents, ReceiveReplay(n)
        PROVE  FenceHad'
    <3> DEFINE from == IF seq = None THEN replay ELSE seq
    <3>1. from \in Nat /\ 1..from \subseteq Has
      BY <1>2, <2>2 DEF ReceiveReplay, FenceHad, TypeInv, RouterOK, CursorsOK
    <3>2. /\ given' = given \cup (from + 1..n) /\ replay' = None
          /\ seq' = IF from + 1..n = {} THEN seq ELSE n
      BY <2>2 DEF ReceiveReplay, Replayed
    <3>3. from + 1..n \subseteq Has'
      BY <3>2 DEF Has
    <3>4. CASE from + 1..n = {}
      BY <1>2, <1>3, <3>2, <3>4 DEF FenceHad
    <3>5. CASE from + 1..n # {}
      <4>1. 1..n \subseteq (1..from) \cup (from + 1..n)
        BY <3>1
      <4> QED
        BY <1>3, <3>1, <3>2, <3>3, <3>5, <4>1 DEF FenceHad
    <3> QED
      BY <3>4, <3>5
  <2> QED
    BY <2>1, <2>2
<1> QED
  BY <1>4, <1>5

LEMMA FenceNext == FenceInv /\ [Next]_vars => FenceInv'
<1> SUFFICES ASSUME FenceInv, [Next]_vars PROVE FenceInv'
  OBVIOUS
<1>a. TypeInv /\ TypeInv'
  BY TypeNext DEF FenceInv
<1> SUFFICES ASSUME Served', snap'.at # "asked"
             PROVE  FenceHad' /\ StreamWhole' /\ EarlyAreOld'
  BY <1>a DEF FenceInv
<1>b. next \in Int /\ next' \in Int /\ next <= log + 1 /\ log \in Int
  BY <1>a DEF TypeInv, CursorsOK
<1>1. CASE Engine
  <2>1. ASSUME NEW n \in 1..MaxBatch, Commit(n)
        PROVE  UNCHANGED <<link, router, given>> /\ next' <= next
    BY <1>b, <2>1 DEF Commit
  <2>2. CASE ProjectDeferred \/ DeferToCatchUp \/ CatchUp
    BY <1>a, <1>b, <2>2, FenceKept DEF ProjectDeferred, DeferToCatchUp, CatchUp
  <2>3. ASSUME NEW k \in 1..MaxEvents, Reconcile(k)
        PROVE  UNCHANGED <<link, router, given>> /\ next' <= next
    BY <1>b, <2>3 DEF Reconcile
  <2> QED
    BY <1>1, <1>a, <1>b, <2>1, <2>2, <2>3, FenceKept, FencePublish DEF Engine
<1>2. CASE Transport
  <2>1. CASE ReadSnapshot
    BY <1>a, <2>1, FenceReadSnapshot
  <2>2. CASE Drop \/ NoticeFailure \/ StopStream \/ \E r \in requests : RequestFails(r)
    BY <2>2 DEF Drop, NoticeFailure, StopStream, RequestFails, Served, link
  <2>3. CASE Reconnect \/ \E r \in requests : StartStream(r)
    BY <2>3 DEF Reconnect, StartStream, Restarted, SnapshotDue
  <2>4. CASE Subscribe
    BY <1>a, <2>4, FenceSubscribe
  <2> QED
    BY <1>2, <2>1, <2>2, <2>3, <2>4 DEF Transport
<1>3. CASE Router
  <2>1. CASE Navigate
    BY <1>a, <1>b, <2>1, FenceKept DEF Navigate, server
  <2>2. CASE Enter \/ Leave \/ Welcome \/ AskSnapshot
    BY <2>2 DEF Enter, Leave, Welcome, AskSnapshot, Served
  <2>3. CASE \E e \in Elements(buffer) : DeliverEarly(e)
    BY <2>3 DEF DeliverEarly, Arrives, Served
  <2>4. CASE \E e \in Elements(buffer) : DeliverKnown(e) \/ DeliverNew(e)
    BY <1>a, <2>4, FenceDeliver
  <2>5. CASE DeliverSnapshot
    BY <1>a, <2>5, FenceDeliverSnapshot
  <2>6. CASE AskReplay \/ ReplayFails \/ \E n \in 0..MaxEvents : ReceiveReplay(n)
    BY <1>a, <2>6, FenceReplay
  <2> QED
    BY <1>3, <2>1, <2>2, <2>3, <2>4, <2>5, <2>6 DEF Router
<1>4. CASE UNCHANGED vars
  BY <1>a, <1>b, <1>4, FenceKept DEF vars, server
<1> QED
  BY <1>1, <1>2, <1>3, <1>4 DEF Next

\* Once a subscription has settled, the store has every event up to the fence but
\* those published between the read of the snapshot and the subscription of the
\* stream, whatever the buffers lost and however often the stream was restarted.
THEOREM FenceHidesNothing == Spec => []FenceCovered
<1>1. FenceInv => FenceCovered
  BY DEF FenceInv, FenceCovered, Settled, Served, FenceHad, Has
<1> QED
  BY <1>1, FenceInit, FenceNext, PTL DEF Spec
==============================================================================
