--------------------------- MODULE ThreadDetailSync ---------------------------
(***************************************************************************)
(* How one client follows one thread: the server's subscribeThread         *)
(* (apps/server/src/wsRpc.ts), a snapshot merged with the buffered live    *)
(* stream of the engine; the transport that restarts it                    *)
(* (apps/web/src/wsTransport.ts); and the event router of the web client   *)
(* (apps/web/src/routes/__root.tsx), which fences events by a sequence     *)
(* and hands them to the store (apps/web/src/store.ts).                    *)
(*                                                                         *)
(* An event is its sequence number.  Every event is a streamed delta of    *)
(* one assistant message, so the text of the message is a sequence of      *)
(* events.  Events of other threads are filtered out before the buffer.    *)
(* A message on its way to the client is still in the buffer.              *)
(*                                                                         *)
(* Two variables are not in the code and only properties read them: given, *)
(* the events that have reached the store, as a row of a snapshot or one   *)
(* by one; and missed, those the stream will not deliver because they were *)
(* published after its snapshot was read and before it was subscribed.     *)
(***************************************************************************)
EXTENDS Integers, Sequences, Filtering

CONSTANTS
    None,           \* no fence: threadSnapshotSequenceById has no entry
    Capacity,       \* DEFAULT_LIVE_UI_STREAM_BUFFER_CAPACITY
    PendingLimit,   \* PENDING_THREAD_EVENT_BUFFER_LIMIT
    MaxEvents,      \* bound: events of the thread
    MaxBatch,       \* bound: events of one command
    MaxUpsets       \* bound: failures, lost connections, navigations, snapshot polls

ASSUME SyncConstants ==
    /\ {Capacity, PendingLimit, MaxBatch} \subseteq Nat \ {0}
    /\ {MaxEvents, MaxUpsets} \subseteq Nat
    /\ None \notin Nat

VARIABLES
    \* the server
    log,            \* the hot cursor: events committed with their rows
    shell,          \* the cursor of the thread shell summaries
    deferred,       \* the deferred projection of the last command was tried
    dirty,          \* deferredProjectionDirty
    next,           \* the event the engine publishes next; above log: none
    \* the subscription
    stream,         \* "off", "starting" until it is subscribed, "live", "failed" on
                    \* the server, "retry" in the client
    buffer,         \* events of the live stream that have not been delivered
    snap,           \* the snapshot item of the stream
    missed,
    \* the client
    visible,        \* the route shows the thread
    subscribed,     \* subscribedThreadIds has it
    requests,       \* calls of the transport that wait for a session
    welcome,        \* the server's welcome is on its way
    seq,            \* threadSnapshotSequenceById
    pending,        \* pendingThreadEventsById
    replay,         \* the sequence an open call of replayEvents asked from
    given,
    \* what happened of the bounded
    upsets

server == <<log, shell, deferred, dirty, next>>
link   == <<stream, buffer, snap, missed>>
router == <<subscribed, requests, welcome, seq, pending, replay>>
vars   == <<server, link, router, given, visible, upsets>>

------------------------------------------------------------------------------
\* Operators

Least(a, b) == IF a <= b THEN a ELSE b
Elements(s) == {s[i] : i \in DOMAIN s}

\* toSorted, over what passes the fence
Sorted(S) == Filtered(UpTo(MaxEvents), S)

NoSnapshot   == [at |-> "done", seq |-> 0, rows |-> 0]
SnapshotDue  == [at |-> "asked", seq |-> 0, rows |-> 0]

\* The snapshot sequence: the least of the hot and the shell cursor.
Fence == Least(log, shell)

\* Mutant of Offered: the buffer slides and nobody is told.
OfferedSliding(e) ==
    /\ UNCHANGED stream
    /\ buffer' = IF stream # "live" THEN buffer
                 ELSE IF Len(buffer) >= Capacity THEN Append(Tail(buffer), e)
                 ELSE Append(buffer, e)

\* The live stream offers an event to the buffer of the subscription.  More
\* than Capacity of them fail it, before one is lost.
Offered(e) ==
    IF stream # "live" THEN UNCHANGED <<stream, buffer>>
    ELSE IF Len(buffer) >= Capacity
         THEN stream' = "failed" /\ UNCHANGED buffer
         ELSE buffer' = Append(buffer, e) /\ UNCHANGED stream

\* A fresh stream: a snapshot to be read and live events to be subscribed to, by two
\* fibers that nothing puts in order (Stream.merge).
Restarted ==
    /\ stream' = "starting"
    /\ buffer' = <<>>
    /\ snap' = SnapshotDue
    /\ missed' = {}

\* Too late for the snapshot, too early for the subscription.
Missed(e) == stream = "starting" /\ snap.at # "asked" /\ e > snap.rows

\* Mutant of Bounded: one more than the limit.
BoundedLate(s, e) ==
    Append(IF Len(s) > PendingLimit THEN Tail(s) ELSE s, e)

\* appendBounded
Bounded(s, e) ==
    Append(IF Len(s) >= PendingLimit THEN Tail(s) ELSE s, e)

------------------------------------------------------------------------------
\* The engine

\* One command: rows and hot cursor in one transaction.
Commit(n) ==
    /\ next > log
    /\ log + n <= MaxEvents
    /\ log' = log + n
    /\ next' = log + 1
    /\ deferred' = FALSE
    /\ UNCHANGED <<shell, dirty, link, router, given, visible, upsets>>

ProjectDeferred ==
    /\ ~deferred
    /\ ~dirty
    /\ deferred' = TRUE
    /\ shell' = log
    /\ UNCHANGED <<log, dirty, next, link, router, given, visible, upsets>>

\* The deferred projection fails, or is left to the catch-up since one did.
DeferToCatchUp ==
    /\ ~deferred
    /\ deferred' = TRUE
    /\ dirty' = TRUE
    /\ IF dirty THEN UNCHANGED upsets ELSE upsets < MaxUpsets /\ upsets' = upsets + 1
    /\ UNCHANGED <<log, shell, next, link, router, given, visible>>

CatchUp ==
    /\ dirty
    /\ dirty' = FALSE
    /\ shell' = log
    /\ UNCHANGED <<log, deferred, next, link, router, given, visible, upsets>>

Publish ==
    /\ deferred
    /\ next <= log
    /\ next' = next + 1
    /\ Offered(next)
    /\ missed' = IF Missed(next) THEN missed \cup {next} ELSE missed
    /\ UNCHANGED <<log, shell, deferred, dirty, snap, router, given, visible, upsets>>

\* A command that times out after its commit skips the rest; the events after
\* some earlier sequence are published, again or for the first time.
Reconcile(k) ==
    /\ upsets < MaxUpsets
    /\ k <= next
    /\ next' = k
    /\ deferred' = TRUE
    /\ upsets' = upsets + 1
    /\ UNCHANGED <<log, shell, dirty, link, router, given, visible>>

------------------------------------------------------------------------------
\* The server's side of a stream

\* getThreadDetailSnapshotById: fence and rows in one transaction, nothing for
\* a thread that does not exist.
ReadSnapshot ==
    /\ stream \in {"starting", "live"}
    /\ snap.at = "asked"
    /\ snap' = IF log > 0 THEN [at |-> "ready", seq |-> Fence, rows |-> log] ELSE NoSnapshot
    /\ UNCHANGED <<server, stream, buffer, missed, router, given, visible, upsets>>

\* streamDomainEvents: the fiber that fills the buffer subscribes to the engine.
Subscribe ==
    /\ stream = "starting"
    /\ stream' = "live"
    /\ UNCHANGED <<server, buffer, snap, missed, router, given, visible, upsets>>

\* The connection is lost, with everything on it.
Drop ==
    /\ upsets < MaxUpsets
    /\ stream \in {"starting", "live", "failed"}
    /\ stream' = "retry"
    /\ buffer' = <<>>
    /\ snap' = NoSnapshot
    /\ upsets' = upsets + 1
    /\ UNCHANGED <<server, missed, router, given, visible>>

\* What was in the buffer of a failed stream comes before the failure.
NoticeFailure ==
    /\ stream = "failed"
    /\ buffer = <<>>
    /\ stream' = "retry"
    /\ snap' = NoSnapshot
    /\ UNCHANGED <<server, buffer, missed, router, given, visible, upsets>>

------------------------------------------------------------------------------
\* The transport

\* reconnect and the restarts it leads to; the new session's lifecycle stream
\* brings a welcome.
Reconnect ==
    /\ stream = "retry"
    /\ Restarted
    /\ welcome' = TRUE
    /\ UNCHANGED <<server, subscribed, requests, seq, pending, replay, given, visible, upsets>>

\* Mutant of StartStream: a stream that runs is kept.
StartStreamOnce(r) ==
    /\ r \in requests \ {"unsubscribe"}
    /\ requests' = requests \ {r}
    /\ IF stream \in {"starting", "live"} THEN UNCHANGED link ELSE Restarted
    /\ UNCHANGED <<server, subscribed, welcome, seq, pending, replay, given, visible, upsets>>

\* subscribeThread, asked for by a subscription or by requestThreadSnapshot
StartStream(r) ==
    /\ r \in requests \ {"unsubscribe"}
    /\ requests' = requests \ {r}
    /\ Restarted
    /\ UNCHANGED <<server, subscribed, welcome, seq, pending, replay, given, visible, upsets>>

\* No session: the caller ignores it.
RequestFails(r) ==
    /\ stream = "retry"
    /\ r \in requests
    /\ requests' = requests \ {r}
    /\ UNCHANGED <<server, link, subscribed, welcome, seq, pending, replay, given, visible, upsets>>

StopStream ==
    /\ "unsubscribe" \in requests
    /\ requests' = requests \ {"unsubscribe"}
    /\ IF stream = "retry" THEN UNCHANGED <<stream, buffer, snap>>
       ELSE stream' = "off" /\ buffer' = <<>> /\ snap' = NoSnapshot
    /\ UNCHANGED <<server, missed, subscribed, welcome, seq, pending, replay, given, visible, upsets>>

------------------------------------------------------------------------------
\* Subscriptions of the router

Navigate ==
    /\ upsets < MaxUpsets
    /\ upsets' = upsets + 1
    /\ visible' = ~visible
    /\ UNCHANGED <<server, link, router, given>>

\* Reconciliations run one after the other.
Reconciled == requests \cap {"subscribe", "unsubscribe"} = {}

\* reconcileThreadSubscriptions, an addition: beginThreadSubscription
Enter ==
    /\ visible
    /\ ~subscribed
    /\ Reconciled
    /\ subscribed' = TRUE
    /\ seq' = None
    /\ pending' = <<>>
    /\ requests' = requests \cup {"subscribe"}
    /\ UNCHANGED <<server, link, welcome, replay, given, visible, upsets>>

\* reconcileThreadSubscriptions, a removal
Leave ==
    /\ ~visible
    /\ subscribed
    /\ Reconciled
    /\ subscribed' = FALSE
    /\ seq' = None
    /\ pending' = <<>>
    /\ requests' = requests \cup {"unsubscribe"}
    /\ UNCHANGED <<server, link, welcome, replay, given, visible, upsets>>

\* ensureScopedSubscriptions: everything is forgotten, and subscribed anew.
Welcome ==
    /\ welcome
    /\ welcome' = FALSE
    /\ subscribed' = FALSE
    /\ seq' = None
    /\ pending' = <<>>
    /\ UNCHANGED <<server, link, requests, replay, given, visible, upsets>>

------------------------------------------------------------------------------
\* Items of the stream

\* flushThreadBuffer: the early events beyond the snapshot
Late == Sorted({e \in Elements(pending) : e > snap.seq})

\* The snapshot sets the fence, whatever it was.
DeliverSnapshot ==
    /\ stream \in {"starting", "live", "failed"}
    /\ snap.at = "ready"
    /\ snap' = NoSnapshot
    /\ seq' = IF Late = <<>> THEN snap.seq ELSE Late[Len(Late)]
    /\ pending' = <<>>
    /\ given' = given \cup (1..snap.rows) \cup Elements(Late)
    /\ UNCHANGED <<server, stream, buffer, missed, subscribed, requests, welcome, replay, visible, upsets>>

Arrives(e) ==
    /\ stream \in {"live", "failed"}
    /\ buffer # <<>>
    /\ e = Head(buffer)
    /\ buffer' = Tail(buffer)
    /\ UNCHANGED <<server, stream, snap, missed, subscribed, welcome, replay, visible, upsets>>

\* Without a fence the event waits for a snapshot, which is asked for again.
DeliverEarly(e) ==
    /\ Arrives(e)
    /\ seq = None
    /\ pending' = Bounded(pending, e)
    /\ requests' = IF subscribed THEN requests \cup {"snapshot"} ELSE requests
    /\ UNCHANGED <<seq, given>>

DeliverKnown(e) ==
    /\ Arrives(e)
    /\ seq # None
    /\ e <= seq
    /\ UNCHANGED <<requests, seq, pending, given>>

DeliverNew(e) ==
    /\ Arrives(e)
    /\ seq # None
    /\ e > seq
    /\ seq' = e
    /\ given' = given \cup {e}
    /\ UNCHANGED <<requests, pending>>

\* requestThreadSnapshot, by the poll or by a shell event
AskSnapshot ==
    /\ upsets < MaxUpsets
    /\ subscribed
    /\ seq = None
    /\ "snapshot" \notin requests
    /\ requests' = requests \cup {"snapshot"}
    /\ upsets' = upsets + 1
    /\ UNCHANGED <<server, link, subscribed, welcome, seq, pending, replay, given, visible>>

------------------------------------------------------------------------------
\* replayThreadEvents, by the poll or by a shell event; one call at a time

AskReplay ==
    /\ seq # None
    /\ replay = None
    /\ replay' = seq
    /\ UNCHANGED <<server, link, subscribed, requests, welcome, seq, pending, given, visible, upsets>>

ReplayFails ==
    /\ replay # None
    /\ replay' = None
    /\ UNCHANGED <<server, link, subscribed, requests, welcome, seq, pending, given, visible, upsets>>

\* The events from where the call began to its target, or to the end of one
\* read: an event n of the log.  Whatever happened to the fence since, only what
\* is beyond it is taken.
Replayed(n) == (IF seq = None THEN replay ELSE seq) + 1 .. n

ReceiveReplay(n) ==
    /\ replay # None
    /\ n \in replay..log
    /\ replay' = None
    /\ seq' = IF Replayed(n) = {} THEN seq ELSE n
    /\ given' = given \cup Replayed(n)
    /\ UNCHANGED <<server, link, subscribed, requests, welcome, pending, visible, upsets>>

------------------------------------------------------------------------------
Init ==
    /\ log = 0 /\ shell = 0 /\ deferred = TRUE /\ dirty = FALSE /\ next = 1
    /\ stream = "off" /\ buffer = <<>> /\ snap = NoSnapshot /\ missed = {}
    /\ visible = TRUE /\ subscribed = FALSE /\ requests = {} /\ welcome = TRUE
    /\ seq = None /\ pending = <<>> /\ replay = None
    /\ given = {}
    /\ upsets = 0

Engine ==
    \/ \E n \in 1..MaxBatch : Commit(n)
    \/ ProjectDeferred
    \/ DeferToCatchUp
    \/ CatchUp
    \/ Publish
    \/ \E k \in 1..MaxEvents : Reconcile(k)

Transport ==
    \/ ReadSnapshot
    \/ Subscribe
    \/ Drop
    \/ NoticeFailure
    \/ Reconnect
    \/ \E r \in requests : StartStream(r) \/ RequestFails(r)
    \/ StopStream

Router ==
    \/ Navigate
    \/ Enter
    \/ Leave
    \/ Welcome
    \/ DeliverSnapshot
    \/ \E e \in Elements(buffer) : DeliverEarly(e) \/ DeliverKnown(e) \/ DeliverNew(e)
    \/ AskSnapshot
    \/ AskReplay
    \/ ReplayFails
    \/ \E n \in 0..MaxEvents : ReceiveReplay(n)

Next == Engine \/ Transport \/ Router

Spec == Init /\ [][Next]_vars

\* The fibers of the server and the callbacks of the client run.  Nothing is
\* assumed of users, commands, polls, failures or lost connections.
FairSpec ==
    /\ Spec
    /\ WF_vars(ProjectDeferred \/ DeferToCatchUp)
    /\ WF_vars(Publish)
    /\ WF_vars(ReadSnapshot)
    /\ WF_vars(Subscribe)
    /\ WF_vars(NoticeFailure)
    /\ WF_vars(Reconnect)
    /\ WF_vars(\E r \in requests : StartStream(r) \/ RequestFails(r))
    /\ WF_vars(StopStream)
    /\ WF_vars(Enter)
    /\ WF_vars(Leave)
    /\ WF_vars(Welcome)
    /\ WF_vars(DeliverSnapshot)
    /\ WF_vars(\E e \in Elements(buffer) : DeliverEarly(e) \/ DeliverKnown(e) \/ DeliverNew(e))

------------------------------------------------------------------------------
\* Properties

SnapshotItem ==
    [at : {"asked", "ready", "done"}, seq : 0..MaxEvents, rows : 0..MaxEvents]

\* Every variable has its type; cursors, fence and events stay within the log.
TypeOK ==
    /\ {deferred, dirty, visible, subscribed, welcome} \subseteq BOOLEAN
    /\ log \in 0..MaxEvents
    /\ shell \in 0..log
    /\ next \in 1..(log + 1)
    /\ stream \in {"off", "starting", "live", "failed", "retry"}
    /\ buffer \in Seq(1..log) /\ Len(buffer) <= Capacity
    /\ snap \in SnapshotItem
    /\ missed \subseteq 1..log
    /\ requests \subseteq {"subscribe", "unsubscribe", "snapshot"}
    /\ seq \in (0..log) \cup {None}
    /\ pending \in Seq(1..log) /\ Len(pending) <= PendingLimit
    /\ replay \in (0..log) \cup {None}
    /\ given \subseteq 1..log
    /\ upsets \in 0..MaxUpsets

\* No stream, snapshot or subscription is about to be replaced.
Settled ==
    /\ subscribed /\ requests = {} /\ ~welcome
    /\ stream \in {"starting", "live"} /\ snap.at = "done"

\* Once a subscription has settled, the fence has passed no event the store was not
\* given, but for those published between the read of the snapshot and the subscription:
\* what the client drops because it is below the fence it has, whatever the buffers lost
\* on the way and in whichever order the stream's two fibers start.
FenceCovered == (Settled /\ seq # None) => 1..seq \ missed \subseteq given

\* A thread that stays on the screen gets every event but those, through overflows of
\* the buffer, lost connections, replays and resubscriptions.
CatchesUp == <>[](visible => (1..log) \ missed \subseteq given)
==============================================================================
