--------------------------- MODULE TurnQueueProofs ---------------------------
(***************************************************************************)
(* Proofs about TurnQueue, for any number of messages, stops and repeats:  *)
(* types, one turn at a time, no message forgotten or started again, and   *)
(* none left in the queue but by the two ways the history adrift records.  *)
(***************************************************************************)
EXTENDS TurnQueue, SequenceTheorems, TLAPS

------------------------------------------------------------------------------
\* The strengthening

Queued      == {queue[i] : i \in DOMAIN queue}
Holds(f, m) == fiber[f].msg = m /\ fiber[f].at \in Holding
Held(m)     == \E f \in Fibers : Holds(f, m)

\* An event that will put its message somewhere: a start seen before does not.
Counts(i) == inbox[i].msg # Nobody /\ inbox[i].key \notin handled
Coming(m) == \E i \in DOMAIN inbox : inbox[i].msg = m /\ Counts(i)

\* Two events have one key only if they are one start, published twice.
KeysInv ==
    /\ handled \subseteq 1..commands
    /\ \A i \in DOMAIN inbox : inbox[i].key \in 1..commands
    /\ \A i \in DOMAIN inbox : inbox[i].type = "queued" => inbox[i].key \notin handled
    /\ \A i, j \in DOMAIN inbox :
          i # j /\ inbox[i].key = inbox[j].key =>
              inbox[i].type = "start" /\ inbox[i].msg = inbox[j].msg

\* A message that waits is in one place, and only such a message is in any.
WaitingPlaced ==
    \A m \in Messages : (fate[m] = "waiting") = (Coming(m) \/ m \in Queued \/ Held(m))
OnePlace ==
    \A m \in Messages :
        /\ Coming(m) => m \notin Queued /\ ~Held(m)
        /\ m \in Queued => ~Held(m)
        /\ ~(Holds("worker", m) /\ Holds("drainer", m))
OneEvent ==
    \A i, j \in DOMAIN inbox :
        Counts(i) /\ Counts(j) /\ inbox[i].msg = inbox[j].msg => inbox[i].key = inbox[j].key
OneInQueue == \A i, j \in DOMAIN queue : queue[i] = queue[j] => i = j
PlacesInv  == WaitingPlaced /\ OnePlace /\ OneEvent /\ OneInQueue

\* The worker goes on to a start only while no turn is live.
ClearInv ==
    LET worker == fiber["worker"] IN
    worker.at = "dispatch" \/ (worker.at = "starting" /\ ~worker.saw) => live = Nobody

\* A drain that finds nothing to do leaves the queue to one that is under way.
Promoting == \E f \in Fibers : fiber[f].at = "promote"
Starting  == \E i \in DOMAIN inbox : inbox[i].type = "start" /\ inbox[i].key \notin handled
MarksInv ==
    /\ draining => Promoting \/ adrift
    /\ promised => Promoting \/ Starting

\* What will drain a queue that is not empty.
Owed ==
    \/ live # Nobody
    \/ ended > 0
    \/ Promoting \/ Starting
    \/ fiber["worker"].at \in {"recover", "start", "dispatch", "failed"}
    \/ fiber["worker"].at \in {"recovering", "starting"} /\ ~fiber["worker"].saw
OwedInv ==
    /\ ~adrift /\ queue # <<>> => Owed
    /\ fiber["worker"].at = "stop" => queue = <<>>
    /\ QueuesNext /\ ~adrift => live # Nobody \/ ended > 0 \/ Promoting \/ Starting

------------------------------------------------------------------------------
\* Sequences: what a queue and an inbox hold after a step

LEMMA EnqueuedHolds ==
    ASSUME NEW m \in Messages, queue \in Seq(Messages)
    PROVE  /\ Enqueued(m) \in Seq(Messages)
           /\ Enqueued(m) # <<>>
           /\ {Enqueued(m)[i] : i \in DOMAIN Enqueued(m)} = Queued \cup {m}
           /\ (\A i, j \in DOMAIN queue : queue[i] = queue[j] => i = j) /\ m \notin Queued =>
                 \A i, j \in DOMAIN Enqueued(m) : Enqueued(m)[i] = Enqueued(m)[j] => i = j
<1> DEFINE q == Enqueued(m)
<1>1. CASE m \in steers
  <2>1. /\ q = <<m>> \o queue /\ q \in Seq(Messages) /\ Len(q) = Len(queue) + 1
        /\ q[1] = m /\ \A i \in 2..Len(q) : q[i] = queue[i - 1]
    BY <1>1 DEF Enqueued
  <2>2. \A i \in DOMAIN queue : i + 1 \in DOMAIN q /\ q[i + 1] = queue[i]
    BY <2>1
  <2>3. \A i \in DOMAIN q : i = 1 \/ (i - 1 \in DOMAIN queue /\ q[i] = queue[i - 1])
    BY <2>1
  <2>4. {q[i] : i \in DOMAIN q} = Queued \cup {m}
    <3>1. ASSUME NEW i \in DOMAIN q PROVE q[i] \in Queued \cup {m}
      BY <2>1, <2>3 DEF Queued
    <3>2. ASSUME NEW i \in DOMAIN queue PROVE \E k \in DOMAIN q : q[k] = queue[i]
      BY <2>2
    <3>3. \E k \in DOMAIN q : q[k] = m
      BY <2>1
    <3> QED BY <3>1, <3>2, <3>3 DEF Queued
  <2>5. ASSUME \A i, j \in DOMAIN queue : queue[i] = queue[j] => i = j, m \notin Queued,
               NEW i \in DOMAIN q, NEW j \in DOMAIN q, q[i] = q[j]
        PROVE  i = j
    BY <2>1, <2>3, <2>5 DEF Queued
  <2> QED BY <2>1, <2>4, <2>5, SMTT(30)
<1>2. CASE m \notin steers
  <2>1. /\ q = Append(queue, m) /\ q \in Seq(Messages) /\ Len(q) = Len(queue) + 1
        /\ q[Len(q)] = m /\ \A i \in 1..Len(queue) : q[i] = queue[i]
    BY <1>2 DEF Enqueued
  <2>2. \A i \in DOMAIN queue : i \in DOMAIN q /\ q[i] = queue[i]
    BY <2>1
  <2>3. \A i \in DOMAIN q : i = Len(q) \/ (i \in DOMAIN queue /\ q[i] = queue[i])
    BY <2>1
  <2>4. {q[i] : i \in DOMAIN q} = Queued \cup {m}
    <3>1. ASSUME NEW i \in DOMAIN q PROVE q[i] \in Queued \cup {m}
      BY <2>1, <2>3 DEF Queued
    <3>2. ASSUME NEW i \in DOMAIN queue PROVE \E k \in DOMAIN q : q[k] = queue[i]
      BY <2>2
    <3>3. \E k \in DOMAIN q : q[k] = m
      BY <2>1
    <3> QED BY <3>1, <3>2, <3>3 DEF Queued
  <2>5. ASSUME \A i, j \in DOMAIN queue : queue[i] = queue[j] => i = j, m \notin Queued,
               NEW i \in DOMAIN q, NEW j \in DOMAIN q, q[i] = q[j]
        PROVE  i = j
    BY <2>1, <2>3, <2>5 DEF Queued
  <2> QED BY <2>1, <2>4, <2>5
<1> QED BY <1>1, <1>2

LEMMA TailHolds ==
    ASSUME queue \in Seq(Messages), queue # <<>>
    PROVE  /\ Head(queue) \in Messages
           /\ Tail(queue) \in Seq(Messages)
           /\ Queued = {Tail(queue)[i] : i \in DOMAIN Tail(queue)} \cup {Head(queue)}
           /\ (\A i, j \in DOMAIN queue : queue[i] = queue[j] => i = j) =>
                 /\ Head(queue) \notin {Tail(queue)[i] : i \in DOMAIN Tail(queue)}
                 /\ \A i, j \in DOMAIN Tail(queue) : Tail(queue)[i] = Tail(queue)[j] => i = j
<1> DEFINE q == Tail(queue)
<1>1. /\ Len(queue) \in Nat /\ Len(queue) > 0 /\ q \in Seq(Messages) /\ Len(q) = Len(queue) - 1
      /\ Head(queue) = queue[1] /\ Head(queue) \in Messages
      /\ DOMAIN queue = 1..Len(queue) /\ DOMAIN q = 1..Len(q)
  OBVIOUS
<1>2. \A i \in DOMAIN q : i + 1 \in DOMAIN queue /\ q[i] = queue[i + 1]
  BY <1>1
<1>3. \A i \in DOMAIN queue : i = 1 \/ (i - 1 \in DOMAIN q /\ queue[i] = q[i - 1])
  BY <1>1
<1>4. Queued = {q[i] : i \in DOMAIN q} \cup {Head(queue)}
  <2>1. ASSUME NEW i \in DOMAIN queue PROVE queue[i] \in {q[k] : k \in DOMAIN q} \cup {Head(queue)}
    BY <1>1, <1>3
  <2>2. ASSUME NEW i \in DOMAIN q PROVE \E k \in DOMAIN queue : queue[k] = q[i]
    BY <1>2
  <2>3. \E k \in DOMAIN queue : queue[k] = Head(queue)
    BY <1>1
  <2> QED BY <2>1, <2>2, <2>3 DEF Queued
<1>5. ASSUME \A i, j \in DOMAIN queue : queue[i] = queue[j] => i = j
      PROVE  /\ Head(queue) \notin {q[i] : i \in DOMAIN q}
             /\ \A i, j \in DOMAIN q : q[i] = q[j] => i = j
  BY <1>1, <1>2, <1>5
<1> QED BY <1>1, <1>4, <1>5

LEMMA PublishAdds ==
    ASSUME NEW event \in Events, inbox \in Seq(Events), Publish(event)
    PROVE  /\ inbox' \in Seq(Events)
           /\ \A i \in DOMAIN inbox : i \in DOMAIN inbox' /\ inbox'[i] = inbox[i]
           /\ \A i \in DOMAIN inbox' : i \in DOMAIN inbox \/ inbox'[i] = event
           /\ \E i \in DOMAIN inbox' : inbox'[i] = event
           /\ \A i, j \in DOMAIN inbox' \ DOMAIN inbox : i = j \/ event.type = "start"
<1>1. CASE inbox' = Append(inbox, event)
  <2>1. /\ Len(inbox) \in Nat /\ inbox' \in Seq(Events) /\ Len(inbox') = Len(inbox) + 1
        /\ inbox'[Len(inbox) + 1] = event /\ \A i \in 1..Len(inbox) : inbox'[i] = inbox[i]
    BY <1>1
  <2> QED BY <2>1
<1>2. CASE inbox' = inbox \o <<event, event>> /\ event.type = "start"
  <2>1. /\ Len(inbox) \in Nat /\ inbox' \in Seq(Events) /\ Len(inbox') = Len(inbox) + 2
        /\ inbox'[Len(inbox) + 1] = event /\ inbox'[Len(inbox) + 2] = event
        /\ \A i \in 1..Len(inbox) : inbox'[i] = inbox[i]
    BY <1>2
  <2>2. DOMAIN inbox = 1..Len(inbox) /\ DOMAIN inbox' = 1..(Len(inbox) + 2)
    BY <2>1
  <2>3. \A i \in DOMAIN inbox' : i \in DOMAIN inbox \/ i = Len(inbox) + 1 \/ i = Len(inbox) + 2
    BY <2>1, <2>2
  <2>4. \A i \in DOMAIN inbox' : i \in DOMAIN inbox \/ inbox'[i] = event
    BY <2>1, <2>3
  <2>5. Len(inbox) + 1 \in DOMAIN inbox'
    BY <2>1, <2>2
  <2>6. \A i \in DOMAIN inbox : i \in DOMAIN inbox' /\ inbox'[i] = inbox[i]
    BY <2>1, <2>2
  <2>7. \E i \in DOMAIN inbox' : inbox'[i] = event
    BY <2>1, <2>5
  <2> QED BY <1>2, <2>1, <2>4, <2>6, <2>7
<1> QED BY <1>1, <1>2 DEF Publish

LEMMA TakingRemoves ==
    ASSUME NEW type, inbox \in Seq(Events), Taking(type)
    PROVE  /\ 1 \in DOMAIN inbox /\ Head(inbox) = inbox[1] /\ Head(inbox) \in Events
           /\ inbox' \in Seq(Events)
           /\ \A i \in DOMAIN inbox' : i \in Nat /\ i + 1 \in DOMAIN inbox /\ i + 1 # 1
                                       /\ inbox'[i] = inbox[i + 1]
           /\ \A i \in DOMAIN inbox : i = 1 \/ (i - 1 \in DOMAIN inbox' /\ inbox'[i - 1] = inbox[i])
<1>1. inbox # <<>> /\ inbox' = Tail(inbox)
  BY DEF Taking
<1>2. /\ Len(inbox) \in Nat /\ Len(inbox) > 0 /\ inbox' \in Seq(Events)
      /\ Len(inbox') = Len(inbox) - 1
      /\ DOMAIN inbox = 1..Len(inbox) /\ DOMAIN inbox' = 1..Len(inbox')
  BY <1>1
<1> QED BY <1>1, <1>2

------------------------------------------------------------------------------
\* Types

LEMMA FiberTypes ==
    ASSUME NEW f \in Fibers, NEW hand \in Hands, TypeOK,
           (hand.msg = Nobody) = (hand.at \in {"rest", "stop"}),
           fiber' = [fiber EXCEPT ![f] = hand]
    PROVE  /\ fiber' \in [Fibers -> Hands]
           /\ \A g \in Fibers : (fiber'[g].msg = Nobody) = (fiber'[g].at \in {"rest", "stop"})
BY DEF TypeOK

LEMMA GoesTypes ==
    ASSUME NEW f \in Fibers, NEW at \in Places, NEW m \in Messages \cup {Nobody}, TypeOK,
           (m = Nobody) = (at \in {"rest", "stop"}),
           Goes(f, at, m) \/ (Rests(f) /\ at = "rest")
    PROVE  /\ fiber' \in [Fibers -> Hands]
           /\ \A g \in Fibers : (fiber'[g].msg = Nobody) = (fiber'[g].at \in {"rest", "stop"})
<1> DEFINE hand == [at |-> at, msg |-> m, saw |-> FALSE]
<1>1. hand \in Hands /\ hand.msg = m /\ hand.at = at
  BY DEF Hands
<1>2. fiber' = [fiber EXCEPT ![f] = hand]
  BY DEF Goes, Rests, Rest
<1> QED BY <1>1, <1>2, FiberTypes

LEMMA DrainTypes ==
    ASSUME NEW f \in Fibers, Drain(f), TypeOK
    PROVE  /\ fiber' \in [Fibers -> Hands]
           /\ \A g \in Fibers : (fiber'[g].msg = Nobody) = (fiber'[g].at \in {"rest", "stop"})
           /\ queue' \in Seq(Messages)
           /\ {draining', promised', adrift'} \subseteq BOOLEAN
<1>1. CASE draining \/ promised \/ queue = <<>>
  <2>1. /\ Rests(f) /\ UNCHANGED <<queue, draining, promised>>
        /\ adrift' = (adrift \/ (QueuesNext /\ ~draining /\ ~promised))
    BY <1>1 DEF Drain
  <2>2. (adrift \/ (QueuesNext /\ ~draining /\ ~promised)) \in BOOLEAN
    OBVIOUS
  <2>3. adrift' \in BOOLEAN
    BY <2>1, <2>2
  <2> QED BY <2>1, <2>3, GoesTypes DEF TypeOK, Places
<1>2. CASE ~(draining \/ promised \/ queue = <<>>)
  <2>1. Head(queue) \in Messages /\ Tail(queue) \in Seq(Messages)
    BY <1>2, TailHolds DEF TypeOK
  <2>2. /\ Goes(f, "promote", Head(queue)) /\ queue' = Tail(queue)
        /\ draining' = TRUE /\ promised' = TRUE /\ adrift' = FALSE
    BY <1>2 DEF Drain
  <2>3. Head(queue) # Nobody
    BY <2>1, QueueConstants DEF Messages, Nobody
  <2>4. {draining', promised', adrift'} \subseteq BOOLEAN
    BY <2>2
  <2> QED BY <2>1, <2>2, <2>3, <2>4, GoesTypes DEF Places
<1> QED BY <1>1, <1>2

LEMMA PublishTypes ==
    ASSUME NEW event \in Events, (event.msg = Nobody) = (event.type = "stop"),
           Publish(event), TypeOK
    PROVE  /\ inbox' \in Seq(Events)
           /\ \A i \in DOMAIN inbox' : (inbox'[i].msg = Nobody) = (inbox'[i].type = "stop")
           /\ {commands', repeats'} \subseteq Nat
<1>1. {commands', repeats'} \subseteq Nat
  BY DEF Publish, TypeOK
<1> QED BY <1>1, PublishAdds DEF TypeOK

LEMMA TakingTypes ==
    ASSUME NEW type, Taking(type), TypeOK
    PROVE  /\ inbox' \in Seq(Events)
           /\ \A i \in DOMAIN inbox' : (inbox'[i].msg = Nobody) = (inbox'[i].type = "stop")
           /\ Head(inbox) \in Events
           /\ (Head(inbox).msg = Nobody) = (type = "stop")
           /\ Head(inbox).type = type
<1>1. Head(inbox).type = type
  BY DEF Taking
<1> QED BY <1>1, TakingRemoves DEF TypeOK

LEMMA TypeStep == TypeOK /\ [Next]_vars => TypeOK'
<1> SUFFICES ASSUME TypeOK, [Next]_vars PROVE TypeOK'
  OBVIOUS
<1> USE QueueConstants DEF Nobody
<1>1. ASSUME NEW m \in Messages, NEW mode \in {"queue", "steer"}, Send(m, mode) PROVE TypeOK'
  <2>1. \A type \in {"queued", "start"} : /\ Event(type, m) \in Events
                                         /\ Event(type, m).msg # Nobody
                                         /\ Event(type, m).type # "stop"
    BY DEF Event, Events, Messages, TypeOK
  <2>2. /\ inbox' \in Seq(Events) /\ {commands', repeats'} \subseteq Nat
        /\ \A i \in DOMAIN inbox' : (inbox'[i].msg = Nobody) = (inbox'[i].type = "stop")
    BY <1>1, <2>1, PublishTypes DEF Send
  <2>3. fate' \in [Messages -> Fates] /\ steers' \subseteq Messages
    BY <1>1 DEF Send, TypeOK, Fates
  <2> QED BY <1>1, <2>2, <2>3 DEF Send, TypeOK, marks, provider
<1>2. CASE RequestStop
  <2> DEFINE e == Event("stop", Nobody)
  <2>1. e \in Events /\ e.msg = Nobody /\ e.type = "stop"
    BY DEF Event, Events, TypeOK
  <2>3. Publish(e)
    BY <1>2 DEF RequestStop
  <2>2. /\ inbox' \in Seq(Events) /\ {commands', repeats'} \subseteq Nat
        /\ \A i \in DOMAIN inbox' : (inbox'[i].msg = Nobody) = (inbox'[i].type = "stop")
    <3> HIDE DEF e
    <3>1. (e.msg = Nobody) = (e.type = "stop")
      BY <2>1
    <3> QED BY <2>1, <2>3, <3>1, PublishTypes, Zenon
  <2>4. /\ UNCHANGED <<fate, steers, projected, fiber, queue, draining, promised, adrift, handled,
                       live, ended>>
        /\ stops' = stops + 1
    BY <1>2 DEF RequestStop, marks, provider
  <2>5. stops' \in Nat
    BY <2>4 DEF TypeOK
  <2> HIDE DEF e
  <2> QED BY <2>2, <2>4, <2>5 DEF TypeOK
<1>3. CASE Project \/ TurnEnds
  <2>1. CASE Project
    <3>1. projected' \in BOOLEAN
      BY <2>1 DEF Project
    <3> QED BY <2>1, <3>1 DEF Project, TypeOK, client, engine, marks, provider
  <2>2. CASE TurnEnds
    <3>1. ended' \in Nat
      BY <2>2 DEF TurnEnds, TypeOK
    <3> QED BY <2>2, <3>1 DEF TurnEnds, TypeOK, client, engine, marks
  <2> QED BY <1>3, <2>1, <2>2
<1>4. CASE TakeQueued
  <2>1. /\ inbox' \in Seq(Events) /\ Head(inbox).msg \in Messages
        /\ \A i \in DOMAIN inbox' : (inbox'[i].msg = Nobody) = (inbox'[i].type = "stop")
    <3>1. Taking("queued")
      BY <1>4 DEF TakeQueued
    <3>2. Head(inbox) \in Events /\ Head(inbox).msg # Nobody
      BY <3>1, TakingTypes
    <3> QED BY <3>1, <3>2, TakingTypes DEF Events
  <2>2. queue' \in Seq(Messages)
    BY <1>4, <2>1, EnqueuedHolds DEF TakeQueued, TypeOK
  <2> QED BY <1>4, <2>1, <2>2, SMTT(30)
          DEF TakeQueued, Goes, TypeOK, Hands, Places, Fibers, Messages, client, provider
<1>5. CASE TakeStart
  <2>1. /\ inbox' \in Seq(Events) /\ Head(inbox).msg \in Messages /\ Head(inbox).key \in Nat
        /\ \A i \in DOMAIN inbox' : (inbox'[i].msg = Nobody) = (inbox'[i].type = "stop")
    <3>1. Taking("start")
      BY <1>5 DEF TakeStart
    <3>2. Head(inbox) \in Events /\ Head(inbox).msg # Nobody
      BY <3>1, TakingTypes
    <3> QED BY <3>1, <3>2, TakingTypes DEF Events
  <2>2. /\ fiber' \in [Fibers -> Hands]
        /\ \A f \in Fibers : (fiber'[f].msg = Nobody) = (fiber'[f].at \in {"rest", "stop"})
    <3>1. CASE UNCHANGED fiber
      BY <3>1 DEF TypeOK
    <3>2. CASE Goes("worker", "start", Head(inbox).msg)
      BY <2>1, <3>2, GoesTypes DEF Places, Fibers, Messages
    <3> QED BY <1>5, <3>1, <3>2 DEF TakeStart
  <2> QED BY <1>5, <2>1, <2>2 DEF TakeStart, TypeOK, client, provider
<1>6. CASE TakeStop
  <2>1. /\ inbox' \in Seq(Events)
        /\ \A i \in DOMAIN inbox' : (inbox'[i].msg = Nobody) = (inbox'[i].type = "stop")
    BY <1>6, TakingTypes DEF TakeStop
  <2>2. fate' \in [Messages -> Fates]
    BY <1>6 DEF TakeStop, TypeOK, Fates
  <2>3. queue' \in Seq(Messages)
    BY <1>6 DEF TakeStop
  <2> QED BY <1>6, <2>1, <2>2, <2>3 DEF TakeStop, Goes, TypeOK, Hands, Places, Fibers, client, provider
<1>7. CASE Look \/ Dispatch \/ Answered
  <2>1. CASE Look
    <3> DEFINE was == fiber["worker"]
               goes == IF was.at = "recover" THEN "recovering" ELSE "starting"
               hand == [at |-> goes, msg |-> was.msg, saw |-> live # Nobody]
    <3>0. was \in Hands /\ was.at \in {"recover", "start"} /\ was.msg # Nobody
      BY <2>1 DEF Look, TypeOK, Fibers
    <3>1. hand \in Hands /\ (hand.msg = Nobody) = (hand.at \in {"rest", "stop"})
      <4>1. goes \in Places /\ goes \notin {"rest", "stop"} /\ was.msg \in Messages \cup {Nobody}
        BY <3>0 DEF Hands, Places
      <4>2. (live # Nobody) \in BOOLEAN
        OBVIOUS
      <4> HIDE DEF goes, was
      <4>3. hand \in Hands
        BY <4>1, <4>2, Zenon DEF Hands
      <4> QED BY <3>0, <4>1, <4>3
    <3>2. fiber' = [fiber EXCEPT !["worker"] = hand]
      BY <2>1 DEF Look, TypeOK, Fibers
    <3>3. /\ fiber' \in [Fibers -> Hands]
          /\ \A g \in Fibers : (fiber'[g].msg = Nobody) = (fiber'[g].at \in {"rest", "stop"})
      BY <3>1, <3>2, FiberTypes DEF Fibers
    <3> QED BY <2>1, <3>3 DEF Look, TypeOK, client, engine, marks, provider
  <2>2. CASE Dispatch
    <3>1. fiber["worker"].msg \in Messages
      BY <2>2 DEF Dispatch, TypeOK, Hands, Fibers
    <3>2. /\ fiber' \in [Fibers -> Hands]
          /\ \A g \in Fibers : (fiber'[g].msg = Nobody) = (fiber'[g].at \in {"rest", "stop"})
      BY <2>2, <3>1, GoesTypes DEF Dispatch, Fibers, Places, Messages
    <3> QED BY <2>2, <3>2 DEF Dispatch, TypeOK, client, engine, marks, provider
  <2>3. CASE Answered
    BY <2>3 DEF Answered, Rests, Rest, TypeOK, Hands, Places, Fibers, client, engine, marks, provider
  <2> QED BY <1>7, <2>1, <2>2, <2>3
<1>8. CASE Recover
  <2>1. CASE fiber["worker"].saw
    <3>1. /\ fiber' \in [Fibers -> Hands]
          /\ \A g \in Fibers : (fiber'[g].msg = Nobody) = (fiber'[g].at \in {"rest", "stop"})
      BY <1>8, <2>1, GoesTypes DEF Recover, Fibers, Places
    <3> QED BY <1>8, <2>1, <3>1 DEF Recover, TypeOK, client, engine, marks, provider
  <2>2. CASE Drain("worker")
    BY <1>8, <2>2, DrainTypes DEF Recover, TypeOK, Fibers, client, engine, provider
  <2> QED BY <1>8, <2>1, <2>2 DEF Recover
<1>9. CASE Requeue
  <2>1. fiber["worker"].msg \in Messages
    BY <1>9 DEF Requeue, TypeOK, Hands, Fibers
  <2>2. queue' \in Seq(Messages)
    BY <1>9, <2>1, EnqueuedHolds DEF Requeue, TypeOK
  <2> QED BY <1>9, <2>2 DEF Requeue, Rests, Rest, TypeOK, Hands, Places, Fibers, client, engine, provider
<1>10. CASE StartTurn
  <2>1. fiber["worker"].msg \in Messages
    BY <1>10 DEF StartTurn, TypeOK, Hands, Fibers
  <2>2. fate' \in [Messages -> Fates]
    BY <1>10, <2>1 DEF StartTurn, TypeOK, Fates
  <2> QED BY <1>10, <2>1, <2>2, SMTT(30)
          DEF StartTurn, Goes, TypeOK, Hands, Places, Fibers, Messages, client, engine, marks
<1>11. CASE StartFails \/ AnswerLost
  <2>1. fate' \in [Messages -> Fates]
    BY <1>11 DEF StartFails, AnswerLost, TypeOK, Fates
  <2>2. fiber["worker"].msg \in Messages
    BY <1>11 DEF StartFails, AnswerLost, TypeOK, Hands, Fibers
  <2>3. /\ fiber' \in [Fibers -> Hands]
        /\ \A g \in Fibers : (fiber'[g].msg = Nobody) = (fiber'[g].at \in {"rest", "stop"})
    BY <1>11, <2>2, GoesTypes DEF StartFails, AnswerLost, Fibers, Places, Messages
  <2>4. CASE StartFails
    BY <2>1, <2>3, <2>4 DEF StartFails, TypeOK, client, engine, marks, provider
  <2>5. CASE AnswerLost
    BY <2>1, <2>3, <2>5 DEF AnswerLost, TypeOK, client, engine, marks, provider
  <2> QED BY <1>11, <2>4, <2>5
<1>17. CASE FailureRecorded
  BY <1>17, DrainTypes DEF FailureRecorded, TypeOK, Fibers, client, engine, provider
<1>18. CASE StartCutShort \/ FailureUnrecorded
  <2>1. fate' \in [Messages -> Fates]
    BY <1>18 DEF StartCutShort, FailureUnrecorded, TypeOK, Fates
  <2>2. /\ fiber' \in [Fibers -> Hands]
        /\ \A g \in Fibers : (fiber'[g].msg = Nobody) = (fiber'[g].at \in {"rest", "stop"})
    BY <1>18, GoesTypes DEF StartCutShort, FailureUnrecorded, Fibers, Places
  <2>3. CASE StartCutShort
    BY <2>1, <2>2, <2>3 DEF StartCutShort, TypeOK, client, engine, provider
  <2>4. CASE FailureUnrecorded
    BY <2>1, <2>2, <2>4 DEF FailureUnrecorded, TypeOK, client, engine, provider
  <2> QED BY <1>18, <2>3, <2>4
<1>19. CASE StopIgnored
  BY <1>19, TakingTypes DEF StopIgnored, TypeOK, client, marks, provider
<1>12. CASE StopSession
  <2>1. /\ fiber' \in [Fibers -> Hands]
        /\ \A g \in Fibers : (fiber'[g].msg = Nobody) = (fiber'[g].at \in {"rest", "stop"})
    BY <1>12, GoesTypes DEF StopSession, Fibers, Places
  <2>2. ended' \in Nat /\ live' \in Messages \cup {Nobody} /\ projected' \in BOOLEAN
    <3>1. ended' \in {ended, ended + 1}
      BY <1>12 DEF StopSession, provider
    <3>2. ended' \in Nat
      BY <3>1 DEF TypeOK
    <3>3. live' \in {live, Nobody} /\ projected' \in {projected, FALSE}
      BY <1>12 DEF StopSession, provider
    <3> QED BY <3>2, <3>3 DEF TypeOK
  <2> QED BY <1>12, <2>1, <2>2 DEF StopSession, TypeOK, client, engine, marks
<1>13. CASE TakeEnd
  <2>1. ended' \in Nat
    BY <1>13 DEF TakeEnd, TypeOK
  <2> QED BY <1>13, <2>1, DrainTypes, ZenonT(30) DEF TakeEnd, TypeOK, Fibers, client, engine
<1>14. ASSUME NEW f \in Fibers, Promote(f) PROVE TypeOK'
  <2>1. fiber[f].msg \in Messages
    BY <1>14 DEF Promote, TypeOK, Hands
  <2>2. Event("start", fiber[f].msg) \in Events /\ Event("start", fiber[f].msg).msg # Nobody
        /\ Event("start", fiber[f].msg).type = "start"
    BY <2>1 DEF Event, Events, Messages, TypeOK
  <2>3. /\ inbox' \in Seq(Events) /\ {commands', repeats'} \subseteq Nat
        /\ \A i \in DOMAIN inbox' : (inbox'[i].msg = Nobody) = (inbox'[i].type = "stop")
    BY <1>14, <2>2, PublishTypes DEF Promote
  <2> QED BY <1>14, <2>3 DEF Promote, Rests, Rest, TypeOK, Hands, Places, client, provider
<1>15. ASSUME NEW f \in Fibers, PromotionFails(f) PROVE TypeOK'
  <2>1. fate' \in [Messages -> Fates]
    BY <1>15 DEF PromotionFails, TypeOK, Fates
  <2> QED BY <1>15, <2>1 DEF PromotionFails, Rests, Rest, TypeOK, Hands, Places, client, engine, provider
<1>16. CASE UNCHANGED vars
  BY <1>16 DEF vars, TypeOK, client, engine, marks, provider
<1> QED BY <1>1, <1>2, <1>3, <1>4, <1>5, <1>6, <1>7, <1>8, <1>9, <1>10, <1>11, <1>12, <1>13, <1>14, <1>15, <1>16,
       <1>17, <1>18, <1>19 DEF Next, Worker, Promotion

LEMMA InitTypes == Init => TypeOK
<1> SUFFICES ASSUME Init PROVE TypeOK
  OBVIOUS
<1>1. /\ inbox \in Seq(Events) /\ queue \in Seq(Messages)
      /\ \A i \in DOMAIN inbox : (inbox[i].msg = Nobody) = (inbox[i].type = "stop")
  BY DEF Init
<1>2. /\ fiber \in [Fibers -> Hands]
      /\ \A f \in Fibers : (fiber[f].msg = Nobody) = (fiber[f].at \in {"rest", "stop"})
  BY DEF Init, Rest, Hands, Places
<1>3. fate \in [Messages -> Fates] /\ live \in Messages \cup {Nobody} /\ handled \subseteq Nat
  BY DEF Init, Fates
<1>4. steers \subseteq Messages /\ {ended, commands, stops, repeats} \subseteq Nat
  BY DEF Init
<1>5. {projected, draining, promised, adrift} \subseteq BOOLEAN
  BY DEF Init
<1> QED BY <1>1, <1>2, <1>3, <1>4, <1>5 DEF TypeOK

\* The queue, the marks and the fibers keep their types: the fibers of
\* ProviderCommandReactor.ts hand each other only messages that were sent.
THEOREM QueueTypeCorrect == Spec => []TypeOK
<1> QED BY InitTypes, TypeStep, PTL DEF Spec

------------------------------------------------------------------------------
\* One turn at a time

LEMMA DrainHands ==
    ASSUME NEW f \in Fibers, Drain(f), TypeOK
    PROVE  /\ fiber'[f].at \in {"rest", "promote"}
           /\ \A g \in Fibers \ {f} : fiber'[g] = fiber[g]
<1>1. CASE Rests(f)
  BY <1>1 DEF Rests, Rest, TypeOK
<1>2. CASE Goes(f, "promote", Head(queue))
  BY <1>2 DEF Goes, TypeOK
<1> QED BY <1>1, <1>2 DEF Drain

LEMMA ClearStep == TypeOK /\ ClearInv /\ [Next]_vars => ClearInv'
<1> SUFFICES ASSUME TypeOK, ClearInv, [Next]_vars PROVE ClearInv'
  OBVIOUS
<1> USE DEF Fibers
<1>1. ASSUME fiber'["worker"] = fiber["worker"], live' \in {live, Nobody} PROVE ClearInv'
  BY <1>1 DEF ClearInv
<1>2. ASSUME fiber'["worker"].at \notin {"dispatch", "starting"} PROVE ClearInv'
  BY <1>2 DEF ClearInv
<1>3. ASSUME NEW m \in Messages, NEW mode \in {"queue", "steer"}, Send(m, mode) PROVE ClearInv'
  BY <1>1, <1>3 DEF Send, provider
<1>4. CASE RequestStop \/ Project \/ TurnEnds
  BY <1>1, <1>4 DEF RequestStop, Project, TurnEnds, provider
<1>5. CASE TakeQueued \/ TakeStop
  BY <1>2, <1>5 DEF TakeQueued, TakeStop, Goes, TypeOK
<1>6. CASE TakeStart
  <2>1. CASE UNCHANGED fiber
    BY <1>1, <1>6, <2>1 DEF TakeStart, provider
  <2>2. CASE Goes("worker", "start", Head(inbox).msg)
    BY <1>2, <2>2 DEF Goes, TypeOK
  <2> QED BY <1>6, <2>1, <2>2 DEF TakeStart
<1>7. CASE Look
  BY <1>7 DEF Look, ClearInv, TypeOK, provider
<1>8. CASE Recover
  <2>1. CASE Rests("worker")
    BY <1>2, <2>1 DEF Rests, Rest, TypeOK
  <2>2. CASE Drain("worker")
    BY <1>2, <2>2, DrainHands
  <2> QED BY <1>8, <2>1, <2>2 DEF Recover
<1>9. CASE Requeue \/ StartCutShort \/ Answered \/ FailureUnrecorded \/ StopSession
  <2>1. Rests("worker")
    BY <1>9 DEF Requeue, StartCutShort, Answered, FailureUnrecorded, StopSession
  <2> QED BY <1>2, <2>1 DEF Rests, Rest, TypeOK
<1>10. CASE Dispatch
  BY <1>10 DEF Dispatch, ClearInv, provider
<1>11. CASE StartTurn \/ StartFails \/ AnswerLost
  BY <1>2, <1>11 DEF StartTurn, StartFails, AnswerLost, Goes, TypeOK
<1>12. CASE FailureRecorded
  BY <1>2, <1>12, DrainHands DEF FailureRecorded
<1>16. CASE StopIgnored
  BY <1>1, <1>16 DEF StopIgnored, provider
<1>13. CASE TakeEnd
  BY <1>1, <1>13, DrainHands DEF TakeEnd
<1>14. ASSUME NEW f \in Fibers, Promotion(f) PROVE ClearInv'
  <2>1. Rests(f) /\ UNCHANGED live
    BY <1>14 DEF Promotion, Promote, PromotionFails, provider
  <2>2. CASE f = "worker"
    BY <1>2, <2>1, <2>2 DEF Rests, Rest, TypeOK
  <2>3. CASE f # "worker"
    BY <1>1, <2>1, <2>3 DEF Rests, TypeOK
  <2> QED BY <2>2, <2>3
<1>15. CASE UNCHANGED vars
  BY <1>1, <1>15 DEF vars, provider
<1> QED BY <1>3, <1>4, <1>5, <1>6, <1>7, <1>8, <1>9, <1>10, <1>11, <1>12, <1>13, <1>14, <1>15,
       <1>16 DEF Next, Worker

LEMMA OnlyStartTurnStarts ==
    TypeOK /\ ClearInv /\ [Next]_vars => (live # Nobody /\ live' # live => live' = Nobody)
<1> SUFFICES ASSUME TypeOK, ClearInv, [Next]_vars, live # Nobody, live' # live
             PROVE  live' = Nobody
  OBVIOUS
<1>1. ~StartTurn
  BY DEF StartTurn, ClearInv
<1>2. ~Worker \/ StopSession
  BY <1>1 DEF Worker, TakeQueued, TakeStart, TakeStop, Look, Recover, Requeue, Dispatch,
         StartCutShort, Answered, AnswerLost, StartFails, FailureRecorded, FailureUnrecorded,
         StopIgnored, provider
<1>3. CASE StopSession \/ TurnEnds
  BY <1>3 DEF StopSession, TurnEnds, provider
<1> QED BY <1>2, <1>3 DEF Next, Send, RequestStop, Project, TakeEnd, Promotion, Promote,
         PromotionFails, provider, vars

\* A turn is never started while another is live: processTurnStartRequested's look at the
\* provider holds until sendTurn, since only the worker starts turns.
THEOREM OneTurnRunsAtATime == Spec => OneTurnAtATime
<1>1. Init => TypeOK /\ ClearInv
  BY InitTypes DEF Init, ClearInv
<1>2. TypeOK /\ ClearInv /\ [Next]_vars =>
          TypeOK' /\ ClearInv' /\ (live # Nobody /\ live' # live => live' = Nobody)
  BY TypeStep, ClearStep, OnlyStartTurnStarts
<1> QED BY <1>1, <1>2, PTL DEF Spec, OneTurnAtATime

------------------------------------------------------------------------------
\* Where the messages are

LEMMA PublishKeys ==
    ASSUME TypeOK, KeysInv, NEW event \in Events, event.key = commands + 1,
           Publish(event), UNCHANGED handled
    PROVE  KeysInv'
<1>1. commands \in Nat /\ commands' = commands + 1 /\ inbox \in Seq(Events)
  BY DEF Publish, TypeOK
<1>2. handled' \subseteq 1..commands' /\ event.key \in 1..commands' /\ event.key \notin handled'
  BY <1>1 DEF KeysInv
<1>3. \A i \in DOMAIN inbox : /\ inbox[i].key \in 1..commands' /\ inbox[i].key # event.key
                              /\ i \in DOMAIN inbox' /\ inbox'[i] = inbox[i]
  BY <1>1, PublishAdds DEF KeysInv
<1>4. \A i \in DOMAIN inbox' : i \in DOMAIN inbox \/ inbox'[i] = event
  BY <1>1, PublishAdds
<1>5. ASSUME NEW i \in DOMAIN inbox', NEW j \in DOMAIN inbox', i # j, inbox'[i].key = inbox'[j].key
      PROVE  inbox'[i].type = "start" /\ inbox'[i].msg = inbox'[j].msg
  <2>1. CASE i \in DOMAIN inbox /\ j \in DOMAIN inbox
    BY <1>3, <1>5, <2>1 DEF KeysInv
  <2>2. CASE i \notin DOMAIN inbox /\ j \notin DOMAIN inbox
    BY <1>1, <1>4, <1>5, <2>2, PublishAdds
  <2> QED BY <1>3, <1>4, <1>5, <2>1, <2>2
<1> QED BY <1>2, <1>3, <1>4, <1>5 DEF KeysInv

LEMMA PublishComing ==
    ASSUME TypeOK, KeysInv, NEW event \in Events, event.key = commands + 1,
           Publish(event), UNCHANGED handled
    PROVE  /\ \A k \in Messages : Coming(k)' <=> (Coming(k) \/ k = event.msg)
           /\ OneEvent /\ (event.msg \in Messages => ~Coming(event.msg)) => OneEvent'
<1> USE QueueConstants
<1>1. commands \in Nat /\ inbox \in Seq(Events)
  BY DEF TypeOK
<1>2. event.key \notin handled'
  BY <1>1 DEF KeysInv
<1>3. \A i \in DOMAIN inbox : i \in DOMAIN inbox' /\ inbox'[i] = inbox[i]
  BY <1>1, PublishAdds
<1>4. \A i \in DOMAIN inbox' : i \in DOMAIN inbox \/ inbox'[i] = event
  BY <1>1, PublishAdds
<1>5. \E i \in DOMAIN inbox' : inbox'[i] = event
  BY <1>1, PublishAdds
<1>6. ASSUME NEW k \in Messages PROVE Coming(k)' <=> Coming(k) \/ k = event.msg
  <2>1. k # Nobody
    BY DEF Messages, Nobody
  <2>2. Coming(k)' => Coming(k) \/ k = event.msg
    BY <1>3, <1>4 DEF Coming, Counts
  <2>3. Coming(k) => Coming(k)'
    BY <1>3 DEF Coming, Counts
  <2>4. k = event.msg => Coming(k)'
    BY <1>2, <1>5, <2>1 DEF Coming, Counts
  <2> QED BY <2>2, <2>3, <2>4
<1>7. ASSUME OneEvent, event.msg \in Messages => ~Coming(event.msg),
             NEW i \in DOMAIN inbox', NEW j \in DOMAIN inbox', Counts(i)', Counts(j)',
             inbox'[i].msg = inbox'[j].msg
      PROVE  inbox'[i].key = inbox'[j].key
  <2>1. \A l \in DOMAIN inbox' : l \in DOMAIN inbox /\ Counts(l)' => Counts(l)
    BY <1>3 DEF Counts
  <2>2. CASE i \in DOMAIN inbox /\ j \in DOMAIN inbox
    BY <1>3, <1>7, <2>1, <2>2 DEF OneEvent
  <2>3. event.msg \in Messages \cup {Nobody}
    BY DEF Events
  <2>4. ASSUME NEW l \in DOMAIN inbox, l \in DOMAIN inbox', Counts(l)', inbox'[l].msg = event.msg
        PROVE  FALSE
    <3>1. Counts(l) /\ inbox[l].msg = event.msg /\ event.msg \in Messages
      BY <1>3, <2>1, <2>3, <2>4 DEF Counts
    <3> QED BY <1>7, <3>1 DEF Coming
  <2> QED BY <1>4, <1>7, <2>2, <2>4
<1> QED BY <1>6, <1>7 DEF OneEvent

LEMMA TakingKeys ==
    ASSUME TypeOK, KeysInv, NEW type, Taking(type), UNCHANGED commands,
           \/ UNCHANGED handled
           \/ type = "start" /\ handled' = handled \cup {Head(inbox).key}
    PROVE  KeysInv'
<1>1. /\ 1 \in DOMAIN inbox /\ Head(inbox) = inbox[1] /\ inbox[1].type = type
      /\ \A i \in DOMAIN inbox' : i \in Nat /\ i + 1 \in DOMAIN inbox /\ i + 1 # 1
                                  /\ inbox'[i] = inbox[i + 1]
  BY TakingRemoves DEF TypeOK, Taking
<1>2. handled' \subseteq 1..commands'
  <2>1. inbox[1].key \in 1..commands /\ handled \subseteq 1..commands
    BY <1>1 DEF KeysInv
  <2> QED BY <1>1, <2>1
<1>3. \A i \in DOMAIN inbox' : inbox'[i].key \in 1..commands'
  BY <1>1 DEF KeysInv
<1>4. ASSUME NEW i \in DOMAIN inbox', inbox'[i].type = "queued" PROVE inbox'[i].key \notin handled'
  <2>1. inbox[i + 1].key \notin handled
    BY <1>1, <1>4 DEF KeysInv
  <2>2. inbox[i + 1].key # inbox[1].key
    BY <1>1, <1>4 DEF KeysInv
  <2> QED BY <1>1, <2>1, <2>2
<1>5. ASSUME NEW i \in DOMAIN inbox', NEW j \in DOMAIN inbox', i # j, inbox'[i].key = inbox'[j].key
      PROVE  inbox'[i].type = "start" /\ inbox'[i].msg = inbox'[j].msg
  <2>1. i + 1 # j + 1
    BY <1>1, <1>5
  <2> QED BY <1>1, <1>5, <2>1 DEF KeysInv
<1> QED BY <1>2, <1>3, <1>4, <1>5 DEF KeysInv

\* A message leaves the inbox with the event that counts for it.
LEMMA TakingComing ==
    ASSUME TypeOK, KeysInv, OneEvent, NEW type, Taking(type),
           \/ type # "start" /\ UNCHANGED handled
           \/ type = "start" /\ handled' = handled \cup {Head(inbox).key}
    PROVE  /\ \A k \in Messages : Coming(k)' <=> (Coming(k) /\ ~(k = Head(inbox).msg /\ Counts(1)))
           /\ OneEvent'
           /\ Head(inbox).msg \in Messages /\ Counts(1) => Coming(Head(inbox).msg)
           /\ type = "queued" => Counts(1)
           /\ Counts(1) => Head(inbox).msg # Nobody /\ Head(inbox).key \notin handled
           /\ type = "start" /\ ~Counts(1) => Head(inbox).key \in handled
<1>1. /\ 1 \in DOMAIN inbox /\ Head(inbox) = inbox[1] /\ inbox[1].type = type
      /\ (inbox[1].msg = Nobody) = (type = "stop")
  BY TakingRemoves DEF TypeOK, Taking
<1>2. \A i \in DOMAIN inbox' : i \in Nat /\ i + 1 \in DOMAIN inbox /\ i + 1 # 1
                               /\ inbox'[i] = inbox[i + 1]
  BY TakingRemoves DEF TypeOK
<1>3. \A i \in DOMAIN inbox : i = 1 \/ (i - 1 \in DOMAIN inbox' /\ inbox'[i - 1] = inbox[i])
  BY TakingRemoves DEF TypeOK
<1>4. type = "queued" => Counts(1)
  BY <1>1 DEF KeysInv, Counts
<1>5. type = "start" /\ ~Counts(1) => Head(inbox).key \in handled
  BY <1>1 DEF Counts
<1>6. \A i \in DOMAIN inbox' : Counts(i)' => Counts(i + 1)
  BY <1>2 DEF Counts
<1>7. OneEvent'
  BY <1>2, <1>6 DEF OneEvent
<1>8. ASSUME NEW k \in Messages, Coming(k)' PROVE Coming(k) /\ ~(k = Head(inbox).msg /\ Counts(1))
  <2>1. PICK i \in DOMAIN inbox' : inbox'[i].msg = k /\ Counts(i)'
    BY <1>8 DEF Coming
  <2>2. i + 1 \in DOMAIN inbox /\ i + 1 # 1 /\ inbox[i + 1].msg = k /\ Counts(i + 1)
    BY <1>2, <1>6, <2>1
  <2>3. ASSUME k = Head(inbox).msg, Counts(1) PROVE FALSE
    <3>1. inbox[i + 1].key = inbox[1].key
      BY <1>1, <2>2, <2>3 DEF OneEvent
    <3>2. type = "start"
      BY <1>1, <2>2, <3>1 DEF KeysInv
    <3>3. inbox'[i].key \in handled'
      BY <1>1, <1>2, <2>1, <3>1, <3>2
    <3> QED BY <2>1, <3>3 DEF Counts
  <2> QED BY <2>2, <2>3 DEF Coming
<1>9. ASSUME NEW k \in Messages, Coming(k), ~(k = Head(inbox).msg /\ Counts(1)) PROVE Coming(k)'
  <2>1. PICK i \in DOMAIN inbox : inbox[i].msg = k /\ Counts(i)
    BY <1>9 DEF Coming
  <2>2. i # 1
    BY <1>1, <1>9, <2>1
  <2>3. inbox[i].key \notin handled'
    <3>1. inbox[i].key \notin handled
      BY <2>1 DEF Counts
    <3>2. ASSUME type = "start", inbox[i].key = inbox[1].key PROVE FALSE
      <4>1. inbox[1].msg = k
        BY <1>1, <2>1, <2>2, <3>2 DEF KeysInv
      <4> QED BY <1>1, <1>9, <2>1, <3>2, <4>1 DEF Counts
    <3> QED BY <1>1, <3>1, <3>2
  <2>4. i - 1 \in DOMAIN inbox' /\ inbox'[i - 1] = inbox[i]
    BY <1>3, <2>2
  <2>5. Counts(i - 1)'
    BY <2>1, <2>3, <2>4 DEF Counts
  <2> QED BY <2>1, <2>4, <2>5 DEF Coming
<1> QED BY <1>1, <1>4, <1>5, <1>7, <1>8, <1>9 DEF Coming, Counts

LEMMA HandMoves ==
    ASSUME TypeOK, NEW f \in Fibers, NEW at, NEW m,
           Goes(f, at, m) \/ (Rests(f) /\ at = "rest")
    PROVE  /\ \A k \in Messages : Holds(f, k)' <=> (k = m /\ at \in Holding)
           /\ \A g \in Fibers \ {f} : \A k \in Messages : Holds(g, k)' <=> Holds(g, k)
BY DEF Goes, Rests, Rest, Holds, Holding, TypeOK

\* A drain takes the head of the queue in hand, or does nothing.
LEMMA DrainMoves ==
    ASSUME TypeOK, OneInQueue, NEW f \in Fibers, Drain(f)
    PROVE  /\ \A g \in Fibers \ {f} : \A k \in Messages : Holds(g, k)' <=> Holds(g, k)
           /\ OneInQueue'
           /\ \/ Queued' = Queued /\ \A k \in Messages : ~Holds(f, k)'
              \/ \E m \in Queued : /\ m \in Messages
                                   /\ Queued' = Queued \ {m}
                                   /\ \A k \in Messages : Holds(f, k)' <=> (k = m)
<1>1. CASE Rests(f) /\ UNCHANGED queue
  <2>1. /\ \A k \in Messages : ~Holds(f, k)'
        /\ \A g \in Fibers \ {f} : \A k \in Messages : Holds(g, k)' <=> Holds(g, k)
    BY <1>1 DEF Rests, Rest, Holds, Holding, TypeOK
  <2>2. OneInQueue' /\ Queued' = Queued
    BY <1>1 DEF OneInQueue, Queued
  <2> QED BY <2>1, <2>2
<1>2. CASE Goes(f, "promote", Head(queue)) /\ queue' = Tail(queue) /\ queue # <<>>
  <2> DEFINE m == Head(queue)
  <2>1. /\ \A k \in Messages : Holds(f, k)' <=> (k = m)
        /\ \A g \in Fibers \ {f} : \A k \in Messages : Holds(g, k)' <=> Holds(g, k)
    BY <1>2 DEF Goes, Holds, Holding, TypeOK
  <2>2. /\ m \in Messages /\ Queued = Queued' \cup {m} /\ m \notin Queued' /\ OneInQueue'
    <3>1. Queued' = {Tail(queue)[i] : i \in DOMAIN Tail(queue)}
      BY <1>2 DEF Queued
    <3>2. m \in Messages /\ Queued = Queued' \cup {m}
      BY <1>2, <3>1, TailHolds DEF TypeOK
    <3>3. m \notin Queued' /\ \A i, j \in DOMAIN Tail(queue) : Tail(queue)[i] = Tail(queue)[j] => i = j
      BY <1>2, <3>1, TailHolds DEF TypeOK, OneInQueue
    <3> QED BY <1>2, <3>2, <3>3 DEF OneInQueue
  <2> QED BY <2>1, <2>2
<1> QED BY <1>1, <1>2 DEF Drain

LEMMA EnqueueMoves ==
    ASSUME TypeOK, NEW m \in Messages, queue' = Enqueued(m)
    PROVE  /\ Queued' = Queued \cup {m}
           /\ OneInQueue /\ m \notin Queued => OneInQueue'
BY EnqueuedHolds DEF TypeOK, OneInQueue, Queued

LEMMA QuietPlaces ==
    ASSUME KeysInv, PlacesInv, UNCHANGED <<inbox, handled, commands, queue, fate>>,
           \A f \in Fibers, k \in Messages : Holds(f, k)' <=> Holds(f, k)
    PROVE  KeysInv' /\ PlacesInv'
<1>1. KeysInv'
  BY DEF KeysInv
<1>2. \A k \in Messages : Coming(k)' <=> Coming(k)
  BY DEF Coming, Counts
<1>3. Queued' = Queued
  BY DEF Queued
<1>4. \A k \in Messages : Held(k)' <=> Held(k)
  BY DEF Held
<1>5. OneEvent' /\ OneInQueue'
  BY DEF PlacesInv, OneEvent, OneInQueue, Counts
<1>6. WaitingPlaced' /\ OnePlace'
  BY <1>2, <1>3, <1>4 DEF PlacesInv, WaitingPlaced, OnePlace, Fibers
<1> QED BY <1>1, <1>5, <1>6 DEF PlacesInv

LEMMA DrainPlaces ==
    ASSUME TypeOK, KeysInv, PlacesInv, NEW f \in Fibers, Drain(f), \A k \in Messages : ~Holds(f, k),
           UNCHANGED <<fate, inbox, commands, handled>>
    PROVE  KeysInv' /\ PlacesInv'
<1>1. /\ WaitingPlaced /\ OnePlace /\ OneEvent /\ OneInQueue
      /\ commands \in Nat
  BY DEF PlacesInv, TypeOK
<1>2. /\ \A k \in Messages : Held(k)' <=> Holds("worker", k)' \/ Holds("drainer", k)'
      /\ \A k \in Messages : Held(k) <=> Holds("worker", k) \/ Holds("drainer", k)
  BY DEF Held, Fibers
<1>3. /\ KeysInv' /\ OneEvent'
      /\ \A k \in Messages : Coming(k)' <=> Coming(k)
  BY <1>1 DEF KeysInv, OneEvent, Counts, Coming
<1>4. WaitingPlaced' /\ OnePlace' /\ OneInQueue'
  BY <1>1, <1>2, <1>3, DrainMoves DEF WaitingPlaced, OnePlace, Fibers
<1> QED BY <1>3, <1>4 DEF PlacesInv

\* A message that is past waiting stays where it is.
FatesKept == \A m \in Messages : fate[m] \notin {"unsent", "waiting"} => fate'[m] = fate[m]

LEMMA PlacesStep ==
    TypeOK /\ KeysInv /\ PlacesInv /\ [Next]_vars => KeysInv' /\ PlacesInv' /\ FatesKept
<1> SUFFICES ASSUME TypeOK, KeysInv, PlacesInv, [Next]_vars
             PROVE  KeysInv' /\ PlacesInv' /\ FatesKept
  OBVIOUS
<1>a. /\ WaitingPlaced /\ OnePlace /\ OneEvent /\ OneInQueue
      /\ commands \in Nat /\ fate \in [Messages -> Fates]
      /\ \A f \in Fibers : (fiber[f].msg = Nobody) = (fiber[f].at \in {"rest", "stop"})
      /\ \A f \in Fibers : fiber[f] \in Hands
  BY DEF PlacesInv, TypeOK
<1>b. \A f \in Fibers, k \in Messages : Holds(f, k) => Held(k)
  BY DEF Held
<1>c. \A k \in Messages : Held(k)' <=> Holds("worker", k)' \/ Holds("drainer", k)'
  BY DEF Held, Fibers
<1>d. \A k \in Messages : Held(k) <=> Holds("worker", k) \/ Holds("drainer", k)
  BY DEF Held, Fibers
<1>e. \A k \in Messages : k # Nobody
  BY QueueConstants DEF Messages, Nobody
<1>1. ASSUME NEW m \in Messages, NEW mode \in {"queue", "steer"}, Send(m, mode)
      PROVE  KeysInv' /\ PlacesInv' /\ FatesKept
  <2>1. PICK type \in {"queued", "start"} : Publish(Event(type, m))
    BY <1>1 DEF Send
  <2>2. /\ Event(type, m) \in Events /\ Event(type, m).key = commands + 1
        /\ Event(type, m).msg = m
    BY <1>a, <2>1 DEF Event, Events
  <2>3. fate[m] = "unsent" /\ fate' = [fate EXCEPT ![m] = "waiting"] /\ UNCHANGED <<fiber, queue, handled>>
    BY <1>1 DEF Send, marks
  <2>4. ~Coming(m) /\ m \notin Queued /\ ~Held(m)
    BY <1>a, <2>3 DEF WaitingPlaced
  <2>5. KeysInv' /\ OneEvent' /\ \A k \in Messages : Coming(k)' <=> (Coming(k) \/ k = m)
    BY <1>a, <2>1, <2>2, <2>3, <2>4, PublishKeys, PublishComing
  <2>6. /\ Queued' = Queued /\ OneInQueue'
        /\ \A k \in Messages, f \in Fibers : Holds(f, k)' <=> Holds(f, k)
    BY <1>a, <2>3 DEF Queued, Holds, OneInQueue
  <2>7. WaitingPlaced' /\ OnePlace'
    BY <1>a, <1>c, <1>d, <2>3, <2>4, <2>5, <2>6 DEF WaitingPlaced, OnePlace, Fibers
  <2>8. FatesKept
    BY <1>a, <2>3 DEF FatesKept
  <2> QED BY <2>5, <2>6, <2>7, <2>8 DEF PlacesInv
<1>2. CASE RequestStop
  <2>1. /\ Event("stop", Nobody) \in Events /\ Event("stop", Nobody).key = commands + 1
        /\ Event("stop", Nobody).msg = Nobody /\ Publish(Event("stop", Nobody))
    BY <1>2, <1>a DEF RequestStop, Event, Events
  <2>2. UNCHANGED <<fate, fiber, queue, handled>>
    BY <1>2 DEF RequestStop, marks
  <2>3. KeysInv' /\ OneEvent' /\ \A k \in Messages : Coming(k)' <=> Coming(k)
    BY <1>a, <1>e, <2>1, <2>2, PublishKeys, PublishComing
  <2>4. /\ Queued' = Queued /\ OneInQueue'
        /\ \A k \in Messages, f \in Fibers : Holds(f, k)' <=> Holds(f, k)
    BY <1>a, <2>2 DEF Queued, Holds, OneInQueue
  <2>5. WaitingPlaced' /\ OnePlace'
    BY <1>a, <1>c, <1>d, <2>2, <2>3, <2>4 DEF WaitingPlaced, OnePlace, Fibers
  <2> QED BY <2>2, <2>3, <2>4, <2>5 DEF PlacesInv, FatesKept
<1>3. CASE \/ Project \/ TurnEnds \/ Look \/ Dispatch
           \/ Answered \/ AnswerLost \/ FailureUnrecorded \/ StopSession
  <2>1. UNCHANGED <<inbox, handled, commands, queue, fate>>
    BY <1>3 DEF Project, TurnEnds, Look, Dispatch, Answered, AnswerLost, FailureUnrecorded,
           StopSession, engine, marks
  <2>2. \A f \in Fibers, k \in Messages : Holds(f, k)' <=> Holds(f, k)
    <3>1. CASE Project \/ TurnEnds
      BY <3>1 DEF Project, TurnEnds, Holds
    <3>2. CASE Look
      BY <3>2, <1>a DEF Look, Holds, Holding, TypeOK, Fibers
    <3>3. CASE Dispatch
      BY <3>3, <1>a DEF Dispatch, Goes, Holds, Holding, TypeOK, Fibers
    <3>4. CASE Answered \/ FailureUnrecorded \/ StopSession
      <4>1. Rests("worker") /\ fiber["worker"].at \notin Holding
        BY <3>4 DEF Answered, FailureUnrecorded, StopSession, Holding
      <4> QED BY <1>a, <4>1 DEF Rests, Rest, Holds, Holding, TypeOK, Fibers
    <3>5. CASE AnswerLost
      BY <3>5, <1>a DEF AnswerLost, Goes, Holds, Holding, TypeOK, Fibers
    <3> QED BY <1>3, <3>1, <3>2, <3>3, <3>4, <3>5
  <2> QED BY <2>1, <2>2, QuietPlaces DEF FatesKept
<1>4. CASE TakeQueued
  <2> DEFINE m == Head(inbox).msg
  <2>1. /\ Taking("queued") /\ queue' = Enqueued(m) /\ Goes("worker", "recover", m)
        /\ UNCHANGED <<fate, commands, handled>> /\ fiber["worker"].at = "rest"
    BY <1>4 DEF TakeQueued, Taking
  <2>2. m \in Messages
    BY <2>1, <1>a, TakingTypes DEF Events
  <2>3. /\ KeysInv' /\ OneEvent' /\ Coming(m)
        /\ \A k \in Messages : Coming(k)' <=> (Coming(k) /\ k # m)
    BY <1>a, <2>1, <2>2, TakingKeys, TakingComing
  <2>4. m \notin Queued /\ ~Held(m)
    BY <1>a, <2>2, <2>3 DEF OnePlace
  <2>5. Queued' = Queued \cup {m} /\ OneInQueue'
    BY <1>a, <2>1, <2>2, <2>4, EnqueueMoves
  <2>6. /\ \A k \in Messages : ~Holds("worker", k)' /\ ~Holds("worker", k)
        /\ \A k \in Messages : Holds("drainer", k)' <=> Holds("drainer", k)
    BY <2>1, HandMoves DEF Fibers, Holding, Holds
  <2>7. WaitingPlaced' /\ OnePlace'
    BY <1>a, <1>c, <1>d, <2>1, <2>2, <2>3, <2>4, <2>5, <2>6 DEF WaitingPlaced, OnePlace
  <2> QED BY <2>1, <2>3, <2>5, <2>7 DEF PlacesInv, FatesKept
<1>5. CASE TakeStart
  <2> DEFINE m == Head(inbox).msg
  <2>1. /\ Taking("start") /\ handled' = handled \cup {Head(inbox).key}
        /\ UNCHANGED <<fate, commands, queue>> /\ fiber["worker"].at = "rest"
        /\ IF Head(inbox).key \in handled THEN UNCHANGED fiber ELSE Goes("worker", "start", m)
    BY <1>5 DEF TakeStart, Taking
  <2>2. m \in Messages
    BY <2>1, <1>a, TakingTypes DEF Events
  <2>3. /\ KeysInv' /\ OneEvent' /\ (Counts(1) => Coming(m))
        /\ \A k \in Messages : Coming(k)' <=> (Coming(k) /\ ~(k = m /\ Counts(1)))
        /\ Counts(1) <=> Head(inbox).key \notin handled
    BY <1>a, <2>1, <2>2, TakingKeys, TakingComing
  <2>4. Queued' = Queued /\ OneInQueue'
    BY <1>a, <2>1 DEF Queued, OneInQueue
  <2>5. CASE ~Counts(1)
    <3>1. \A f \in Fibers, k \in Messages : Holds(f, k)' <=> Holds(f, k)
      BY <2>1, <2>3, <2>5 DEF Holds
    <3>2. WaitingPlaced' /\ OnePlace'
      BY <1>a, <1>c, <1>d, <2>1, <2>3, <2>4, <2>5, <3>1 DEF WaitingPlaced, OnePlace, Fibers
    <3> QED BY <2>1, <2>3, <2>4, <3>2 DEF PlacesInv, FatesKept
  <2>6. CASE Counts(1)
    <3>1. /\ \A k \in Messages : Holds("worker", k)' <=> (k = m)
          /\ \A k \in Messages : ~Holds("worker", k)
          /\ \A k \in Messages : Holds("drainer", k)' <=> Holds("drainer", k)
      BY <2>1, <2>3, <2>6, HandMoves DEF Fibers, Holding, Holds
    <3>2. m \notin Queued /\ ~Held(m)
      BY <1>a, <2>2, <2>3, <2>6 DEF OnePlace
    <3>3. WaitingPlaced' /\ OnePlace'
      BY <1>a, <1>c, <1>d, <2>1, <2>2, <2>3, <2>4, <2>6, <3>1, <3>2 DEF WaitingPlaced, OnePlace
    <3> QED BY <2>1, <2>3, <2>4, <3>3 DEF PlacesInv, FatesKept
  <2> QED BY <2>5, <2>6
<1>6. CASE TakeStop
  <2>1. /\ Taking("stop") /\ Goes("worker", "stop", Nobody) /\ queue' = <<>>
        /\ UNCHANGED <<commands, handled>> /\ fiber["worker"].at = "rest"
        /\ fate' = [k \in Messages |-> IF k \in Queued THEN "dropped" ELSE fate[k]]
    BY <1>6 DEF TakeStop, Taking, Queued
  <2>2. Head(inbox).msg = Nobody
    BY <2>1, TakingTypes
  <2>3. KeysInv' /\ OneEvent' /\ \A k \in Messages : Coming(k)' <=> Coming(k)
    BY <1>a, <1>e, <2>1, <2>2, TakingKeys, TakingComing
  <2>4. Queued' = {} /\ OneInQueue'
    BY <2>1 DEF Queued, OneInQueue
  <2>5. /\ \A k \in Messages : ~Holds("worker", k)' /\ ~Holds("worker", k)
        /\ \A k \in Messages : Holds("drainer", k)' <=> Holds("drainer", k)
    BY <2>1, HandMoves DEF Fibers, Holding, Holds
  <2>6. WaitingPlaced' /\ OnePlace'
    BY <1>a, <1>c, <1>d, <2>1, <2>3, <2>4, <2>5 DEF WaitingPlaced, OnePlace
  <2>7. FatesKept
    BY <1>a, <2>1 DEF FatesKept, WaitingPlaced
  <2> QED BY <2>3, <2>4, <2>6, <2>7 DEF PlacesInv
<1>14. CASE StopIgnored
  <2>1. /\ Taking("stop") /\ UNCHANGED <<fate, commands, handled, queue, fiber>>
    BY <1>14 DEF StopIgnored, marks
  <2>2. Head(inbox).msg = Nobody
    BY <2>1, TakingTypes
  <2>3. KeysInv' /\ OneEvent' /\ \A k \in Messages : Coming(k)' <=> Coming(k)
    BY <1>a, <1>e, <2>1, <2>2, TakingKeys, TakingComing
  <2>4. /\ Queued' = Queued /\ OneInQueue'
        /\ \A k \in Messages, f \in Fibers : Holds(f, k)' <=> Holds(f, k)
    BY <1>a, <2>1 DEF Queued, Holds, OneInQueue
  <2>5. WaitingPlaced' /\ OnePlace'
    BY <1>a, <1>c, <1>d, <2>1, <2>3, <2>4 DEF WaitingPlaced, OnePlace, Fibers
  <2> QED BY <2>1, <2>3, <2>4, <2>5 DEF PlacesInv, FatesKept
<1>7. CASE Recover \/ FailureRecorded
  <2>1. /\ fiber["worker"].at \in {"recovering", "failed"}
        /\ UNCHANGED <<fate, inbox, commands, handled>>
        /\ \A k \in Messages : ~Holds("worker", k)
    BY <1>7 DEF Recover, FailureRecorded, engine, Holds, Holding
  <2>2. CASE Rests("worker") /\ UNCHANGED marks
    <3>1. \A f \in Fibers, k \in Messages : Holds(f, k)' <=> Holds(f, k)
      BY <2>1, <2>2, HandMoves DEF Holding, Fibers
    <3> QED BY <2>1, <2>2, <3>1, QuietPlaces DEF marks, FatesKept
  <2>3. CASE Drain("worker")
    BY <2>1, <2>3, DrainPlaces DEF Fibers, FatesKept
  <2> QED BY <1>7, <2>2, <2>3 DEF Recover, FailureRecorded
<1>8. CASE TakeEnd
  <2>1. /\ fiber["drainer"].at = "rest" /\ UNCHANGED <<fate, inbox, commands, handled>>
        /\ Drain("drainer") /\ \A k \in Messages : ~Holds("drainer", k)
    BY <1>8 DEF TakeEnd, engine, Holds, Holding
  <2>2. "drainer" \in Fibers
    BY DEF Fibers
  <2> QED BY <2>1, <2>2, DrainPlaces DEF FatesKept
<1>9. CASE Requeue
  <2> DEFINE m == fiber["worker"].msg
  <2>1. /\ fiber["worker"].at = "starting" /\ queue' = Enqueued(m) /\ Rests("worker")
        /\ UNCHANGED <<fate, inbox, commands, handled>>
    BY <1>9 DEF Requeue, engine
  <2>2. m \in Messages /\ Holds("worker", m) /\ \A k \in Messages : Holds("worker", k) => k = m
    BY <1>a, <2>1 DEF Hands, Fibers, Holds, Holding
  <2>3. m \notin Queued /\ ~Coming(m) /\ ~Holds("drainer", m)
    BY <1>a, <1>d, <2>2 DEF OnePlace
  <2>4. Queued' = Queued \cup {m} /\ OneInQueue'
    BY <1>a, <2>1, <2>2, <2>3, EnqueueMoves
  <2>5. /\ \A k \in Messages : ~Holds("worker", k)'
        /\ \A k \in Messages : Holds("drainer", k)' <=> Holds("drainer", k)
    BY <2>1, HandMoves DEF Fibers, Holding
  <2>6. /\ KeysInv' /\ OneEvent'
        /\ \A k \in Messages : Coming(k)' <=> Coming(k)
    BY <2>1, <1>a DEF KeysInv, OneEvent, Counts, Coming
  <2>7. WaitingPlaced' /\ OnePlace'
    BY <1>a, <1>c, <1>d, <2>1, <2>2, <2>3, <2>4, <2>5, <2>6 DEF WaitingPlaced, OnePlace
  <2> QED BY <2>1, <2>4, <2>6, <2>7 DEF PlacesInv, FatesKept
<1>10. CASE StartTurn
  <2> DEFINE m == fiber["worker"].msg
  <2>1. /\ fiber["worker"].at = "dispatch" /\ Goes("worker", "sent", m)
        /\ fate' = [fate EXCEPT ![m] = IF @ = "waiting" THEN "started" ELSE "again"]
        /\ UNCHANGED <<queue, inbox, commands, handled>>
    BY <1>10 DEF StartTurn, engine, marks
  <2>2. m \in Messages /\ Holds("worker", m) /\ \A k \in Messages : Holds("worker", k) => k = m
    BY <1>a, <2>1 DEF Hands, Fibers, Holds, Holding
  <2>3. m \notin Queued /\ ~Coming(m) /\ ~Holds("drainer", m) /\ fate[m] = "waiting"
    BY <1>a, <1>d, <2>2 DEF OnePlace, WaitingPlaced
  <2>4. /\ \A k \in Messages : ~Holds("worker", k)'
        /\ \A k \in Messages : Holds("drainer", k)' <=> Holds("drainer", k)
    BY <2>1, HandMoves DEF Fibers, Holding
  <2>5. /\ KeysInv' /\ OneEvent' /\ Queued' = Queued /\ OneInQueue'
        /\ \A k \in Messages : Coming(k)' <=> Coming(k)
    BY <2>1, <1>a DEF KeysInv, OneEvent, Counts, Coming, Queued, OneInQueue
  <2>6. fate' = [fate EXCEPT ![m] = "started"]
    BY <2>1, <2>3
  <2>7. WaitingPlaced' /\ OnePlace'
    BY <1>a, <1>c, <1>d, <2>2, <2>3, <2>4, <2>5, <2>6 DEF WaitingPlaced, OnePlace
  <2> QED BY <1>a, <2>3, <2>5, <2>6, <2>7 DEF PlacesInv, FatesKept
<1>11. CASE StartFails \/ StartCutShort
  <2> DEFINE m == fiber["worker"].msg
  <2>1. PICK fates \in {"failed", "lost"} :
             fate' = [fate EXCEPT ![m] = IF @ = "waiting" THEN fates ELSE @]
    BY <1>11 DEF StartFails, StartCutShort
  <2>2. /\ fiber["worker"].at \in Holding /\ UNCHANGED <<inbox, commands, handled, queue>>
        /\ Goes("worker", "failed", m) \/ Rests("worker")
    BY <1>11 DEF StartFails, StartCutShort, Holding, engine, marks
  <2>3. m \in Messages /\ Holds("worker", m) /\ \A k \in Messages : Holds("worker", k) => k = m
    BY <1>a, <2>2 DEF Hands, Fibers, Holds, Holding
  <2>4. m \notin Queued /\ ~Coming(m) /\ ~Holds("drainer", m) /\ fate[m] = "waiting"
    BY <1>a, <1>d, <2>3 DEF OnePlace, WaitingPlaced
  <2>5. /\ \A k \in Messages : ~Holds("worker", k)'
        /\ \A k \in Messages : Holds("drainer", k)' <=> Holds("drainer", k)
    BY <2>2, HandMoves DEF Fibers, Holding
  <2>6. /\ KeysInv' /\ OneEvent' /\ Queued' = Queued /\ OneInQueue'
        /\ \A k \in Messages : Coming(k)' <=> Coming(k)
    BY <2>2, <1>a DEF KeysInv, OneEvent, Counts, Coming, Queued, OneInQueue
  <2>7. fate' = [fate EXCEPT ![m] = fates] /\ fates # "waiting"
    BY <2>1, <2>4
  <2>8. WaitingPlaced' /\ OnePlace'
    BY <1>a, <1>c, <1>d, <2>3, <2>4, <2>5, <2>6, <2>7 DEF WaitingPlaced, OnePlace
  <2> QED BY <1>a, <2>4, <2>6, <2>7, <2>8 DEF PlacesInv, FatesKept
<1>12. ASSUME NEW f \in Fibers, Promotion(f) PROVE KeysInv' /\ PlacesInv' /\ FatesKept
  <2> DEFINE m == fiber[f].msg
  <2>1. fiber[f].at = "promote" /\ Rests(f) /\ UNCHANGED <<queue, handled>>
    BY <1>12 DEF Promotion, Promote, PromotionFails
  <2>2. m \in Messages /\ Holds(f, m) /\ \A k \in Messages : Holds(f, k) => k = m
    BY <1>a, <2>1 DEF Hands, Holds, Holding
  <2>3. m \notin Queued /\ ~Coming(m) /\ fate[m] = "waiting"
        /\ \A g \in Fibers \ {f} : ~Holds(g, m)
    BY <1>a, <1>d, <2>2 DEF OnePlace, WaitingPlaced, Fibers
  <2>4. /\ \A k \in Messages : ~Holds(f, k)'
        /\ \A g \in Fibers \ {f}, k \in Messages : Holds(g, k)' <=> Holds(g, k)
    BY <2>1, HandMoves DEF Holding
  <2>5. Queued' = Queued /\ OneInQueue'
    BY <2>1, <1>a DEF Queued, OneInQueue
  <2>6. \A k \in Messages : Held(k)' <=> Held(k) /\ k # m
    BY <1>c, <1>d, <2>2, <2>3, <2>4 DEF Fibers
  <2>7. CASE Promote(f)
    <3>1. /\ Event("start", m) \in Events /\ Event("start", m).key = commands + 1
          /\ Event("start", m).msg = m /\ Publish(Event("start", m)) /\ UNCHANGED fate
      BY <1>a, <2>2, <2>7 DEF Promote, Event, Events
    <3>2. KeysInv' /\ OneEvent' /\ \A k \in Messages : Coming(k)' <=> (Coming(k) \/ k = m)
      BY <1>a, <2>1, <2>3, <3>1, PublishKeys, PublishComing
    <3>3. WaitingPlaced'
      BY <1>a, <2>2, <2>3, <2>5, <2>6, <3>1, <3>2 DEF WaitingPlaced
    <3>4. OnePlace'
      BY <1>a, <2>2, <2>3, <2>4, <2>5, <2>6, <3>2 DEF OnePlace, Fibers
    <3> QED BY <2>5, <3>1, <3>2, <3>3, <3>4 DEF PlacesInv, FatesKept
  <2>8. CASE PromotionFails(f)
    <3>1. /\ fate' = [fate EXCEPT ![m] = "lost"]
          /\ UNCHANGED <<inbox, commands>>
      BY <2>3, <2>8 DEF PromotionFails, engine
    <3>2. KeysInv' /\ OneEvent' /\ \A k \in Messages : Coming(k)' <=> Coming(k)
      BY <1>a, <2>1, <3>1 DEF KeysInv, OneEvent, Counts, Coming
    <3>3. WaitingPlaced'
      BY <1>a, <2>2, <2>3, <2>5, <2>6, <3>1, <3>2 DEF WaitingPlaced
    <3>4. OnePlace'
      BY <1>a, <2>2, <2>3, <2>4, <2>5, <2>6, <3>2 DEF OnePlace, Fibers
    <3> QED BY <1>a, <2>3, <2>5, <3>1, <3>2, <3>3, <3>4 DEF PlacesInv, FatesKept
  <2> QED BY <1>12, <2>7, <2>8 DEF Promotion
<1>13. CASE UNCHANGED vars
  <2>1. UNCHANGED <<inbox, handled, commands, queue, fate, fiber>>
    BY <1>13 DEF vars, engine, marks
  <2> QED BY <2>1, QuietPlaces DEF Holds, FatesKept
<1> QED BY <1>1, <1>2, <1>3, <1>4, <1>5, <1>6, <1>7, <1>8, <1>9, <1>10, <1>11, <1>12, <1>13,
       <1>14 DEF Next, Worker

LEMMA InitPlaces == Init => KeysInv /\ PlacesInv
<1> SUFFICES ASSUME Init PROVE KeysInv /\ PlacesInv
  OBVIOUS
<1>1. /\ DOMAIN inbox = {} /\ DOMAIN queue = {} /\ handled = {}
      /\ \A f \in Fibers : fiber[f].at = "rest"
      /\ \A m \in Messages : fate[m] = "unsent"
  BY DEF Init, Rest
<1>2. \A m \in Messages : ~Coming(m) /\ m \notin Queued /\ ~Held(m)
  BY <1>1 DEF Coming, Queued, Held, Holds, Holding
<1>3. KeysInv /\ OneEvent /\ OneInQueue
  BY <1>1 DEF KeysInv, OneEvent, OneInQueue
<1>4. WaitingPlaced /\ OnePlace
  BY <1>1, <1>2 DEF WaitingPlaced, OnePlace, Held, Fibers
<1> QED BY <1>3, <1>4 DEF PlacesInv

\* A message that waits is in an event whose start is still to be handled, in the queue or
\* in the hands of a fiber that will start or promote it, however often its start is
\* published, re-queued and promoted, and whichever commands about other messages fail.
THEOREM NoMessageForgotten == Spec => []NoneForgotten
<1>1. TypeOK /\ KeysInv /\ PlacesInv /\ [Next]_vars => TypeOK' /\ KeysInv' /\ PlacesInv'
  BY TypeStep, PlacesStep
<1>2. PlacesInv => NoneForgotten
  BY DEF PlacesInv, WaitingPlaced, NoneForgotten, Coming, Counts, Queued, Held, Holds
<1> QED BY InitTypes, InitPlaces, <1>1, <1>2, PTL DEF Spec

\* What became of a message is final: no second start, whatever the fibers' order.
THEOREM FatesAreFinal == Spec => FatesFinal
<1>1. TypeOK /\ KeysInv /\ PlacesInv /\ [Next]_vars =>
          /\ TypeOK' /\ KeysInv' /\ PlacesInv'
          /\ \A m \in Messages : fate[m] \notin {"unsent", "waiting"} => fate'[m] = fate[m]
  BY TypeStep, PlacesStep DEF FatesKept
<1> QED BY InitTypes, InitPlaces, <1>1, PTL DEF Spec, FatesFinal

------------------------------------------------------------------------------
\* Nothing is left waiting

\* An event published or in the inbox is still to be handled.
LEMMA PublishStarting ==
    ASSUME TypeOK, KeysInv, NEW event \in Events, event.key = commands + 1,
           Publish(event), UNCHANGED handled
    PROVE  Starting \/ event.type = "start" => Starting'
<1>1. commands \in Nat /\ inbox \in Seq(Events)
  BY DEF TypeOK
<1>2. event.key \notin handled'
  BY <1>1 DEF KeysInv
<1> QED BY <1>1, <1>2, PublishAdds DEF Starting

LEMMA TakingStarting ==
    ASSUME TypeOK, KeysInv, NEW type, Taking(type), Starting,
           \/ type # "start" /\ UNCHANGED handled
           \/ type = "start" /\ handled' = handled \cup {Head(inbox).key}
    PROVE  Starting' \/ (type = "start" /\ Head(inbox).key \notin handled)
<1>1. /\ 1 \in DOMAIN inbox /\ Head(inbox) = inbox[1] /\ inbox[1].type = type
      /\ \A i \in DOMAIN inbox : i = 1 \/ (i - 1 \in DOMAIN inbox' /\ inbox'[i - 1] = inbox[i])
  BY TakingRemoves DEF TypeOK, Taking
<1>2. PICK i \in DOMAIN inbox : inbox[i].type = "start" /\ inbox[i].key \notin handled
  BY DEF Starting
<1>3. CASE i = 1
  BY <1>1, <1>2, <1>3
<1>4. CASE i # 1 /\ inbox[i].key \in handled'
  BY <1>1, <1>2, <1>4
<1>5. CASE i # 1 /\ inbox[i].key \notin handled'
  BY <1>1, <1>2, <1>5 DEF Starting
<1> QED BY <1>3, <1>4, <1>5

\* After a drain the queue is empty or somebody promotes, or is about to start; a drain
\* while the worker is about to queue leaves it to a promotion, or to the history.
LEMMA DrainOwes ==
    ASSUME TypeOK, MarksInv, NEW f \in Fibers, Drain(f), fiber[f].at # "promote",
           UNCHANGED <<inbox, handled>>
    PROVE  /\ MarksInv' /\ (adrift' \/ queue' = <<>> \/ Promoting' \/ Starting')
           /\ QueuesNext => adrift' \/ Promoting' \/ Starting'
           /\ queue = <<>> => queue' = <<>>
<1>1. Promoting => Promoting'
  BY DrainHands DEF Promoting
<1>2. Starting => Starting'
  BY DEF Starting
<1>3. CASE /\ draining \/ promised \/ queue = <<>>
           /\ UNCHANGED <<queue, draining, promised>>
           /\ adrift' = (adrift \/ (QueuesNext /\ ~draining /\ ~promised))
  <2>0. adrift => adrift'
    BY <1>3 DEF TypeOK
  <2>1. MarksInv'
    BY <1>1, <1>2, <1>3, <2>0 DEF MarksInv
  <2>2. draining \/ promised => adrift' \/ Promoting' \/ Starting'
    BY <1>1, <1>2, <2>0 DEF MarksInv
  <2> QED BY <1>3, <2>1, <2>2
<1>4. CASE Goes(f, "promote", Head(queue)) /\ queue # <<>>
  <2>1. Promoting'
    BY <1>4 DEF Goes, Promoting, TypeOK
  <2> QED BY <1>4, <2>1 DEF MarksInv
<1> QED BY <1>3, <1>4 DEF Drain

\* Only a step that hands the queue on lets go of what will drain it.
LEMMA QuietOwes ==
    ASSUME TypeOK, MarksInv, OwedInv, UNCHANGED <<queue, draining, promised, adrift, fiber>>,
           Starting => Starting',
           live # Nobody \/ ended > 0 => live' # Nobody \/ ended' > 0
    PROVE  MarksInv' /\ OwedInv'
<1>1. Promoting' = Promoting
  BY DEF Promoting
<1>2. MarksInv'
  BY <1>1 DEF MarksInv
<1>3. Owed => Owed'
  BY <1>1 DEF Owed
<1> QED BY <1>1, <1>2, <1>3 DEF OwedInv, QueuesNext

LEMMA OwedStep ==
    TypeOK /\ KeysInv /\ MarksInv /\ OwedInv /\ [Next]_vars
        => MarksInv' /\ OwedInv'
<1> SUFFICES ASSUME TypeOK, KeysInv, MarksInv, OwedInv, [Next]_vars
             PROVE  MarksInv' /\ OwedInv'
  OBVIOUS
<1>a. /\ queue \in Seq(Messages)
      /\ commands \in Nat /\ ended \in Nat /\ fiber \in [Fibers -> Hands]
      /\ "worker" \in Fibers /\ "drainer" \in Fibers /\ \A f \in Fibers : f \in {"worker", "drainer"}
      /\ \A f \in Fibers : (fiber[f].msg = Nobody) = (fiber[f].at \in {"rest", "stop"})
  BY DEF TypeOK, Fibers
\* The worker moves and the other fiber, the inbox and the marks stay.
<1>b. ASSUME UNCHANGED <<inbox, handled, draining, promised>>, fiber["worker"].at # "promote",
             fiber'["drainer"] = fiber["drainer"], adrift => adrift'
      PROVE  MarksInv' /\ (Promoting => Promoting') /\ Starting' = Starting
  <2>1. Promoting => Promoting'
    BY <1>a, <1>b DEF Promoting
  <2>2. Starting' = Starting
    BY <1>b DEF Starting
  <2> QED BY <1>b, <2>1, <2>2 DEF MarksInv
<1>1. ASSUME NEW m \in Messages, NEW mode \in {"queue", "steer"}, Send(m, mode)
      PROVE  MarksInv' /\ OwedInv'
  <2>1. PICK type \in {"queued", "start"} : Publish(Event(type, m))
    BY <1>1 DEF Send
  <2>2. Event(type, m) \in Events /\ Event(type, m).key = commands + 1
    BY <1>a DEF Event, Events
  <2>3. UNCHANGED <<queue, draining, promised, adrift, fiber, handled, live, ended>>
    BY <1>1 DEF Send, marks, provider
  <2>4. Starting => Starting'
    BY <2>1, <2>2, <2>3, PublishStarting
  <2> QED BY <2>3, <2>4, QuietOwes
<1>2. CASE RequestStop
  <2>1. /\ Event("stop", Nobody) \in Events /\ Event("stop", Nobody).key = commands + 1
        /\ Publish(Event("stop", Nobody))
    BY <1>2, <1>a DEF RequestStop, Event, Events
  <2>2. UNCHANGED <<queue, draining, promised, adrift, fiber, handled, live, ended>>
    BY <1>2 DEF RequestStop, marks, provider
  <2>3. Starting => Starting'
    BY <2>1, <2>2, PublishStarting
  <2> QED BY <2>2, <2>3, QuietOwes
<1>3. CASE Project \/ TurnEnds
  <2>1. UNCHANGED <<queue, draining, promised, adrift, fiber, inbox, handled>>
    BY <1>3 DEF Project, TurnEnds, engine, marks
  <2>2. live # Nobody \/ ended > 0 => live' # Nobody \/ ended' > 0
    BY <1>3, <1>a DEF Project, TurnEnds, provider
  <2> QED BY <2>1, <2>2, QuietOwes DEF Starting
<1>4. CASE TakeQueued
  <2>1. /\ Taking("queued") /\ Goes("worker", "recover", Head(inbox).msg)
        /\ UNCHANGED <<handled, draining, promised, adrift>> /\ fiber["worker"].at = "rest"
    BY <1>4 DEF TakeQueued, Taking
  <2>2. /\ fiber'["worker"].at = "recover" /\ fiber'["drainer"] = fiber["drainer"]
    BY <1>a, <2>1 DEF Goes
  <2>3. (Promoting => Promoting') /\ (Starting => Starting')
    BY <1>a, <2>1, <2>2, TakingStarting DEF Promoting
  <2>4. MarksInv'
    BY <2>1, <2>3 DEF MarksInv
  <2>5. OwedInv'
    BY <2>2 DEF OwedInv, Owed, QueuesNext
  <2> QED BY <2>4, <2>5
<1>5. CASE TakeStart
  <2>1. /\ Taking("start") /\ handled' = handled \cup {Head(inbox).key} /\ promised' = FALSE
        /\ UNCHANGED <<queue, draining, adrift, live, ended>> /\ fiber["worker"].at = "rest"
        /\ IF Head(inbox).key \in handled
           THEN UNCHANGED fiber
           ELSE Goes("worker", "start", Head(inbox).msg)
    BY <1>5 DEF TakeStart, Taking, provider
  <2>2. CASE Head(inbox).key \in handled
    <3>1. UNCHANGED fiber /\ Promoting' = Promoting
      BY <2>1, <2>2 DEF Promoting
    <3>2. Starting => Starting'
      BY <2>1, <2>2, TakingStarting
    <3>3. MarksInv'
      BY <2>1, <3>1 DEF MarksInv
    <3>4. OwedInv'
      BY <2>1, <3>1, <3>2 DEF OwedInv, Owed, QueuesNext
    <3> QED BY <3>3, <3>4
  <2>3. CASE Head(inbox).key \notin handled
    <3>1. fiber'["worker"].at = "start" /\ fiber'["drainer"] = fiber["drainer"]
      BY <1>a, <2>1, <2>3 DEF Goes
    <3>2. Promoting => Promoting'
      BY <1>a, <2>1, <3>1 DEF Promoting
    <3>3. MarksInv'
      BY <2>1, <3>2 DEF MarksInv
    <3>4. OwedInv'
      BY <3>1 DEF OwedInv, Owed, QueuesNext
    <3> QED BY <3>3, <3>4
  <2> QED BY <2>2, <2>3
<1>6. CASE TakeStop
  <2>1. /\ queue' = <<>> /\ draining' = FALSE /\ promised' = FALSE
        /\ Goes("worker", "stop", Nobody)
    BY <1>6 DEF TakeStop
  <2>2. fiber'["worker"].at = "stop"
    BY <1>a, <2>1 DEF Goes
  <2> QED BY <2>1, <2>2 DEF MarksInv, OwedInv, QueuesNext
<1>7. CASE Look
  <2>1. /\ UNCHANGED <<queue, draining, promised, adrift, inbox, handled, live, ended>>
        /\ fiber["worker"].at \in {"recover", "start"}
        /\ fiber'["drainer"] = fiber["drainer"]
        /\ fiber'["worker"].at \in {"recovering", "starting"}
        /\ fiber'["worker"].saw = (live # Nobody)
    BY <1>7, <1>a DEF Look, engine, marks, provider
  <2>2. MarksInv'
    BY <1>b, <2>1
  <2>3. OwedInv'
    BY <2>1 DEF OwedInv, Owed, QueuesNext
  <2> QED BY <2>2, <2>3
<1>8. CASE Recover \/ FailureRecorded
  <2>1. /\ fiber["worker"].at \in {"recovering", "failed"}
        /\ UNCHANGED <<inbox, handled, live, ended>>
    BY <1>8 DEF Recover, FailureRecorded, engine, provider
  <2>2. CASE fiber["worker"].at = "recovering" /\ fiber["worker"].saw /\ Rests("worker") /\ UNCHANGED marks
    <3>1. /\ fiber'["worker"].at = "rest" /\ fiber'["drainer"] = fiber["drainer"]
          /\ UNCHANGED <<queue, draining, promised, adrift>>
      BY <1>a, <2>2 DEF Rests, Rest, marks
    <3>2. MarksInv' /\ (Promoting => Promoting') /\ Starting' = Starting
      BY <1>b, <2>1, <3>1
    <3>3. OwedInv'
      BY <2>1, <2>2, <3>1, <3>2 DEF OwedInv, Owed, QueuesNext
    <3> QED BY <3>2, <3>3
  <2>3. CASE Drain("worker")
    <3>1. MarksInv' /\ (adrift' \/ queue' = <<>> \/ Promoting' \/ Starting')
      BY <1>a, <2>1, <2>3, DrainOwes
    <3>2. fiber'["worker"].at \in {"rest", "promote"}
      BY <1>a, <2>3, DrainHands
    <3>3. OwedInv'
      BY <3>1, <3>2 DEF OwedInv, Owed, QueuesNext
    <3> QED BY <3>1, <3>3
  <2> QED BY <1>8, <2>1, <2>2, <2>3 DEF Recover, FailureRecorded
<1>9. CASE TakeEnd
  <2>1. /\ fiber["drainer"].at = "rest" /\ Drain("drainer")
        /\ UNCHANGED <<inbox, handled, live>>
    BY <1>9 DEF TakeEnd, engine
  <2>2. /\ MarksInv' /\ (adrift' \/ queue' = <<>> \/ Promoting' \/ Starting')
        /\ QueuesNext => adrift' \/ Promoting' \/ Starting'
        /\ queue = <<>> => queue' = <<>>
    BY <1>a, <2>1, DrainOwes
  <2>3. fiber'["worker"] = fiber["worker"]
    BY <1>a, <2>1, DrainHands
  <2>4. QueuesNext' = QueuesNext
    BY <2>3 DEF QueuesNext
  <2>5. OwedInv'
    BY <2>2, <2>3, <2>4 DEF OwedInv, Owed
  <2> QED BY <2>2, <2>5
<1>10. CASE Requeue
  <2>1. /\ fiber["worker"].at = "starting" /\ fiber["worker"].saw /\ Rests("worker")
        /\ UNCHANGED <<draining, promised, adrift, inbox, handled, live, ended>>
    BY <1>10 DEF Requeue, engine, provider
  <2>2. fiber'["worker"].at = "rest" /\ fiber'["drainer"] = fiber["drainer"]
    BY <1>a, <2>1 DEF Rests, Rest
  <2>3. MarksInv' /\ (Promoting => Promoting') /\ Starting' = Starting
    BY <1>b, <2>1, <2>2
  <2>4. adrift' \/ live' # Nobody \/ ended' > 0 \/ Promoting' \/ Starting'
    BY <2>1, <2>3 DEF OwedInv, QueuesNext
  <2>5. OwedInv'
    BY <2>2, <2>4 DEF OwedInv, Owed, QueuesNext
  <2> QED BY <2>3, <2>5
<1>11. CASE Dispatch \/ StartTurn \/ StartFails \/ AnswerLost
  <2>1. /\ UNCHANGED <<draining, promised, adrift, inbox, handled>>
        /\ fiber["worker"].at # "promote"
        /\ \/ Goes("worker", "dispatch", fiber["worker"].msg)
           \/ Goes("worker", "failed", fiber["worker"].msg)
           \/ Goes("worker", "sent", fiber["worker"].msg) /\ live' = fiber["worker"].msg
              /\ fiber["worker"].at = "dispatch"
    BY <1>11 DEF Dispatch, StartTurn, StartFails, AnswerLost, engine, marks
  <2>2. /\ fiber'["drainer"] = fiber["drainer"]
        /\ \/ fiber'["worker"].at \in {"dispatch", "failed"}
           \/ fiber'["worker"].at = "sent" /\ live' # Nobody
    BY <1>a, <2>1 DEF Goes
  <2>3. MarksInv'
    BY <1>b, <2>1, <2>2
  <2>4. OwedInv'
    BY <2>2 DEF OwedInv, Owed, QueuesNext
  <2> QED BY <2>3, <2>4
<1>12. CASE Answered
  <2>1. /\ UNCHANGED <<draining, promised, adrift, inbox, handled, queue, live, ended>>
        /\ fiber["worker"].at = "sent" /\ Rests("worker")
    BY <1>12 DEF Answered, engine, marks, provider
  <2>2. fiber'["worker"].at = "rest" /\ fiber'["drainer"] = fiber["drainer"]
    BY <1>a, <2>1 DEF Rests, Rest
  <2>3. MarksInv' /\ (Promoting => Promoting') /\ Starting' = Starting
    BY <1>b, <2>1, <2>2
  <2>4. OwedInv'
    BY <2>1, <2>2, <2>3 DEF OwedInv, Owed, QueuesNext
  <2> QED BY <2>3, <2>4
<1>13. CASE StartCutShort \/ FailureUnrecorded
  <2>1. /\ UNCHANGED <<draining, promised, inbox, handled>> /\ adrift' = TRUE
        /\ fiber["worker"].at # "promote" /\ Rests("worker")
    BY <1>13 DEF StartCutShort, FailureUnrecorded, engine
  <2>2. fiber'["worker"].at = "rest" /\ fiber'["drainer"] = fiber["drainer"]
    BY <1>a, <2>1 DEF Rests, Rest
  <2>3. MarksInv'
    BY <1>b, <2>1, <2>2
  <2>4. OwedInv'
    BY <2>1, <2>2 DEF OwedInv, QueuesNext
  <2> QED BY <2>3, <2>4
<1>18. CASE StopIgnored
  <2>1. /\ Taking("stop")
        /\ UNCHANGED <<queue, draining, promised, adrift, fiber, handled, live, ended>>
    BY <1>18 DEF StopIgnored, marks, provider
  <2>2. Starting => Starting'
    BY <2>1, TakingStarting
  <2> QED BY <2>1, <2>2, QuietOwes
<1>14. CASE StopSession
  <2>1. /\ UNCHANGED <<draining, promised, adrift, inbox, handled, queue>>
        /\ fiber["worker"].at = "stop" /\ Rests("worker")
    BY <1>14 DEF StopSession, engine, marks
  <2>2. /\ fiber'["worker"].at = "rest" /\ fiber'["drainer"] = fiber["drainer"]
        /\ queue' = <<>>
    BY <1>a, <2>1 DEF Rests, Rest, OwedInv
  <2>3. MarksInv'
    BY <1>b, <2>1, <2>2
  <2>4. OwedInv'
    BY <2>2 DEF OwedInv, QueuesNext
  <2> QED BY <2>3, <2>4
<1>15. ASSUME NEW f \in Fibers, Promote(f) PROVE MarksInv' /\ OwedInv'
  <2>1. /\ fiber[f].at = "promote" /\ Rests(f) /\ draining' = FALSE
        /\ UNCHANGED <<queue, promised, adrift, handled, live, ended>>
        /\ Publish(Event("start", fiber[f].msg))
    BY <1>15 DEF Promote, provider
  <2>2. /\ Event("start", fiber[f].msg) \in Events /\ Event("start", fiber[f].msg).key = commands + 1
        /\ Event("start", fiber[f].msg).type = "start"
    BY <1>a DEF Event, Events, Hands
  <2>3. Starting'
    BY <2>1, <2>2, PublishStarting
  <2>4. MarksInv'
    BY <2>1, <2>3 DEF MarksInv
  <2>5. \/ fiber'["worker"].at = "rest"
        \/ fiber'["worker"] = fiber["worker"]
    BY <1>a, <2>1 DEF Rests, Rest
  <2>6. OwedInv'
    BY <2>1, <2>3, <2>5 DEF OwedInv, Owed, QueuesNext
  <2> QED BY <2>4, <2>6
<1>16. ASSUME NEW f \in Fibers, PromotionFails(f) PROVE MarksInv' /\ OwedInv'
  <2>1. /\ fiber[f].at = "promote" /\ Rests(f) /\ promised' = FALSE
        /\ adrift' = TRUE /\ UNCHANGED queue
    BY <1>16 DEF PromotionFails
  <2>2. \/ fiber'["worker"].at = "rest"
        \/ fiber'["worker"] = fiber["worker"]
    BY <1>a, <2>1 DEF Rests, Rest
  <2>3. OwedInv'
    BY <2>1, <2>2 DEF OwedInv, QueuesNext
  <2> QED BY <2>1, <2>3 DEF MarksInv
<1>17. CASE UNCHANGED vars
  <2>1. UNCHANGED <<queue, draining, promised, adrift, fiber, inbox, handled, live, ended>>
    BY <1>17 DEF vars, engine, marks, provider
  <2> QED BY <2>1, QuietOwes DEF Starting
<1> QED BY <1>1, <1>2, <1>3, <1>4, <1>5, <1>6, <1>7, <1>8, <1>9, <1>10, <1>11, <1>12, <1>13, <1>14,
           <1>15, <1>16, <1>17, <1>18 DEF Next, Worker, Promotion

\* When no turn runs and nothing is under way no message waits, unless since the last
\* promotion or stop a failing command cut a handler of ProviderCommandReactor.ts short
\* before its drain (1723, 1798, 1806, 1845), or a turn's end was drained between a look at
\* the provider and its re-queue (1701): the recovery drain, the drain after a refused turn
\* and the markers leave no other queue without a drain.
THEOREM NothingIsLeftWaiting == Spec => []NothingWaits
<1>1. Init => MarksInv /\ OwedInv
  BY DEF Init, MarksInv, OwedInv, QueuesNext, Rest, Fibers
<1>2. /\ TypeOK /\ KeysInv /\ PlacesInv /\ MarksInv /\ OwedInv /\ [Next]_vars
      => TypeOK' /\ KeysInv' /\ PlacesInv' /\ MarksInv' /\ OwedInv'
  BY TypeStep, PlacesStep, OwedStep
<1>3. TypeOK /\ OwedInv => NothingWaits
  <2> SUFFICES ASSUME TypeOK, OwedInv, AtRest, ~adrift PROVE queue = <<>>
    BY DEF NothingWaits
  <2>1. ~Owed
    BY DEF AtRest, Owed, Promoting, Starting, Fibers
  <2> QED BY <2>1 DEF OwedInv
<1> QED BY InitTypes, InitPlaces, <1>1, <1>2, <1>3, PTL DEF Spec
==============================================================================
