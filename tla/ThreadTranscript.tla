--------------------------- MODULE ThreadTranscript ---------------------------
(***************************************************************************)
(* What the store of the web client makes of the snapshots and events      *)
(* ThreadDetailSync delivers: the queue of the event router, emptied by a  *)
(* throttler (apps/web/src/routes/__root.tsx), and the text of the message *)
(* in the store, where a snapshot competes with the live text              *)
(* (apps/web/src/store.ts).  Every step of this module is a step of        *)
(* ThreadDetailSync, or leaves its variables alone.                        *)
(***************************************************************************)
EXTENDS ThreadDetailSync

VARIABLES
    queue,          \* pendingDomainEvents
    opened,         \* immediatelyFlushedAssistantMessageIds has the message
    text            \* the message in the store: the deltas appended to it

store == <<queue, opened, text>>

\* queueDomainEvent for each of es, on top of the text base.  The first delta
\* of a message is applied at once, the others wait for the throttler.
Queue(es, base) ==
    IF opened \/ es = <<>>
    THEN /\ queue' = queue \o es
         /\ text' = base
         /\ UNCHANGED opened
    ELSE /\ queue' = Tail(es)
         /\ text' = base \o queue \o <<Head(es)>>
         /\ opened' = TRUE

\* syncServerThreadDetailHotPath keeps the longer text.
Merged(rows) == IF Len(text) > rows THEN text ELSE [i \in 1..rows |-> i]

ApplySnapshot ==
    /\ DeliverSnapshot
    /\ Queue(Late, Merged(snap.rows))

ApplyNew(e) ==
    /\ DeliverNew(e)
    /\ Queue(<<e>>, text)

ApplyReplay(n) ==
    /\ ReceiveReplay(n)
    /\ Queue(Sorted(Replayed(n)), text)

\* The throttler: coalesced deltas are appended to the message.
Flush ==
    /\ queue # <<>>
    /\ text' = text \o queue
    /\ queue' = <<>>
    /\ UNCHANGED <<vars, opened>>

\* The steps that reach the store, and all the others.
Applies ==
    \/ ApplySnapshot
    \/ \E e \in Elements(buffer) : ApplyNew(e)
    \/ \E n \in 0..MaxEvents : ApplyReplay(n)
    \/ Flush

Others ==
    /\ \/ Engine
       \/ Transport
       \/ Navigate \/ Enter \/ Leave \/ Welcome
       \/ \E e \in Elements(buffer) : DeliverEarly(e) \/ DeliverKnown(e)
       \/ AskSnapshot \/ AskReplay \/ ReplayFails
    /\ UNCHANGED store

TranscriptInit == Init /\ queue = <<>> /\ opened = FALSE /\ text = <<>>

TranscriptSpec == TranscriptInit /\ [][Applies \/ Others]_<<vars, store>>

------------------------------------------------------------------------------
\* EventRouter.browser.tsx:444 "drops duplicate thread events after the thread
\* snapshot sequence advances": no delta is in the text twice.
AppliedOnce == \A i, j \in DOMAIN text : text[i] = text[j] => i = j
==============================================================================
