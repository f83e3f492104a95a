---------------------------- MODULE CommandLedger ----------------------------
(***************************************************************************)
(* What the orchestration engine promises to the callers of dispatch, with *)
(* no queue, no worker, no lock, no read model and no projections:         *)
(*                                                                         *)
(*   - the events of a command enter the log in one piece, at most once    *)
(*     for each command id, however often the command is dispatched;       *)
(*   - an answer agrees with what is stored: "ok" carries the sequence of  *)
(*     the accepted receipt, "rejected" means a stored rejection, and a    *)
(*     failure is only reported for a dispatch whose events are not in the *)
(*     log and never will be.                                              *)
(*                                                                         *)
(* OrchestrationEngine implements this module                              *)
(* (apps/server/src/orchestration/Services/OrchestrationEngine.ts:48-60).  *)
(***************************************************************************)
EXTENDS Naturals, Sequences

CONSTANTS
    Dispatches,     \* calls of dispatch
    Commands,       \* command ids
    CommandOf,      \* the command id each dispatch carries
    MaxBatch        \* the most events one command is decided into

VARIABLES
    log,            \* orchestration_events: <<[command, dispatch], ...>>
    receipts,       \* orchestration_command_receipts, by command id
    reply           \* what the caller of each dispatch has been told

vars == <<log, receipts, reply>>

Stored(d)     == receipts[CommandOf[d]]
InLog(d)      == \E i \in DOMAIN log : log[i].dispatch = d
Waiting(d)    == reply[d].kind = "waiting"
Failures      == {"invariant", "internal", "timeout"}
Batch(d, n)   == [i \in 1..n |-> [command |-> CommandOf[d], dispatch |-> d]]

Init ==
    /\ log = <<>>
    /\ receipts = [c \in Commands |-> [status |-> "none", seq |-> 0]]
    /\ reply = [d \in Dispatches |-> [kind |-> "idle", seq |-> 0]]

Ask(d) ==
    /\ reply[d].kind = "idle"
    /\ reply' = [reply EXCEPT ![d] = [kind |-> "waiting", seq |-> 0]]
    /\ UNCHANGED <<log, receipts>>

\* The batch and the accepted receipt appear together.
Accept(d, n) ==
    /\ Waiting(d)
    /\ Stored(d).status = "none"
    /\ log' = log \o Batch(d, n)
    /\ receipts' = [receipts EXCEPT ![CommandOf[d]] =
                        [status |-> "accepted", seq |-> Len(log) + n]]
    /\ UNCHANGED reply

Reject(d) ==
    /\ Waiting(d)
    /\ Stored(d).status = "none"
    /\ \E n \in 0..Len(log) :
        receipts' = [receipts EXCEPT ![CommandOf[d]] =
                        [status |-> "rejected", seq |-> n]]
    /\ UNCHANGED <<log, reply>>

TellOk(d) ==
    /\ Waiting(d)
    /\ Stored(d).status = "accepted"
    /\ reply' = [reply EXCEPT ![d] = [kind |-> "ok", seq |-> Stored(d).seq]]
    /\ UNCHANGED <<log, receipts>>

TellRejected(d) ==
    /\ Waiting(d)
    /\ Stored(d).status = "rejected"
    /\ reply' = [reply EXCEPT ![d] = [kind |-> "rejected", seq |-> 0]]
    /\ UNCHANGED <<log, receipts>>

TellFailure(d, why) ==
    /\ Waiting(d)
    /\ ~InLog(d)
    /\ reply' = [reply EXCEPT ![d] = [kind |-> why, seq |-> 0]]
    /\ UNCHANGED <<log, receipts>>

\* The process dies: whoever was waiting is never answered.
Abort ==
    /\ reply' = [d \in Dispatches |->
                    IF Waiting(d) THEN [kind |-> "lost", seq |-> 0] ELSE reply[d]]
    /\ UNCHANGED <<log, receipts>>

Next ==
    \/ \E d \in Dispatches :
        \/ Ask(d)
        \/ \E n \in 1..MaxBatch : Accept(d, n)
        \/ Reject(d)
        \/ TellOk(d)
        \/ TellRejected(d)
        \/ \E why \in Failures : TellFailure(d, why)
    \/ Abort

Spec == Init /\ [][Next]_vars
==============================================================================
