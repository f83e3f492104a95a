----------------------- MODULE MCOrchestrationEngine -----------------------
(***************************************************************************)
(* Small instances of OrchestrationEngine.  In MCCommandOf two dispatches  *)
(* carry the same command id (a client that retries) and one carries       *)
(* another; the two commands touch two threads.                            *)
(***************************************************************************)
EXTENDS OrchestrationEngine, TLC

CONSTANTS d1, d2, d3, c1, c2, t1, t2

MCCommandOf  == d1 :> c1 @@ d2 :> c1 @@ d3 :> c2
MCTwoThreads == [c \in Commands |-> IF c = c1 THEN t1 ELSE t2]
=============================================================================
