------------------------------ MODULE MCTurnQueue ------------------------------
(***************************************************************************)
(* A few messages of one thread, each queued or steering.                  *)
(***************************************************************************)
EXTENDS TurnQueue, TLC
===============================================================================
