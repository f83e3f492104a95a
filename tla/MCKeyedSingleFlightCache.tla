---------------------- MODULE MCKeyedSingleFlightCache ----------------------
(***************************************************************************)
(* A small instance of KeyedSingleFlightCache: three callers, so that a    *)
(* load loses one waiter and keeps another while a third finds the maps    *)
(* changed, and two keys that compete for one entry.                       *)
(***************************************************************************)
EXTENDS KeyedSingleFlightCache

CONSTANTS k1, k2, a, b, c, l1, l2
=============================================================================
