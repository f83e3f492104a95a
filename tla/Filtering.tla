------------------------------- MODULE Filtering -------------------------------
(***************************************************************************)
(* Keeping some elements of a sequence, in order: what Array.filter does,  *)
(* and what deleting keys does to the insertion order of a Map.  It is     *)
(* SelectSeq with a set for its test, as a function, which is the form the *)
(* provers can reason about.                                               *)
(***************************************************************************)
EXTENDS Naturals, Sequences

\* The elements of s that are in S.
Filtered(s, S) ==
    LET kept[n \in 0..Len(s)] ==
            IF n = 0 THEN <<>>
            ELSE IF s[n] \in S THEN Append(kept[n - 1], s[n]) ELSE kept[n - 1]
    IN  kept[Len(s)]

\* 1, ..., n
UpTo(n) == [i \in 1..n |-> i]
==============================================================================
