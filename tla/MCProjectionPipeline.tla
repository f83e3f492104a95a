------------------------ MODULE MCProjectionPipeline ------------------------
(***************************************************************************)
(* Four projectors, one of each kind: projects (moved by project events,   *)
(* reset by repair), threadMessages (streamed text, reset by repair),      *)
(* threadTurns (hot, never reset) and the deferred threadShellSummaries.   *)
(***************************************************************************)
EXTENDS ProjectionPipeline, TLC

MCOrder == <<"projects", "messages", "turns", "shell">>

MCPredicates ==
    "projects" :> {"project"} @@ "messages" :> {"delta", "complete"}
        @@ "turns" :> {"turn", "complete"} @@ "shell" :> {"turn"}

MCMatches == [p \in DOMAIN MCPredicates |-> MCPredicates[p] \cap Types]
=============================================================================
