-------------------------- MODULE MCThreadTranscript --------------------------
(***************************************************************************)
(* A small instance of ThreadTranscript; the configuration gives every     *)
(* constant.                                                               *)
(***************************************************************************)
EXTENDS ThreadTranscript
==============================================================================
