-------------------------- MODULE MCProviderSessions --------------------------
(***************************************************************************)
(* Small instances of ProviderSessions; the configurations give every      *)
(* constant.                                                               *)
(***************************************************************************)
EXTENDS ProviderSessions
==============================================================================
