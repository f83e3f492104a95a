-------------------------- MODULE MCThreadDetailSync --------------------------
(***************************************************************************)
(* Small instances of ThreadDetailSync; the configurations give every      *)
(* constant.                                                               *)
(***************************************************************************)
EXTENDS ThreadDetailSync
==============================================================================
