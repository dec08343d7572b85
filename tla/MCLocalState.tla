---------------------------- MODULE MCLocalState ----------------------------
(* One machine, two peers and two keys they may present.                   *)
EXTENDS LocalState
=============================================================================
