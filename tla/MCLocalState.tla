------------------------------ MODULE MCLocalState ------------------------------
(* LocalState for TLC. The run checks liveness, so it declares no symmetry. *)
EXTENDS LocalState
=============================================================================
