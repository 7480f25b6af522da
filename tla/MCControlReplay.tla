-------------------------- MODULE MCControlReplay --------------------------
(* Model-checking instances of ControlReplay. *)
EXTENDS MCControlCore, ControlReplay
=============================================================================
