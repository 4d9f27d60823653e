--------------------------- MODULE MCControlChannel ---------------------------
(* ControlChannel on small instances, see the configurations. *)
EXTENDS ControlChannel, TLC
================================================================================
