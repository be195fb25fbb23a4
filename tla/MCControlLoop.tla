--------------------------- MODULE MCControlLoop ---------------------------
(* ControlLoop with two commands on one method and one on the other.       *)
EXTENDS ControlLoop
=============================================================================
