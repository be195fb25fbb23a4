---------------------------- MODULE MCConnection ----------------------------
(* Connection with the configured inverter and one other.                  *)
EXTENDS Connection
=============================================================================
