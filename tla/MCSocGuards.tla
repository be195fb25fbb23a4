---------------------------- MODULE MCSocGuards ----------------------------
(* SocGuards on a scale of a few levels.                                   *)
EXTENDS SocGuards
=============================================================================
