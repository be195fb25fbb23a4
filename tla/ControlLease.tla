---------------------------- MODULE ControlLease ----------------------------
(***************************************************************************)
(* What the heartbeat promises to the rest of the integration: authority   *)
(* over the inverter is a lease.  The inverter grants it and lets it run   *)
(* out on its own; the integration may believe it holds the lease only     *)
(* after a grant, and must stop believing no later than the lease ends.    *)
(***************************************************************************)
VARIABLES
    granted,   \* the inverter obeys Modbus commands
    believed   \* Heartbeat.in_control

lease == <<granted, believed>>

Init == granted \in BOOLEAN /\ believed = FALSE

Grant == granted' = TRUE /\ UNCHANGED believed

Learn == granted /\ believed' = TRUE /\ UNCHANGED granted

Lapse == believed' = FALSE /\ granted' \in {granted, FALSE}

Next == Grant \/ Learn \/ Lapse

Spec == Init /\ [][Next]_lease
=============================================================================
