---------------------------- MODULE MCControlTest ---------------------------
(***************************************************************************)
(* Three tests of two methods over two setpoints, one of them commanded in *)
(* both directions.                                                        *)
(***************************************************************************)
EXTENDS ControlTest, TLC

CONSTANTS ByBattery, BySystem, BatteryPower, SystemPower

MCTests == <<[method |-> ByBattery, key |-> BatteryPower, sign |-> 1],
             [method |-> ByBattery, key |-> BatteryPower, sign |-> -1],
             [method |-> BySystem, key |-> SystemPower, sign |-> -1]>>
MCKeys == <<BatteryPower, SystemPower>>

MCFirmwares == {{}, {ByBattery}}

\* What flows by itself is just what a charge and a feed ask for.
MCFlows == {(BatteryPower :> 2 @@ SystemPower :> -2)}

\* A cap that allows what is asked and leaves nothing else to choose.
MCCaps == {2}
MCFound == {(BatteryPower :> 3 @@ SystemPower :> 0)}
=============================================================================
