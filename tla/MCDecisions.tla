---------------------------- MODULE MCDecisions ----------------------------
(* Decisions in every mode, on a scale of a few watts, with the powers of  *)
(* a small inverter.                                                       *)
EXTENDS Decisions, ModePowers

SomeSurpluses == -3 .. 3

Reports ==
    [feedMode : {NoReading, "limited", "unlimited", "limited_percent"}, cap : {NoReading, 0, 2},
     percent : {NoReading, 50}, rated : {NoReading, 0, 2}, capacity : {NoReading, 1},
     configured : {NoReading, 1}]

ThePowers == PowersOf(Modes, {-1, 0, 4}, Reports)
MCPowers == ThePowers
=============================================================================
