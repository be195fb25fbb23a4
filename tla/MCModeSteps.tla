---------------------------- MODULE MCModeSteps ----------------------------
(* Export Solar First with a first wait of 2 that doubles once, and the    *)
(* limits of an inverter with a small export cap.                          *)
EXTENDS ModeSteps, ModePowers

AnySurplus == -2 .. 3

Reports ==
    [feedMode : {NoReading, "limited", "unlimited"}, cap : {NoReading, 0, 4},
     percent : {NoReading}, rated : {NoReading, 3}, capacity : {NoReading},
     configured : {NoReading}]

MCLimits == PowersOf({"solarFirst"}, {0, 5}, Reports)
=============================================================================
