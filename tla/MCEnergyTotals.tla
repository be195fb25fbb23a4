--------------------------- MODULE MCEnergyTotals ---------------------------
(* EnergyTotals over three days of two units of time.                    *)
EXTENDS EnergyTotals
=============================================================================
