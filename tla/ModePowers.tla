----------------------------- MODULE ModePowers ----------------------------
(***************************************************************************)
(* What a mode's power comes to (control.py): what is set for it, bounded  *)
(* by everything the command has to pass.  ModeSteps and Decisions take    *)
(* their limits and powers from any set; here are those the program works  *)
(* out.  Powers are whole watts.                                           *)
(***************************************************************************)
EXTENDS Integers, FiniteSetsExt

CONSTANTS
    NoReading,      \* not reported, or of no known meaning
    FallbackMax,    \* CONTROL_POWER_FALLBACK_MAX
    CapMargin       \* SOLAR_EXPORT_CAP_MARGIN_W

(* CONTROL_FEATURES: which modes have a power, and what bounds it: the     *)
(* maximum the firmware reports, the one configured, the capacity of the   *)
(* inverter's converter, its rating.                                       *)
CONTROL_FEATURES ==
    [charge     |-> {"power", "configured", "rating"},
     discharge  |-> {"power", "configured", "capacity", "rating"},
     export     |-> {"power", "reported", "capacity", "rating"},
     import     |-> {"power", "configured"},
     solarFirst |-> {"power", "capacity", "rating", "exportCap"},
     automatic  |-> {"rating"},
     hold       |-> {"rating"}]

(* No cap at all: more than any power, even with the margin taken off.     *)
Uncapped == FallbackMax + CapMargin + 1

(* _device_export_limit, from inputs                                       *)
(* [feedMode, cap, percent, rated, capacity, configured].                  *)
DeviceExportLimit(inputs) ==
    CASE inputs.feedMode = "unlimited" -> Uncapped
      [] inputs.feedMode = "limited" -> inputs.cap
      [] inputs.feedMode = "limited_percent" ->
            IF inputs.percent = NoReading \/ inputs.rated \in {NoReading, 0} THEN NoReading
            ELSE (inputs.rated * inputs.percent) \div 100
      [] OTHER -> NoReading

(* _control_power_ceiling: zero means not reported or not configured, and  *)
(* bounds nothing; nor does a cap too small to stay under.                 *)
ControlPowerCeiling(m, inputs, live) ==
    LET limit == DeviceExportLimit(inputs)
        bound(kind, value) ==
            IF kind \in CONTROL_FEATURES[m] /\ value \notin {NoReading, 0} THEN {value} ELSE {}
    IN  Min({FallbackMax}
            \cup bound("reported", inputs.cap)
            \cup bound("configured", inputs.configured)
            \cup (IF live THEN bound("capacity", inputs.capacity) ELSE {})
            \cup bound("rating", inputs.rated)
            \cup (IF limit # NoReading /\ limit > CapMargin THEN bound("exportCap", limit) ELSE {}))

(* _clamp_power                                                            *)
ClampPower(watts, m, inputs, live) ==
    Max({0, Min({watts, ControlPowerCeiling(m, inputs, live)})})

(* async_select_feature, async_set_command: what is set is kept within the *)
(* ceilings that do not move from poll to poll.                            *)
Stored(watts, m, inputs) == ClampPower(watts, m, inputs, FALSE)

(* _solar_export_target: just under the device's cap, where there is one.  *)
SolarExportTarget(set, inputs) ==
    LET limit == DeviceExportLimit(inputs)
    IN  IF limit = NoReading THEN NoReading
        ELSE IF limit <= CapMargin THEN NoReading
        ELSE Min({ClampPower(set, "solarFirst", inputs, TRUE), limit - CapMargin})

(* _mode_power                                                             *)
ModePower(m, set, inputs) ==
    IF m = "solarFirst" THEN SolarExportTarget(set, inputs)
    ELSE IF "power" \in CONTROL_FEATURES[m] THEN ClampPower(set, m, inputs, TRUE)
    ELSE NoReading

(* Every power that modes ms may come to, once one of `watts` was set with *)
(* some of `reports` and the command is worked out with others.            *)
PowersOf(ms, watts, reports) ==
    LET set(m) == {Stored(w, m, inputs) : w \in watts, inputs \in reports}
        powers(m) == {ModePower(m, s, inputs) : s \in set(m), inputs \in reports}
    IN  UNION {powers(m) : m \in ms} \ {NoReading}
============================================================================
