----------------------------- MODULE ModeSteps -----------------------------
(***************************************************************************)
(* The steps of a Battery Mode that adapts to the solar surplus (plans.py).*)
(* Export Solar First is the one mode that does: it leaves the inverter to *)
(* itself in a deficit, keeps the battery from charging in a surplus, and  *)
(* exports at its limit above that.  ModeState remembers the zone the      *)
(* surplus is in, the step that runs, and for each step how long it has to *)
(* wait before it may run again.                                           *)
(*                                                                         *)
(* Powers and times are whole numbers of any unit; instants are kept as    *)
(* their age, which stops where no comparison can tell it any more.        *)
(***************************************************************************)
EXTENDS Integers

CONSTANTS
    Surpluses,      \* the surpluses that are read
    Limits,         \* what the mode's power comes to
    Unknown,           \* no surplus known, no limit (nothing may be exported)
    Deadband,       \* GUARD_POWER_DEADBAND_W
    HandbackTime,   \* GUARD_HANDBACK_S
    HandbackMax     \* GUARD_HANDBACK_MAX_S

ASSUME PowersAreWhole ==
    /\ Surpluses \subseteq Int /\ Limits \subseteq Nat
    /\ Unknown \notin Int
    /\ Deadband \in Nat

ASSUME TimesAreOrdered ==
    /\ HandbackTime \in Nat \ {0} /\ HandbackMax \in Nat
    /\ HandbackTime <= HandbackMax

Zones == {"deficitAboveLimit", "deficit", "surplus", "surplusAboveLimit"}
SurplusZones == {"surplus", "surplusAboveLimit"}
Steps == {"automatic", "withoutCharging", "export"}

Readings == [surplus : Surpluses \cup {Unknown}, limit : Limits \cup {Unknown}, full : BOOLEAN]

VARIABLES
    zone, step,     \* where the surplus was found, and what runs
    since,          \* how long the step has been running, up to HandbackTime
    cooldown,       \* _cooldown_s
    away,           \* how long ago each step was left (_left_at), up to HandbackMax
    reading,        \* what choose was last called with
    briefs          \* history: how often each step was brief, in a row, up to
                    \* where its wait no longer doubles

modeVars == <<zone, step, since, cooldown, away, reading, briefs>>

-----------------------------------------------------------------------------
(* MODES[EXPORT_SOLAR_FIRST] and Mode.step_for.                            *)
StepFor(z) ==
    CASE z = "surplusAboveLimit" -> "export"
      [] z = "surplus" -> "withoutCharging"
      [] OTHER -> "automatic"

CloserToZero(z) == IF z = "surplusAboveLimit" THEN "surplus" ELSE "deficit"

(* Slips, here and below: only the limits end a surplus; a brief step      *)
(* never runs again; every step left has to wait.                          *)
ZoneForSticky(s, l, current) ==
    IF s >= l \/ (current = "surplusAboveLimit" /\ s >= l - Deadband) THEN "surplusAboveLimit"
    ELSE IF s <= -l THEN "deficitAboveLimit"
    ELSE IF current \notin SurplusZones /\ s <= Deadband THEN "deficit"
    ELSE "surplus"

(* zone_for: a zone is left only clearly outside it.                       *)
ZoneFor(s, l, current) ==
    IF s >= l \/ (current = "surplusAboveLimit" /\ s >= l - Deadband) THEN "surplusAboveLimit"
    ELSE IF s <= -l \/ (current = "deficitAboveLimit" /\ s <= Deadband - l)
    THEN "deficitAboveLimit"
    ELSE IF s < -Deadband \/ (current \notin SurplusZones /\ s <= Deadband) THEN "deficit"
    ELSE "surplus"

MaySwitchToOnce(s) == s = step \/ cooldown[s] = 0

MaySwitchTo(s) == s = step \/ away[s] >= cooldown[s]

(* The zone choose looks for, before any step has to wait: a full battery  *)
(* takes nothing, so there is nothing to decide about a surplus.           *)
Wanted(r) ==
    LET z == IF r.surplus = Unknown \/ r.limit = Unknown THEN "deficit"
             ELSE ZoneFor(r.surplus, r.limit, zone)
    IN  IF r.full /\ z \in SurplusZones THEN "deficit" ELSE z

(* Its loop: while a step has to wait, its zone runs like the neighbour    *)
(* closer to zero.  It ends at the deficit, which TheWalkEnds is about.    *)
Chosen(r) ==
    LET z == Wanted(r)
    IN  IF MaySwitchTo(StepFor(z)) THEN z
        ELSE IF MaySwitchTo(StepFor(CloserToZero(z))) THEN CloserToZero(z)
        ELSE "deficit"

Larger(a, b) == IF a > b THEN a ELSE b
Smaller(a, b) == IF a < b THEN a ELSE b

Wait(before) == Smaller(Larger(2 * before, HandbackTime), HandbackMax)

SwitchToAlwaysWaiting(s) ==
    IF s = step THEN UNCHANGED <<step, since, cooldown, away, briefs>>
    ELSE LET brief == since < HandbackTime
         IN  /\ step' = s /\ since' = 0
             /\ cooldown' = [cooldown EXCEPT ![step] = IF brief THEN Wait(cooldown[step]) ELSE 0]
             /\ away' = [away EXCEPT ![step] = 0]
             /\ briefs' = [briefs EXCEPT ![step] =
                              IF ~brief THEN 0 ELSE IF @ < HandbackMax THEN @ + 1 ELSE @]

(* _switch_to: a step left within HandbackTime waits twice as long as the  *)
(* last time.  The deficit's step never waits.                             *)
SwitchTo(s) ==
    IF s = step THEN UNCHANGED <<step, since, cooldown, away, briefs>>
    ELSE LET brief == since < HandbackTime
         IN  /\ step' = s /\ since' = 0
             /\ IF step = "automatic" THEN UNCHANGED <<cooldown, away, briefs>>
                ELSE /\ cooldown' = [cooldown EXCEPT ![step] = IF brief THEN Wait(cooldown[step]) ELSE 0]
                     /\ away' = [away EXCEPT ![step] = 0]
                     /\ briefs' = [briefs EXCEPT ![step] =
                                      IF ~brief THEN 0 ELSE IF @ < HandbackMax THEN @ + 1 ELSE @]

-----------------------------------------------------------------------------
Never == [s \in Steps |-> 0]
LongAgo == [s \in Steps |-> HandbackMax]

(* A new ModeState; no step has run, and none has to wait.                 *)
ModeInit ==
    /\ zone = "deficit" /\ step = "automatic" /\ since = 0
    /\ cooldown = Never /\ away = LongAgo /\ briefs = Never
    /\ reading = [surplus |-> Unknown, limit |-> Unknown, full |-> FALSE]

(* ModeState.choose, from any readings.                                    *)
Choose ==
    /\ reading' \in Readings
    /\ zone' = Chosen(reading')
    /\ SwitchTo(StepFor(zone'))

(* _desired_command starts over when another mode was selected, or the     *)
(* switch was off.                                                         *)
StartOver ==
    /\ zone' = "deficit" /\ step' = "automatic" /\ since' = 0
    /\ cooldown' = Never /\ away' = LongAgo /\ briefs' = Never
    /\ reading' = [surplus |-> Unknown, limit |-> Unknown, full |-> FALSE]

Older(age, cap) == IF age < cap THEN age + 1 ELSE age

(* Time passes; polls may fail, or control steps aside and asks nothing.   *)
Tick ==
    /\ since' = Older(since, HandbackTime)
    /\ away' = [s \in Steps |-> Older(away[s], HandbackMax)]
    /\ UNCHANGED <<zone, step, cooldown, reading, briefs>>

ModeNext == Choose \/ StartOver \/ Tick

ModeSpec == ModeInit /\ [][ModeNext]_modeVars

(* The coordinator polls for ever, and time passes.                        *)
FairModeSpec == ModeSpec /\ WF_modeVars(Choose) /\ WF_modeVars(Tick)

-----------------------------------------------------------------------------
ModeTypeOK ==
    /\ zone \in Zones /\ step \in Steps
    /\ since \in 0 .. HandbackTime
    /\ cooldown \in [Steps -> 0 .. HandbackMax]
    /\ away \in [Steps -> 0 .. HandbackMax]
    /\ reading \in Readings
    /\ briefs \in [Steps -> 0 .. HandbackMax]

(* The walk of choose towards zero always finds a step that may run: it is *)
(* a loop without a bound, in the middle of the event loop.                *)
TheWalkEnds == MaySwitchTo(StepFor("deficit"))

(* The house comes first: whatever ran and whatever has to wait, a clear   *)
(* deficit, or readings nothing can be decided from, leave the inverter to *)
(* itself at once.                                                         *)
NothingToExport(r) ==
    r.surplus = Unknown \/ r.limit = Unknown \/ r.full \/ (r.surplus < -Deadband /\ r.surplus < r.limit - Deadband)

NeedIsServedAtOnce == \A r \in Readings : NothingToExport(r) => StepFor(Chosen(r)) = "automatic"

(* The n-th brief run in a row makes a step wait 2^(n-1) times the first   *)
(* wait, so that a surplus wandering around a limit rewrites the method of *)
(* the inverter less and less often.                                       *)
Doubled[n \in 0 .. HandbackMax] == IF n = 0 THEN HandbackTime ELSE 2 * Doubled[n - 1]

WaitAfter(n) == IF n = 0 THEN 0 ELSE Smaller(Doubled[n - 1], HandbackMax)

BriefStepsWaitLonger ==
    [][\A s \in Steps \ {step, "automatic"} :
          step' = s /\ ~StartOver => away[s] >= WaitAfter(briefs[s])]_modeVars

(* Waits are not for ever: a surplus that stays above the limit is in the  *)
(* end exported for good, and so is, or is kept for the grid, any that     *)
(* stays clear of zero.                                                    *)
ClearSurplus(r) == r.surplus # Unknown /\ r.limit # Unknown /\ ~r.full /\ r.surplus > Deadband

SurplusIsExportedInTheEnd ==
    /\ <>[](ClearSurplus(reading) /\ reading.surplus >= reading.limit) => <>[](step = "export")
    /\ <>[]ClearSurplus(reading) => <>[](step # "automatic")
=============================================================================
