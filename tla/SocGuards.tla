----------------------------- MODULE SocGuards -----------------------------
(***************************************************************************)
(* The Charge Limit and the Battery Reserve of control.py: two guards that *)
(* latch at a limit and release a hysteresis away from it, from readings   *)
(* that can be missing, wrong or frozen (SystemSocMismatch and             *)
(* FrozenReadings of reading_checks.py), under limits the user and the app *)
(* change, across restarts.  Levels are whole percent.                     *)
(***************************************************************************)
EXTENDS Integers

CONSTANTS
    Top,                \* 100 %, at which the Charge Limit is off
    Hysteresis,         \* GUARD_SOC_HYSTERESIS
    Return,             \* GUARD_RETURN_SOC
    PackMargin,         \* SOC_PACK_MARGIN
    ChargeLimits,       \* what the user may set
    Reserves,           \* what the user, or the app, may set; 0 is off
    None,               \* no reading
    Misreads            \* may the system read 0 while its packs are charged?

Levels == 0 .. Top

ASSUME LevelsAreOrdered ==
    /\ Top \in Nat /\ Hysteresis \in Nat /\ PackMargin \in Nat
    /\ Return \in 1 .. Hysteresis
    /\ ChargeLimits \subseteq Levels /\ Reserves \subseteq Levels
    /\ None \notin Levels

ASSUME MisreadsIsBoolean == Misreads \in BOOLEAN

VARIABLES
    native,         \* the inverter itself keeps the reserve; never changes
    reading,        \* _inputs.battery_soc
    minSoc,         \* _inputs.min_soc_limit
    believed,       \* SystemSocMismatch._last_believed
    suspect,        \* ReadingChecks.suspect
    automatic,      \* _feature is AUTOMATIC
    limit,          \* _charge_limit_soc
    reserve,        \* _battery_reserve_soc
    reserveCharge,  \* _reserve_charge
    guards,         \* _charge_guard, _charge_stopped, _reserve_guard, _reserve_stopped
    charging,       \* _reserve_charging and the app_reserve_charges it rests on
    setting,        \* the native reserve a command is writing, None if none
    saved,          \* the limits, the setting and the latches as last saved
    judged          \* history: the reading the guards were last worked out from,
                    \* None once a limit has changed without one

inputs == <<reading, minSoc, believed, suspect>>
settings == <<limit, reserve, reserveCharge>>
vars == <<native, inputs, automatic, settings, guards, charging, setting, saved, judged>>

Latches == [charge : BOOLEAN, chargeStopped : BOOLEAN,
            reserve : BOOLEAN, reserveStopped : BOOLEAN]

Off == [charge |-> FALSE, chargeStopped |-> FALSE, reserve |-> FALSE, reserveStopped |-> FALSE]
NotCharging == [now |-> FALSE, app |-> FALSE]

-----------------------------------------------------------------------------
(* _update_guards: each guard latches at its limit l and releases well     *)
(* clear of it, the stop at the limit already closer to it; s is the level.*)
ChargeGuard(on, s, l) ==
    l < Top /\ (s >= l \/ (on /\ s > l - Hysteresis))

ReserveGuard(on, s, l) ==
    l > 0 /\ (s <= l \/ (on /\ s < l + Hysteresis))

(* Slips, here and below: a stop without its return band; guards worked    *)
(* out before the limits are stored.                                       *)
ChargeStoppedAtTheLimit(on, guard, s, l) == guard /\ s >= l

ChargeStopped(on, guard, s, l) ==
    guard /\ s > l - Return /\ (s >= l \/ on)

ReserveStopped(on, guard, s, l) ==
    guard /\ s < l + Return /\ (s <= l \/ on)

UpdateGuards(g, s, l, r) ==
    LET charge == ChargeGuard(g.charge, s, l)
        floor  == ReserveGuard(g.reserve, s, r)
    IN  [charge |-> charge, chargeStopped |-> ChargeStopped(g.chargeStopped, charge, s, l),
         reserve |-> floor, reserveStopped |-> ReserveStopped(g.reserveStopped, floor, s, r)]

(* ... and whether the battery is charged from the grid up to the reserve. *)
UpdateCharging(guard, s, r, app, wanted, auto) ==
    LET appCharges == ~native /\ app # None /\ app > s
        itself     == auto /\ app # None /\ app >= r
    IN  [app |-> appCharges,
         now |-> (wanted \/ appCharges) /\ ~native /\ ~guard /\ ~itself /\ s < r]

(* _update_limits before it works the guards out: a changed limit starts   *)
(* its latch afresh, where a reading can work it out again.                *)
Afresh(g, s, l, r) ==
    IF s = None THEN g
    ELSE [g EXCEPT !.charge = @ /\ l = limit, !.reserve = @ /\ r = reserve]

WorkBeforeStoring(s, app, l, r, wanted, auto, may) ==
    LET works == s # None /\ (<<l, r>> # <<limit, reserve>> \/ may)
    IN  /\ limit' = l /\ reserve' = r
        /\ guards' = IF works THEN UpdateGuards(guards, s, limit, reserve) ELSE guards
        /\ charging' = IF works
                       THEN UpdateCharging(guards'.charge, s, r, app, wanted, auto)
                       ELSE charging
        /\ judged' = IF works THEN s ELSE judged

(* What _update_limits to l and r, and then an apply that works the guards *)
(* out if may, make of the state, from the readings s and app.             *)
Work(s, app, l, r, wanted, auto, may) ==
    LET changed == <<l, r>> # <<limit, reserve>>
        works   == s # None /\ (changed \/ may)
        g       == IF changed THEN Afresh(guards, s, l, r) ELSE guards
    IN  /\ limit' = l /\ reserve' = r
        /\ guards' = IF works THEN UpdateGuards(g, s, l, r) ELSE g
        /\ charging' = IF works
                       THEN UpdateCharging(guards'.charge, s, r, app, wanted, auto)
                       ELSE charging
        /\ judged' = IF works THEN s ELSE IF changed THEN None ELSE judged

-----------------------------------------------------------------------------
Init ==
    /\ native \in BOOLEAN
    /\ reading = None /\ minSoc = None /\ believed = None /\ suspect = FALSE
    /\ automatic = TRUE
    /\ limit = Top /\ reserve = 0 /\ reserveCharge = FALSE
    /\ guards = Off /\ charging = NotCharging
    /\ setting = None
    /\ saved = [limit |-> limit, reserve |-> reserve, charge |-> FALSE, guards |-> guards]
    /\ judged = None

(* SystemSocMismatch: a drop to 0 from a level no battery empties from, or *)
(* with none believed yet, while a pack reports more.                      *)
Mismatch(s, pack) ==
    s = 0 /\ (IF believed = None THEN pack > PackMargin ELSE believed > 2 * PackMargin)

(* _follow_native_reserve: the app may have changed it.                    *)
FollowNativeReserve(app) == IF native /\ app # None THEN app ELSE reserve

(* async_poll with a new frame, whose system level is s and whose own      *)
(* reserve (min_soc_limit) is app: the checks, _follow_native_reserve and  *)
(* the guards, which a suspect frame leaves.                               *)
FrameRead(s, pack, app, frozen) ==
    LET mismatch == s # None /\ Mismatch(s, pack)
        suspicious == mismatch \/ frozen
    IN  /\ frozen => s = reading
        /\ reading' = s /\ minSoc' = app
        /\ suspect' = suspicious
        /\ believed' = IF s = None \/ mismatch THEN believed ELSE s
        /\ Work(s, app, limit, FollowNativeReserve(app), reserveCharge, automatic, ~suspicious)
        /\ UNCHANGED <<native, automatic, reserveCharge, setting, saved>>

(* The own reserve of the inverter can be changed in the app at any time.  *)
Frame ==
    \E s \in Levels \cup {None}, frozen \in BOOLEAN, app \in Reserves \cup {None} :
        \E pack \in (IF s = 0 /\ Misreads THEN {0, Top} ELSE {s}) :
            FrameRead(s, pack, app, frozen)

-----------------------------------------------------------------------------
(* async_set_charge_limit_soc, and async_set_battery_reserve_soc where the *)
(* integration keeps the reserve: nothing happens unless it changes.       *)
SetChargeLimit(l) ==
    /\ l # limit
    /\ Work(reading, minSoc, l, reserve, reserveCharge, automatic, ~suspect)
    /\ UNCHANGED <<native, inputs, automatic, reserveCharge, setting, saved>>

SetReserve(r) ==
    /\ ~native /\ r # reserve
    /\ Work(reading, minSoc, limit, r, reserveCharge, automatic, ~suspect)
    /\ UNCHANGED <<native, inputs, automatic, reserveCharge, setting, saved>>

(* Where the inverter keeps it, it is written there, which takes a while ...*)
WriteReserve(r) ==
    /\ native /\ setting = None
    /\ setting' = r
    /\ UNCHANGED <<native, inputs, automatic, settings, guards, charging, saved, judged>>

ReserveWrittenSwapped ==
    /\ setting # None
    /\ setting' = None
    /\ minSoc' = setting
    /\ Work(reading, setting, setting, limit, reserveCharge, automatic, ~suspect)
    /\ UNCHANGED <<native, reading, believed, suspect, automatic, reserveCharge, saved>>

ReserveWritten ==
    /\ setting # None
    /\ setting' = None
    /\ minSoc' = setting
    /\ IF setting = reserve
       THEN UNCHANGED <<limit, reserve, guards, charging, judged>>
       ELSE Work(reading, setting, limit, setting, reserveCharge, automatic, ~suspect)
    /\ UNCHANGED <<native, reading, believed, suspect, automatic, reserveCharge, saved>>

(* ... and may fail.                                                       *)
ReserveNotWritten ==
    /\ setting # None
    /\ setting' = None
    /\ UNCHANGED <<native, inputs, automatic, settings, guards, charging, saved, judged>>

(* async_set_reserve_charge, whose switch there is only where the reserve  *)
(* is ours; the app's backup reserve cannot be overruled.                  *)
SetReserveCharge(on) ==
    /\ ~native /\ on # reserveCharge /\ (on \/ ~charging.app)
    /\ reserveCharge' = on
    /\ Work(reading, minSoc, limit, reserve, on, automatic, ~suspect)
    /\ UNCHANGED <<native, inputs, automatic, setting, saved>>

(* A mode is selected.                                                     *)
SelectMode(auto) ==
    /\ automatic' = auto
    /\ Work(reading, minSoc, limit, reserve, reserveCharge, auto, ~suspect)
    /\ UNCHANGED <<native, inputs, reserveCharge, setting, saved>>

(* _persisted_state, saved some time after a poll; a restart loads it.     *)
Save ==
    /\ saved' = [limit |-> limit, reserve |-> reserve, charge |-> reserveCharge,
                 guards |-> guards]
    /\ UNCHANGED <<native, inputs, automatic, settings, guards, charging, setting, judged>>

Restart ==
    /\ reading' = None /\ minSoc' = None /\ believed' = None /\ suspect' = FALSE
    /\ automatic' = TRUE
    /\ limit' = saved.limit /\ reserve' = saved.reserve /\ reserveCharge' = saved.charge
    /\ guards' = saved.guards
    /\ charging' = NotCharging /\ setting' = None /\ judged' = None
    /\ UNCHANGED <<native, saved>>

-----------------------------------------------------------------------------
Next ==
    \/ Frame
    \/ \E l \in ChargeLimits : SetChargeLimit(l)
    \/ \E r \in Reserves : SetReserve(r) \/ WriteReserve(r)
    \/ ReserveWritten \/ ReserveNotWritten
    \/ \E b \in BOOLEAN : SetReserveCharge(b) \/ SelectMode(b)
    \/ Save \/ Restart

Spec == Init /\ [][Next]_vars
-----------------------------------------------------------------------------
TypeOK ==
    /\ native \in BOOLEAN
    /\ reading \in Levels \cup {None} /\ minSoc \in Reserves \cup {None}
    /\ believed \in Levels \cup {None} /\ judged \in Levels \cup {None}
    /\ {suspect, automatic, reserveCharge} \subseteq BOOLEAN
    /\ limit \in ChargeLimits \cup {Top} /\ reserve \in Reserves \cup {0}
    /\ guards \in Latches /\ charging \in [now : BOOLEAN, app : BOOLEAN]
    /\ setting \in Reserves \cup {None}
    /\ saved \in [limit : ChargeLimits \cup {Top}, reserve : Reserves \cup {0},
                  charge : BOOLEAN, guards : Latches]

(* A stop at a limit is only ever that of a guard that is on, and the      *)
(* Charge Limit outranks charging up to the reserve, also across changed   *)
(* limits, missing readings and restarts.                                  *)
StopsAreGuarded ==
    /\ guards.chargeStopped => guards.charge
    /\ guards.reserveStopped => guards.reserve
    /\ charging.now => ~guards.charge

(* The guards fit the reading they were worked out from: at its limit the  *)
(* battery is stopped, and nothing is held back that is clear of its       *)
(* limit, whichever way the limits were moved under it.                    *)
LimitsAreKept ==
    judged # None =>
        /\ limit < Top /\ judged >= limit => guards.chargeStopped
        /\ guards.charge => limit < Top /\ judged > limit - Hysteresis
        /\ guards.chargeStopped => judged > limit - Return
        /\ reserve > 0 /\ judged <= reserve => guards.reserveStopped
        /\ guards.reserve => reserve > 0 /\ judged < reserve + Hysteresis
        /\ guards.reserveStopped => judged < reserve + Return
        /\ charging.now => judged < reserve

(* A native reserve is the inverter's: what the guard goes by is what the  *)
(* last frame, or the command written since, says it is.                   *)
NativeReserveIsFollowed == native /\ minSoc # None => reserve = minSoc

(* The battery does not flicker at a limit: while the limits stay as they  *)
(* are a stop ends only clear of its limit, and begins only at it.         *)
HeldSteady ==
    judged # None /\ judged' # None /\ <<limit, reserve>>' = <<limit, reserve>> =>
        /\ guards.chargeStopped /\ ~guards'.chargeStopped => judged' <= limit - Return
        /\ ~guards.chargeStopped /\ guards'.chargeStopped => judged' >= limit
        /\ guards.reserveStopped /\ ~guards'.reserveStopped => judged' >= reserve + Return
        /\ ~guards.reserveStopped /\ guards'.reserveStopped => judged' <= reserve

StopsDoNotFlicker == [][HeldSteady]_vars

(* "Such a frame never moves a guard ... a user action re-applying that    *)
(* poll's inputs inherits its verdict" (ReadingChecks.suspect).            *)
SuspectFramesMoveNoGuard == [][suspect' => guards' = guards]_vars

(* The battery is charged from the grid only while somebody wants that:    *)
(* the user's setting or the app's reserve.                                *)
ChargingIsWanted == charging.now => reserveCharge \/ charging.app
=============================================================================
