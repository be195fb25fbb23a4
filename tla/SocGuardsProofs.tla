-------------------------- MODULE SocGuardsProofs --------------------------
(* What SocGuards keeps for every scale, hysteresis and set of limits.     *)
(* Each action but Save and Restart changes the guards through Work, the   *)
(* model of _update_limits followed by _update_guards, so the argument is  *)
(* one lemma on Work (WorkKeeps), of which every action is an instance.    *)
EXTENDS SocGuards, TLAPS

(* The parts of StopsAreGuarded and LimitsAreKept as facts of one state of *)
(* the latches g, worked out from the reading s under the limits l and r.  *)
Guarded(g) ==
    /\ g.chargeStopped => g.charge
    /\ g.reserveStopped => g.reserve

Fit(g, s, l, r) ==
    /\ l < Top /\ s >= l => g.chargeStopped
    /\ g.charge => l < Top /\ s > l - Hysteresis
    /\ g.chargeStopped => s > l - Return
    /\ r > 0 /\ s <= r => g.reserveStopped
    /\ g.reserve => r > 0 /\ s < r + Hysteresis
    /\ g.reserveStopped => s < r + Return

(* A restart takes the latches from the store, which therefore have to be  *)
(* as sound as those in use.                                               *)
IInv ==
    /\ TypeOK
    /\ StopsAreGuarded
    /\ LimitsAreKept
    /\ Guarded(saved.guards)

-----------------------------------------------------------------------------
(* The latches _update_guards works out are of their type, and fit.        *)
LEMMA UpdateFits ==
    ASSUME NEW g \in Latches, NEW s \in Levels, NEW l \in Levels, NEW r \in Levels
    PROVE  /\ UpdateGuards(g, s, l, r) \in Latches
           /\ Guarded(UpdateGuards(g, s, l, r))
           /\ Fit(UpdateGuards(g, s, l, r), s, l, r)
<1>1. UpdateGuards(g, s, l, r) \in Latches
  BY DEF UpdateGuards, Latches, ChargeGuard, ReserveGuard, ChargeStopped, ReserveStopped
<1>2. Guarded(UpdateGuards(g, s, l, r))
  BY DEF Guarded, UpdateGuards, ChargeStopped, ReserveStopped
<1>3. Fit(UpdateGuards(g, s, l, r), s, l, r)
  <2> DEFINE u == UpdateGuards(g, s, l, r)
  <2>1. s \in Int /\ l \in Int /\ r \in Int /\ Top \in Int
        /\ Hysteresis \in Int /\ Return \in Int /\ 0 < Return /\ Return <= Hysteresis
    BY LevelsAreOrdered DEF Levels
  <2>2. /\ u.charge <=> l < Top /\ (s >= l \/ (g.charge /\ s > l - Hysteresis))
        /\ u.chargeStopped <=> u.charge /\ s > l - Return /\ (s >= l \/ g.chargeStopped)
    BY DEF UpdateGuards, ChargeGuard, ChargeStopped
  <2>3. /\ u.reserve <=> r > 0 /\ (s <= r \/ (g.reserve /\ s < r + Hysteresis))
        /\ u.reserveStopped <=> u.reserve /\ s < r + Return /\ (s <= r \/ g.reserveStopped)
    BY DEF UpdateGuards, ReserveGuard, ReserveStopped
  <2> HIDE DEF u
  <2>4. Fit(u, s, l, r)
    BY <2>1, <2>2, <2>3 DEF Fit
  <2>5. QED
    BY <2>4 DEF u
<1>4. QED
  BY <1>1, <1>2, <1>3

(* With the limits left alone, a stop ends only clear of its limit and     *)
(* begins only at it.                                                      *)
LEMMA UpdateHolds ==
    ASSUME NEW g \in Latches, NEW s \in Levels, NEW l \in Levels, NEW r \in Levels,
           Guarded(g), g.charge => l < Top, g.reserve => r > 0,
           NEW u, u = UpdateGuards(g, s, l, r)
    PROVE  /\ g.chargeStopped /\ ~u.chargeStopped => s <= l - Return
           /\ ~g.chargeStopped /\ u.chargeStopped => s >= l
           /\ g.reserveStopped /\ ~u.reserveStopped => s >= r + Return
           /\ ~g.reserveStopped /\ u.reserveStopped => s <= r
  BY LevelsAreOrdered
     DEF Guarded, UpdateGuards, ChargeGuard, ReserveGuard, ChargeStopped, ReserveStopped,
         Levels, Latches

(* Charging from the grid is of its type, is outranked by the Charge Limit *)
(* and ends at the reserve.                                                *)
LEMMA ChargingFits ==
    ASSUME NEW guard \in BOOLEAN, NEW s \in Levels, NEW r \in Levels,
           NEW app \in Reserves \cup {None},
           NEW wanted \in BOOLEAN, NEW auto \in BOOLEAN,
           native \in BOOLEAN,
           NEW c, c = UpdateCharging(guard, s, r, app, wanted, auto)
    PROVE  /\ c \in [now : BOOLEAN, app : BOOLEAN]
           /\ c.now => ~guard /\ s < r
  BY LevelsAreOrdered DEF UpdateCharging, Levels

(* What every change of the limits and every reading leaves.               *)
WorkKept ==
    /\ limit' \in ChargeLimits \cup {Top} /\ reserve' \in Reserves \cup {0}
    /\ guards' \in Latches /\ charging' \in [now : BOOLEAN, app : BOOLEAN]
    /\ judged' \in Levels \cup {None}
    /\ StopsAreGuarded' /\ LimitsAreKept'

LEMMA WorkKeeps ==
    ASSUME IInv,
           NEW s \in Levels \cup {None}, NEW app \in Reserves \cup {None},
           NEW l \in ChargeLimits \cup {Top}, NEW r \in Reserves \cup {0},
           NEW wanted \in BOOLEAN, NEW auto \in BOOLEAN, NEW may \in BOOLEAN,
           Work(s, app, l, r, wanted, auto, may)
    PROVE  WorkKept
<1> DEFINE changed == <<l, r>> # <<limit, reserve>>
           works   == s # None /\ (changed \/ may)
           g       == IF changed THEN Afresh(guards, s, l, r) ELSE guards
<1>0. /\ limit' = l /\ reserve' = r
      /\ guards' = IF works THEN UpdateGuards(g, s, l, r) ELSE g
      /\ charging' = IF works
                     THEN UpdateCharging(guards'.charge, s, r, app, wanted, auto)
                     ELSE charging
      /\ judged' = IF works THEN s ELSE IF changed THEN None ELSE judged
  BY DEF Work
<1>1. l \in Levels /\ r \in Levels /\ None \notin Levels
  BY LevelsAreOrdered DEF Levels
<1>2. guards \in Latches /\ charging \in [now : BOOLEAN, app : BOOLEAN]
  BY DEF IInv, TypeOK
<1>3. g \in Latches
  <2>1. [guards EXCEPT !.charge = @ /\ l = limit, !.reserve = @ /\ r = reserve] \in Latches
    BY <1>2 DEF Latches
  <2>2. QED
    BY <1>2, <2>1 DEF Afresh
<1>4. CASE works
  <2>1. guards' = UpdateGuards(g, s, l, r) /\ judged' = s /\ s \in Levels
        /\ charging' = UpdateCharging(guards'.charge, s, r, app, wanted, auto)
    BY <1>0, <1>4
  <2>2. guards' \in Latches /\ Guarded(guards') /\ Fit(guards', s, l, r)
    BY <1>1, <1>3, <2>1, UpdateFits
  <2>3. charging' \in [now : BOOLEAN, app : BOOLEAN]
        /\ (charging'.now => ~guards'.charge /\ s < r)
    <3>1. guards'.charge \in BOOLEAN /\ native \in BOOLEAN
      BY <2>2 DEF Latches, IInv, TypeOK
    <3>2. QED
      BY <1>1, <2>1, <3>1, ChargingFits
  <2>4. StopsAreGuarded'
    BY <2>2, <2>3 DEF StopsAreGuarded, Guarded
  <2>5. LimitsAreKept'
    BY <1>0, <2>1, <2>2, <2>3 DEF LimitsAreKept, Fit
  <2>6. QED
    BY <1>0, <2>1, <2>2, <2>3, <2>4, <2>5 DEF WorkKept
<1>5. CASE ~works
  <2>1. guards' = guards /\ charging' = charging
    BY <1>0, <1>5 DEF Afresh
  <2>2. judged' = None \/ (judged' = judged /\ limit' = limit /\ reserve' = reserve)
    BY <1>0, <1>5
  <2>3. StopsAreGuarded'
    BY <2>1 DEF IInv, StopsAreGuarded
  <2>4. LimitsAreKept'
    BY <2>1, <2>2 DEF IInv, LimitsAreKept
  <2>5. QED
    BY <1>0, <1>2, <2>1, <2>2, <2>3, <2>4 DEF IInv, TypeOK, WorkKept
<1>6. QED
  BY <1>4, <1>5

-----------------------------------------------------------------------------
LEMMA InitIInv == Init => IInv
<1> SUFFICES ASSUME Init PROVE IInv
  OBVIOUS
<1>1. Off \in Latches /\ NotCharging \in [now : BOOLEAN, app : BOOLEAN]
  BY DEF Off, NotCharging, Latches
<1>2. TypeOK
  BY <1>1 DEF Init, TypeOK
<1>3. StopsAreGuarded /\ LimitsAreKept /\ Guarded(saved.guards)
  BY DEF Init, StopsAreGuarded, LimitsAreKept, Guarded, Off, NotCharging
<1>4. QED
  BY <1>2, <1>3 DEF IInv

(* The steps that leave limits, latches and charging alone.                *)
LEMMA Undisturbed ==
    ASSUME IInv, TypeOK', UNCHANGED <<limit, reserve, guards, charging, judged>>
    PROVE  StopsAreGuarded' /\ LimitsAreKept'
  BY DEF IInv, StopsAreGuarded, LimitsAreKept

LEMMA FrameReadKeeps ==
    ASSUME IInv, NEW s \in Levels \cup {None}, NEW pack, NEW app \in Reserves \cup {None},
           NEW frozen \in BOOLEAN,
           FrameRead(s, pack, app, frozen)
    PROVE  IInv'
<1> DEFINE mismatch == s # None /\ Mismatch(s, pack)
           r == IF native /\ app # None THEN app ELSE reserve
<1>1. mismatch \in BOOLEAN
  BY DEF Mismatch
<1>2. r \in Reserves \cup {0} /\ automatic \in BOOLEAN /\ reserveCharge \in BOOLEAN
      /\ limit \in ChargeLimits \cup {Top}
  BY DEF IInv, TypeOK
<1>3. Work(s, app, limit, r, reserveCharge, automatic, ~(mismatch \/ frozen))
  BY DEF FrameRead, FollowNativeReserve
<1>4. WorkKept
  <2> HIDE DEF r, mismatch
  <2>1. (~(mismatch \/ frozen)) \in BOOLEAN
    OBVIOUS
  <2>2. QED
    BY <1>2, <1>3, <2>1, WorkKeeps
<1>5. /\ reading' = s /\ minSoc' = app /\ suspect' = (mismatch \/ frozen)
      /\ believed' = IF s = None \/ mismatch THEN believed ELSE s
      /\ UNCHANGED <<native, automatic, reserveCharge, setting, saved>>
  BY DEF FrameRead, FollowNativeReserve
<1>6. TypeOK'
  <2> HIDE DEF mismatch
  <2>1. QED
    BY <1>1, <1>4, <1>5 DEF IInv, TypeOK, WorkKept
<1>7. QED
  BY <1>4, <1>5, <1>6 DEF IInv, WorkKept

(* One step of the specification.                                          *)
LEMMA NextIInv == IInv /\ [Next]_vars => IInv'
<1> SUFFICES ASSUME IInv, [Next]_vars PROVE IInv'
  OBVIOUS
<1> USE DEF IInv
<1>a. None \notin Levels /\ Reserves \subseteq Levels
  BY LevelsAreOrdered
<1>b. /\ limit \in ChargeLimits \cup {Top} /\ reserve \in Reserves \cup {0}
      /\ reading \in Levels \cup {None} /\ minSoc \in Reserves \cup {None}
  BY DEF TypeOK
<1>c. reserveCharge \in BOOLEAN /\ automatic \in BOOLEAN /\ suspect \in BOOLEAN
  BY DEF TypeOK
<1>d. (~suspect) \in BOOLEAN
  OBVIOUS
<1>1. CASE Frame
  <2>1. PICK s \in Levels \cup {None}, frozen \in BOOLEAN, app \in Reserves \cup {None} :
           \E pack \in (IF s = 0 /\ Misreads THEN {0, Top} ELSE {s}) :
               FrameRead(s, pack, app, frozen)
    BY <1>1 DEF Frame
  <2>2. QED
    BY <2>1, FrameReadKeeps
<1>2. ASSUME NEW l \in ChargeLimits, SetChargeLimit(l) PROVE IInv'
  <2>1. Work(reading, minSoc, l, reserve, reserveCharge, automatic, ~suspect)
        /\ UNCHANGED <<native, inputs, automatic, reserveCharge, setting, saved>>
    BY <1>2 DEF SetChargeLimit
  <2>2. WorkKept
    BY <1>b, <1>c, <1>d, <2>1, WorkKeeps DEF WorkKept
  <2>3. TypeOK'
    BY <1>c, <2>1, <2>2 DEF TypeOK, WorkKept, inputs
  <2>4. QED
    BY <2>1, <2>2, <2>3 DEF WorkKept
<1>3. ASSUME NEW r \in Reserves, SetReserve(r) PROVE IInv'
  <2>1. Work(reading, minSoc, limit, r, reserveCharge, automatic, ~suspect)
        /\ UNCHANGED <<native, inputs, automatic, reserveCharge, setting, saved>>
    BY <1>3 DEF SetReserve
  <2>2. WorkKept
    BY <1>b, <1>c, <1>d, <2>1, WorkKeeps DEF WorkKept
  <2>3. TypeOK'
    BY <1>c, <2>1, <2>2 DEF TypeOK, WorkKept, inputs
  <2>4. QED
    BY <2>1, <2>2, <2>3 DEF WorkKept
<1>4. ASSUME NEW r \in Reserves, WriteReserve(r) PROVE IInv'
  <2>1. TypeOK'
    BY <1>4 DEF WriteReserve, TypeOK, inputs, settings
  <2>2. QED
    BY <1>4, <2>1, Undisturbed DEF WriteReserve, settings
<1>5. CASE ReserveWritten
  <2>1. setting \in Reserves
    BY <1>5 DEF ReserveWritten, TypeOK
  <2>2. CASE setting = reserve
    <3>1. UNCHANGED <<limit, reserve, guards, charging, judged, native, reading, believed,
                      suspect, automatic, reserveCharge, saved>>
          /\ setting' = None /\ minSoc' = setting
      BY <1>5, <2>2 DEF ReserveWritten
    <3>2. TypeOK'
      BY <2>1, <3>1 DEF TypeOK
    <3>3. QED
      BY <3>1, <3>2, Undisturbed
  <2>3. CASE setting # reserve
    <3>1. Work(reading, setting, limit, setting, reserveCharge, automatic, ~suspect)
          /\ UNCHANGED <<native, reading, believed, suspect, automatic, reserveCharge, saved>>
          /\ setting' = None /\ minSoc' = setting
      BY <1>5, <2>3 DEF ReserveWritten
    <3>2. WorkKept
      BY <1>b, <1>c, <1>d, <2>1, <3>1, WorkKeeps DEF WorkKept
    <3>3. TypeOK'
      BY <3>1, <3>2 DEF TypeOK, WorkKept
    <3>4. QED
      BY <3>1, <3>2, <3>3 DEF WorkKept
  <2>4. QED
    BY <2>2, <2>3
<1>6. CASE ReserveNotWritten
  <2>1. TypeOK'
    BY <1>6 DEF ReserveNotWritten, TypeOK, inputs, settings
  <2>2. QED
    BY <1>6, <2>1, Undisturbed DEF ReserveNotWritten, settings
<1>7. ASSUME NEW b \in BOOLEAN, SetReserveCharge(b) PROVE IInv'
  <2>1. Work(reading, minSoc, limit, reserve, b, automatic, ~suspect)
        /\ reserveCharge' = b /\ UNCHANGED <<native, inputs, automatic, setting, saved>>
    BY <1>7 DEF SetReserveCharge
  <2>2. WorkKept
    BY <1>b, <1>c, <1>d, <2>1, WorkKeeps DEF WorkKept
  <2>3. TypeOK'
    BY <1>c, <2>1, <2>2 DEF TypeOK, WorkKept, inputs
  <2>4. QED
    BY <2>1, <2>2, <2>3 DEF WorkKept
<1>8. ASSUME NEW b \in BOOLEAN, SelectMode(b) PROVE IInv'
  <2>1. Work(reading, minSoc, limit, reserve, reserveCharge, b, ~suspect)
        /\ automatic' = b /\ UNCHANGED <<native, inputs, reserveCharge, setting, saved>>
    BY <1>8 DEF SelectMode
  <2>2. WorkKept
    BY <1>b, <1>c, <1>d, <2>1, WorkKeeps DEF WorkKept
  <2>3. TypeOK'
    BY <1>c, <2>1, <2>2 DEF TypeOK, WorkKept, inputs
  <2>4. QED
    BY <2>1, <2>2, <2>3 DEF WorkKept
<1>9. CASE Save
  <2>1. TypeOK'
    BY <1>9 DEF Save, TypeOK, inputs, settings
  <2>2. Guarded(saved'.guards)
    BY <1>9 DEF Save, Guarded, StopsAreGuarded
  <2>3. QED
    BY <1>9, <2>1, <2>2, Undisturbed DEF Save, settings
<1>10. CASE Restart
  <2>1. TypeOK'
    BY <1>10 DEF Restart, TypeOK, NotCharging
  <2>2. StopsAreGuarded' /\ LimitsAreKept' /\ Guarded(saved'.guards)
    BY <1>10 DEF Restart, StopsAreGuarded, LimitsAreKept, Guarded, NotCharging
  <2>3. QED
    BY <2>1, <2>2
<1>11. CASE UNCHANGED vars
  <2>1. TypeOK'
    BY <1>11 DEF vars, TypeOK, inputs, settings
  <2>2. QED
    BY <1>11, <2>1, Undisturbed DEF vars, settings
<1>12. QED
  BY <1>1, <1>2, <1>3, <1>4, <1>5, <1>6, <1>7, <1>8, <1>9, <1>10, <1>11 DEF Next

(* The inductive invariant holds in every reachable state.                 *)
THEOREM SpecIInv == Spec => []IInv
  BY InitIInv, NextIInv, PTL DEF Spec

(* StopsAreGuarded: no battery is held at a limit whose guard is off, and  *)
(* none is charged from the grid above its Charge Limit, whatever the user *)
(* and the app change and however often Home Assistant restarts.           *)
THEOREM SpecStopsAreGuarded == Spec => []StopsAreGuarded
<1>1. IInv => StopsAreGuarded
  BY DEF IInv
<1>2. QED
  BY <1>1, SpecIInv, PTL

(* LimitsAreKept: the guards fit the reading they were worked out from.    *)
THEOREM SpecLimitsAreKept == Spec => []LimitsAreKept
<1>1. IInv => LimitsAreKept
  BY DEF IInv
<1>2. QED
  BY <1>1, SpecIInv, PTL

-----------------------------------------------------------------------------
LEMMA WorkHolds ==
    ASSUME IInv,
           NEW s \in Levels \cup {None}, NEW app \in Reserves \cup {None},
           NEW l \in ChargeLimits \cup {Top}, NEW r \in Reserves \cup {0},
           NEW wanted \in BOOLEAN, NEW auto \in BOOLEAN, NEW may \in BOOLEAN,
           Work(s, app, l, r, wanted, auto, may)
    PROVE  HeldSteady
<1> SUFFICES ASSUME judged # None, limit' = limit, reserve' = reserve
             PROVE  /\ guards.chargeStopped /\ ~guards'.chargeStopped => judged' <= limit - Return
                    /\ ~guards.chargeStopped /\ guards'.chargeStopped => judged' >= limit
                    /\ guards.reserveStopped /\ ~guards'.reserveStopped => judged' >= reserve + Return
                    /\ ~guards.reserveStopped /\ guards'.reserveStopped => judged' <= reserve
  BY DEF HeldSteady
<1>1. l = limit /\ r = reserve /\ l \in Levels /\ r \in Levels
  BY LevelsAreOrdered DEF Work, Levels
<1>2. guards \in Latches /\ Guarded(guards)
      /\ (guards.charge => l < Top) /\ (guards.reserve => r > 0)
  BY <1>1 DEF IInv, TypeOK, StopsAreGuarded, LimitsAreKept, Guarded
<1>3. CASE s # None /\ may
  <2>1. guards' = UpdateGuards(guards, s, l, r) /\ judged' = s /\ s \in Levels
    BY <1>1, <1>3 DEF Work
  <2>2. QED
    BY <1>1, <1>2, <2>1, UpdateHolds
<1>4. CASE ~(s # None /\ may)
  BY <1>1, <1>4 DEF Work
<1>5. QED
  BY <1>3, <1>4

LEMMA FrameReadHolds ==
    ASSUME IInv, NEW s \in Levels \cup {None}, NEW pack, NEW app \in Reserves \cup {None},
           NEW frozen \in BOOLEAN,
           FrameRead(s, pack, app, frozen)
    PROVE  HeldSteady
<1> DEFINE r == IF native /\ app # None THEN app ELSE reserve
           bad == (s # None /\ Mismatch(s, pack)) \/ frozen
<1>1. Work(s, app, limit, r, reserveCharge, automatic, ~bad)
  BY DEF FrameRead, FollowNativeReserve
<1>2. r \in Reserves \cup {0} /\ automatic \in BOOLEAN /\ reserveCharge \in BOOLEAN
      /\ limit \in ChargeLimits \cup {Top}
  BY DEF IInv, TypeOK
<1> HIDE DEF r, bad
<1>3. (~bad) \in BOOLEAN
  OBVIOUS
<1>4. QED
  BY <1>1, <1>2, <1>3, WorkHolds

LEMMA NextHolds == IInv /\ [Next]_vars => HeldSteady
<1> SUFFICES ASSUME IInv, [Next]_vars PROVE HeldSteady
  OBVIOUS
<1> USE DEF IInv
<1>a. 0 \in Levels /\ Reserves \subseteq Levels
  BY LevelsAreOrdered DEF Levels
<1>b. /\ limit \in ChargeLimits \cup {Top} /\ reserve \in Reserves \cup {0}
      /\ reading \in Levels \cup {None} /\ minSoc \in Reserves \cup {None}
      /\ setting \in Reserves \cup {None}
  BY DEF TypeOK
<1>c. reserveCharge \in BOOLEAN /\ automatic \in BOOLEAN /\ suspect \in BOOLEAN
  BY DEF TypeOK
<1>d. (~suspect) \in BOOLEAN
  OBVIOUS
<1>2. CASE Frame
  <2>1. PICK s \in Levels \cup {None}, frozen \in BOOLEAN, app \in Reserves \cup {None} :
           \E pack \in (IF s = 0 /\ Misreads THEN {0, Top} ELSE {s}) :
               FrameRead(s, pack, app, frozen)
    BY <1>2 DEF Frame
  <2>2. QED
    BY <2>1, FrameReadHolds
<1>3. ASSUME NEW l \in ChargeLimits, SetChargeLimit(l) PROVE HeldSteady
  <2>1. Work(reading, minSoc, l, reserve, reserveCharge, automatic, ~suspect)
    BY <1>3 DEF SetChargeLimit
  <2>2. QED
    BY <1>b, <1>c, <1>d, <2>1, WorkHolds
<1>4. ASSUME NEW r \in Reserves, SetReserve(r) PROVE HeldSteady
  <2>1. Work(reading, minSoc, limit, r, reserveCharge, automatic, ~suspect)
    BY <1>4 DEF SetReserve
  <2>2. QED
    BY <1>b, <1>c, <1>d, <2>1, WorkHolds
<1>5. CASE ReserveWritten
  <2>1. CASE setting = reserve
    BY <1>5, <2>1 DEF ReserveWritten, HeldSteady
  <2>2. CASE setting # reserve
    <3>1. Work(reading, setting, limit, setting, reserveCharge, automatic, ~suspect)
          /\ setting \in Reserves
      BY <1>b, <1>5, <2>2 DEF ReserveWritten
    <3>2. QED
      BY <1>b, <1>c, <1>d, <3>1, WorkHolds
  <2>3. QED
    BY <2>1, <2>2
<1>6. ASSUME NEW b \in BOOLEAN, SetReserveCharge(b) PROVE HeldSteady
  <2>1. Work(reading, minSoc, limit, reserve, b, automatic, ~suspect)
    BY <1>6 DEF SetReserveCharge
  <2>2. QED
    BY <1>b, <1>c, <1>d, <2>1, WorkHolds
<1>7. ASSUME NEW b \in BOOLEAN, SelectMode(b) PROVE HeldSteady
  <2>1. Work(reading, minSoc, limit, reserve, reserveCharge, b, ~suspect)
    BY <1>7 DEF SelectMode
  <2>2. QED
    BY <1>b, <1>c, <1>d, <2>1, WorkHolds
<1>8. CASE Restart
  BY <1>8 DEF Restart, HeldSteady
<1>9. ASSUME UNCHANGED guards PROVE HeldSteady
  BY <1>9 DEF HeldSteady
<1>10. CASE \/ \E r \in Reserves : WriteReserve(r)
            \/ ReserveNotWritten \/ Save \/ UNCHANGED vars
  BY <1>9, <1>10 DEF WriteReserve, ReserveNotWritten, Save, vars
<1>11. QED
  BY <1>2, <1>3, <1>4, <1>5, <1>6, <1>7, <1>8, <1>10 DEF Next

(* StopsDoNotFlicker: while the limits stay, a stop at a limit begins only *)
(* at the limit and ends only GUARD_RETURN_SOC clear of it.                *)
THEOREM SpecStopsDoNotFlicker == Spec => StopsDoNotFlicker
  BY SpecIInv, NextHolds, PTL DEF Spec, StopsDoNotFlicker

-----------------------------------------------------------------------------
(* NativeReserveIsFollowed: where the inverter keeps the reserve, the      *)
(* guard goes by the one it last reported or was last told.                *)
THEOREM SpecNativeReserveIsFollowed == Spec => []NativeReserveIsFollowed
<1>1. Init => NativeReserveIsFollowed
  BY DEF Init, NativeReserveIsFollowed
<1>2. NativeReserveIsFollowed /\ [Next]_vars => NativeReserveIsFollowed'
  <2> SUFFICES ASSUME NativeReserveIsFollowed, [Next]_vars PROVE NativeReserveIsFollowed'
    OBVIOUS
  <2> USE DEF NativeReserveIsFollowed
  <2>1. CASE Frame
    BY <2>1 DEF Frame, FrameRead, FollowNativeReserve, Work
  <2>2. ASSUME NEW l \in ChargeLimits, SetChargeLimit(l) PROVE NativeReserveIsFollowed'
    BY <2>2 DEF SetChargeLimit, Work, inputs
  <2>3. ASSUME NEW r \in Reserves, SetReserve(r) \/ WriteReserve(r)
        PROVE  NativeReserveIsFollowed'
    BY <2>3 DEF SetReserve, WriteReserve, inputs, settings
  <2>4. CASE ReserveWritten
    BY <2>4 DEF ReserveWritten, Work
  <2>5. ASSUME NEW b \in BOOLEAN, SetReserveCharge(b) \/ SelectMode(b)
        PROVE  NativeReserveIsFollowed'
    BY <2>5 DEF SetReserveCharge, SelectMode, Work, inputs
  <2>6. CASE Restart
    BY <2>6 DEF Restart
  <2>7. CASE ReserveNotWritten \/ Save \/ UNCHANGED vars
    BY <2>7 DEF ReserveNotWritten, Save, vars, inputs, settings
  <2>8. QED
    BY <2>1, <2>2, <2>3, <2>4, <2>5, <2>6, <2>7 DEF Next
<1>3. QED
  BY <1>1, <1>2, PTL DEF Spec
=============================================================================
