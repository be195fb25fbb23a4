---------------------------- MODULE ExportProofs ----------------------------
(***************************************************************************)
(* The two things that let power out to the grid, or keep it from it: the  *)
(* Grid Feed-in switch (GridFeed), for any set of caps, and the steps of   *)
(* Export Solar First (ModeSteps), for any deadband, limit and pair of     *)
(* times.                                                                  *)
(*                                                                         *)
(* Without the races of GridFeed the switch loses nothing: this is the     *)
(* argument why the order of its writes, and noting a stop before its      *)
(* first write, is enough as long as polls, failed turns and the app stay  *)
(* out of its way.                                                         *)
(***************************************************************************)
EXTENDS GridFeed, ModeSteps, WellFoundedInduction, TLAPS

(* A frame is taken up as it was read, and not while the switch turns.     *)
FramesAreCurrent == frame # None => frame = device /\ turn = Idle

(* Once a poll has seen what the app did, that is what is kept; until then *)
(* it is still on the inverter.                                            *)
Kept ==
    /\ own # None /\ ~news => restore = own
    /\ own # None /\ news => restore = own \/ device = own
    /\ news => turn = Idle /\ ~stopped
    /\ turn = Idle /\ ~stopped /\ Adoptable(device) => device = own
    /\ own = None => restore = None

(* What a turn has done so far.                                            *)
HalfDone ==
    /\ turn.at # "idle" => own # None /\ turn.goal = own
    /\ turn.at = "idle" => turn = Idle
    /\ turn.at \in {"first", "second"} /\ ~turn.allow => stopped
    /\ turn.at = "second" /\ turn.allow => device.cap = turn.goal.cap
    /\ turn.at = "second" /\ ~turn.allow => device.mode = "limited"
    /\ turn.at \in {"authority", "first"} /\ ~stopped /\ Adoptable(device) => device = own

SwitchInv == TypeOK /\ FramesAreCurrent /\ Kept /\ HalfDone

-----------------------------------------------------------------------------
LEMMA RecordsDiffer == Idle.at = "idle" /\ Idle \in
        [at : {"idle", "authority", "first", "second"}, allow : BOOLEAN, goal : Settings \cup {None}]
  BY DEF Idle

LEMMA InitSwitchInv == Init => SwitchInv
<1> SUFFICES ASSUME Init PROVE SwitchInv
  OBVIOUS
<1>1. TypeOK
  BY RecordsDiffer DEF Init, TypeOK
<1>2. FramesAreCurrent /\ Kept /\ HalfDone
  BY RecordsDiffer, NoneIsNoSetting DEF Init, FramesAreCurrent, Kept, HalfDone
<1>3. QED
  BY <1>1, <1>2 DEF SwitchInv

(* The registers stay settings through every write that is due.            *)
LEMMA DueIsSetting ==
    ASSUME SwitchInv, turn.at \in {"first", "second"}
    PROVE  /\ Due \in Settings
           /\ turn.at = "first" /\ turn.allow => Due.cap = turn.goal.cap
           /\ turn.at = "first" /\ ~turn.allow => Due.mode = "limited"
           /\ turn.at = "second" /\ turn.allow => Due = own
           /\ turn.at = "second" /\ ~turn.allow => Due.mode = "limited" /\ Due.cap = 0
<1>1. turn.goal \in Settings /\ turn.goal = own /\ turn.allow \in BOOLEAN /\ device \in Settings
  BY NoneIsNoSetting DEF SwitchInv, TypeOK, HalfDone
<1>2. 0 \in Caps /\ "limited" \in Modes
  BY FeedIsKnown DEF Modes, Switchable
<1>3. CASE turn.at = "first" /\ turn.allow
  <2>1. Due = [device EXCEPT !.cap = turn.goal.cap]
    BY <1>3 DEF Due
  <2>2. QED
    BY <1>1, <1>3, <2>1 DEF Settings
<1>4. CASE turn.at = "first" /\ ~turn.allow
  <2>1. Due = [device EXCEPT !.mode = "limited"]
    BY <1>1, <1>4 DEF Due
  <2>2. QED
    BY <1>1, <1>2, <1>4, <2>1 DEF Settings
<1>5. CASE turn.at = "second" /\ turn.allow
  <2>1. Due = [device EXCEPT !.mode = turn.goal.mode]
    BY <1>5 DEF Due
  <2>2. device.cap = turn.goal.cap
    BY <1>5 DEF SwitchInv, HalfDone
  <2>3. Due = turn.goal
    BY <1>1, <2>1, <2>2 DEF Settings
  <2>4. QED
    BY <1>1, <1>5, <2>3
<1>6. CASE turn.at = "second" /\ ~turn.allow
  <2>1. Due = [device EXCEPT !.cap = 0]
    BY <1>1, <1>6 DEF Due
  <2>2. device.mode = "limited"
    BY <1>6 DEF SwitchInv, HalfDone
  <2>3. QED
    BY <1>1, <1>2, <1>6, <2>1, <2>2 DEF Settings
<1>7. QED
  BY <1>1, <1>3, <1>4, <1>5, <1>6

LEMMA NextSwitchInv == ASSUME Races = {} PROVE SwitchInv /\ [Next]_vars => SwitchInv'
<1> SUFFICES ASSUME SwitchInv, [Next]_vars PROVE SwitchInv'
  OBVIOUS
<1>a. TypeOK /\ FramesAreCurrent /\ Kept /\ HalfDone
  BY DEF SwitchInv
<1>1. CASE ReadFrame
  <2>1. TypeOK'
    BY <1>a, <1>1 DEF ReadFrame, TypeOK
  <2>2. FramesAreCurrent' /\ Kept' /\ HalfDone'
    BY <1>a, <1>1 DEF ReadFrame, FramesAreCurrent, Kept, HalfDone
  <2>3. QED
    BY <2>1, <2>2 DEF SwitchInv
<1>2. CASE TakeFrame
  <2>1. frame = device /\ turn = Idle /\ news' = FALSE /\ frame' = None /\ frame \in Settings
        /\ seen' = frame /\ restore' = (IF stopped \/ ~Adoptable(device) THEN restore ELSE device)
        /\ UNCHANGED <<device, stopped, turn, own>>
    BY <1>a, <1>2 DEF TakeFrame, FramesAreCurrent, TypeOK, Track
  <2>2. TypeOK'
    BY <1>a, <2>1 DEF TypeOK
  <2>3. Kept'
    <3>1. own # None => restore' = own
      <4>1. CASE stopped \/ ~Adoptable(device)
        <5>1. restore' = restore
          BY <2>1, <4>1
        <5>2. own # None /\ news => Adoptable(own) /\ ~stopped
          BY <1>a DEF Kept, TypeOK
        <5>3. QED
          BY <1>a, <4>1, <5>1, <5>2 DEF Kept
      <4>2. CASE ~stopped /\ Adoptable(device)
        BY <1>a, <2>1, <4>2 DEF Kept
      <4>3. QED
        BY <4>1, <4>2
    <3>2. own = None => restore' = None
      BY <1>a, <2>1 DEF Kept
    <3>3. QED
      BY <1>a, <2>1, <3>1, <3>2 DEF Kept
  <2>4. FramesAreCurrent' /\ HalfDone'
    BY <1>a, <2>1, RecordsDiffer DEF FramesAreCurrent, HalfDone
  <2>5. QED
    BY <2>2, <2>3, <2>4 DEF SwitchInv
<1>3. ASSUME NEW allow \in BOOLEAN, Turn(allow) PROVE SwitchInv'
  <2>1. /\ turn = Idle /\ frame = None /\ ~news /\ restore # None
        /\ turn' = [at |-> "authority", allow |-> allow, goal |-> restore]
        /\ UNCHANGED <<device, frame, seen, restore, stopped, own, news>>
    BY <1>3 DEF Turn
  <2>2. own # None /\ restore = own
    BY <1>a, <2>1 DEF Kept
  <2>3. TypeOK'
    BY <1>a, <2>1 DEF TypeOK
  <2>4. FramesAreCurrent' /\ Kept'
    BY <1>a, <2>1, RecordsDiffer DEF FramesAreCurrent, Kept
  <2>5. HalfDone'
    BY <1>a, <2>1, <2>2 DEF Kept, HalfDone
  <2>6. QED
    BY <2>3, <2>4, <2>5 DEF SwitchInv
<1>4. CASE Authorized
  <2>1. /\ turn.at = "authority" /\ turn'.at = "first" /\ turn'.allow = turn.allow
        /\ turn'.goal = turn.goal /\ stopped' = (stopped \/ ~turn.allow)
        /\ UNCHANGED <<device, frame, seen, restore, own, news>>
    BY <1>a, <1>4 DEF Authorized, TypeOK
  <2>2. TypeOK'
    BY <1>a, <1>4 DEF Authorized, TypeOK
  <2>3. turn # Idle /\ turn' # Idle
    BY <2>1, RecordsDiffer
  <2>4. FramesAreCurrent' /\ Kept'
    BY <1>a, <2>1, <2>3 DEF FramesAreCurrent, Kept
  <2>5. HalfDone'
    BY <1>a, <2>1 DEF HalfDone
  <2>6. QED
    BY <2>2, <2>4, <2>5 DEF SwitchInv
<1>5. CASE Denied
  <2>1. turn.at = "authority" /\ turn' = Idle
        /\ UNCHANGED <<device, frame, seen, restore, stopped, own, news>>
    BY <1>5 DEF Denied
  <2>2. TypeOK'
    BY <1>a, <2>1, RecordsDiffer DEF TypeOK
  <2>3. turn # Idle
    BY <2>1, RecordsDiffer
  <2>4. FramesAreCurrent' /\ Kept' /\ HalfDone'
    BY <1>a, <2>1, <2>3, RecordsDiffer DEF FramesAreCurrent, Kept, HalfDone
  <2>5. QED
    BY <2>2, <2>4 DEF SwitchInv
<1>6. CASE Write /\ turn.at = "first"
  <2>1. /\ device' = Due /\ turn'.at = "second" /\ turn'.allow = turn.allow
        /\ turn'.goal = turn.goal
        /\ UNCHANGED <<frame, seen, restore, stopped, own, news>>
    BY <1>a, <1>6 DEF Write, TypeOK
  <2>2. Due \in Settings /\ (turn.allow => Due.cap = turn.goal.cap)
        /\ (~turn.allow => Due.mode = "limited")
    BY <1>6, DueIsSetting
  <2>3. TypeOK'
    BY <1>a, <1>6, <2>2 DEF Write, TypeOK
  <2>4. turn # Idle /\ turn' # Idle
    BY <1>6, <2>1, RecordsDiffer
  <2>5. own # None => restore = own
    BY <1>a, <2>4 DEF Kept
  <2>6. FramesAreCurrent' /\ Kept'
    BY <1>a, <2>1, <2>4, <2>5 DEF FramesAreCurrent, Kept
  <2>7. HalfDone'
    BY <1>a, <1>6, <2>1, <2>2 DEF HalfDone
  <2>8. QED
    BY <2>3, <2>6, <2>7 DEF SwitchInv
<1>7. CASE Write /\ turn.at = "second"
  <2>1. /\ device' = Due /\ turn' = Idle /\ stopped' = ~turn.allow
        /\ UNCHANGED <<frame, seen, restore, own, news>>
    BY <1>7 DEF Write
  <2>2. Due \in Settings /\ (turn.allow => Due = own)
    BY <1>7, DueIsSetting
  <2>3. turn # Idle /\ turn.allow \in BOOLEAN
    BY <1>a, <1>7, RecordsDiffer DEF TypeOK
  <2>4. TypeOK'
    BY <1>a, <2>1, <2>2, <2>3, RecordsDiffer DEF TypeOK
  <2>5. own # None /\ restore = own /\ ~news /\ frame = None
    BY <1>a, <1>7, <2>3 DEF Kept, HalfDone, FramesAreCurrent
  <2>6. FramesAreCurrent' /\ Kept' /\ HalfDone'
    BY <2>1, <2>2, <2>3, <2>5, RecordsDiffer DEF FramesAreCurrent, Kept, HalfDone
  <2>7. QED
    BY <2>4, <2>6 DEF SwitchInv
<1>8. CASE WriteFails
  <2>1. /\ turn.at \in {"first", "second"} /\ turn' = Idle
        /\ UNCHANGED <<frame, seen, restore, stopped, own, news>>
        /\ (turn.at = "second" => stopped)
        /\ device' \in {device, Due} /\ (~stopped => device' = device)
    BY <1>8 DEF WriteFails, MayEndHere
  <2>2. Due \in Settings
    BY <2>1, DueIsSetting
  <2>3. TypeOK'
    BY <1>a, <2>1, <2>2, RecordsDiffer DEF TypeOK
  <2>4. turn # Idle
    BY <2>1, RecordsDiffer
  <2>5. own # None /\ restore = own /\ ~news /\ frame = None
    BY <1>a, <2>1, <2>4 DEF Kept, HalfDone, FramesAreCurrent
  <2>6. FramesAreCurrent' /\ Kept' /\ HalfDone'
    BY <1>a, <2>1, <2>5, RecordsDiffer DEF FramesAreCurrent, Kept, HalfDone
  <2>7. QED
    BY <2>3, <2>6 DEF SwitchInv
<1>9. ASSUME NEW s \in Settings, AppSets(s) PROVE SwitchInv'
  <2>1. /\ turn = Idle /\ frame = None /\ ~news /\ ~stopped /\ device' = s
        /\ own' = (IF Adoptable(s) THEN s ELSE own) /\ news' = TRUE
        /\ UNCHANGED <<frame, seen, restore, stopped, turn>>
    BY <1>9 DEF AppSets
  <2>2. TypeOK'
    BY <1>a, <2>1 DEF TypeOK
  <2>3. Kept'
    BY <1>a, <2>1, NoneIsNoSetting DEF Kept
  <2>4. FramesAreCurrent' /\ HalfDone'
    BY <1>a, <2>1, RecordsDiffer DEF FramesAreCurrent, HalfDone
  <2>5. QED
    BY <2>2, <2>3, <2>4 DEF SwitchInv
<1>10. CASE Restart
  <2>1. /\ frame' = None /\ seen' = None /\ turn' = Idle /\ (turn.at = "second" => stopped)
        /\ UNCHANGED <<device, restore, stopped, own, news>>
    BY <1>10 DEF Restart, MayEndHere
  <2>2. TypeOK'
    BY <1>a, <2>1, RecordsDiffer DEF TypeOK
  <2>3. turn = Idle \/ turn.at \in {"authority", "first", "second"}
    BY <1>a DEF TypeOK, HalfDone
  <2>4. FramesAreCurrent' /\ Kept' /\ HalfDone'
    BY <1>a, <2>1, <2>3, RecordsDiffer DEF FramesAreCurrent, Kept, HalfDone
  <2>5. QED
    BY <2>2, <2>4 DEF SwitchInv
<1>11. CASE UNCHANGED vars
  BY <1>a, <1>11 DEF vars, SwitchInv, TypeOK, FramesAreCurrent, Kept, HalfDone
<1>12. turn.at \in {"idle", "authority", "first", "second"}
  BY <1>a DEF TypeOK
<1>13. CASE Write
  BY <1>6, <1>7, <1>13 DEF Write
<1>14. QED
  BY <1>1, <1>2, <1>3, <1>4, <1>5, <1>8, <1>9, <1>10, <1>11, <1>13 DEF Next

(* OwnSettingsAreNotLost: without the races, what the owner set last is    *)
(* always on the inverter or kept to be put back.                          *)
THEOREM SpecOwnSettingsAreNotLost ==
    ASSUME Races = {} PROVE Spec => []OwnSettingsAreNotLost
<1>1. SwitchInv => OwnSettingsAreNotLost
  BY DEF SwitchInv, Kept, OwnSettingsAreNotLost, TypeOK
<1>2. QED
  BY <1>1, InitSwitchInv, NextSwitchInv, PTL DEF Spec

(* TurnsAreExact: a completed stop exports nothing, a completed allow puts *)
(* back exactly what the owner set last.                                   *)
THEOREM SpecTurnsAreExact ==
    ASSUME Races = {} PROVE Spec => TurnsAreExact
<1>1. SwitchInv /\ [Next]_vars =>
          (Write /\ turn.at = "second" =>
              IF turn.allow THEN device' = own ELSE ~AllowsExport(device'))
  <2> SUFFICES ASSUME SwitchInv, Write, turn.at = "second"
               PROVE  IF turn.allow THEN device' = own ELSE ~AllowsExport(device')
    OBVIOUS
  <2>1. turn.allow \in BOOLEAN /\ device' = Due
    BY DEF SwitchInv, TypeOK, Write
  <2>2. QED
    BY <2>1, DueIsSetting DEF AllowsExport
<1>2. QED
  BY <1>1, InitSwitchInv, NextSwitchInv, PTL DEF Spec, TurnsAreExact

-----------------------------------------------------------------------------
(* Export Solar First.                                                     *)

(* The step of the deficit is never given a wait, which is why the walk    *)
(* towards zero ends there.                                                *)
StepsInv ==
    /\ ModeTypeOK
    /\ cooldown["automatic"] = 0

-----------------------------------------------------------------------------
(* A wait stays within its bounds.                                         *)
LEMMA WaitIsBounded ==
    ASSUME NEW before \in 0 .. HandbackMax
    PROVE  Wait(before) \in 0 .. HandbackMax
  BY TimesAreOrdered DEF Wait, Larger, Smaller

(* What choose picks is a zone.                                            *)
LEMMA ChosenIsAZone ==
    ASSUME NEW r \in Readings, zone \in Zones
    PROVE  Chosen(r) \in Zones /\ StepFor(Chosen(r)) \in Steps
<1>1. Wanted(r) \in Zones
  BY DEF Wanted, ZoneFor, Zones
<1>2. Chosen(r) \in Zones
  BY <1>1 DEF Chosen, CloserToZero, Zones
<1>3. QED
  BY <1>2 DEF StepFor, Zones, Steps

(* Switching keeps the types, and never makes the deficit's step wait.     *)
LEMMA SwitchToKeeps ==
    ASSUME StepsInv, NEW s \in Steps, SwitchTo(s)
    PROVE  /\ step' \in Steps
           /\ since' \in 0 .. HandbackTime
           /\ cooldown' \in [Steps -> 0 .. HandbackMax]
           /\ away' \in [Steps -> 0 .. HandbackMax]
           /\ briefs' \in [Steps -> 0 .. HandbackMax]
           /\ cooldown'["automatic"] = 0
<1>1. CASE s = step
  BY <1>1 DEF SwitchTo, StepsInv, ModeTypeOK
<1>2. CASE s # step
  <2>1. step' = s /\ since' = 0
    BY <1>2 DEF SwitchTo
  <2>2. CASE step = "automatic"
    BY <1>2, <2>1, <2>2, TimesAreOrdered DEF SwitchTo, StepsInv, ModeTypeOK
  <2>3. CASE step # "automatic"
    <3>1. step \in Steps /\ cooldown[step] \in 0 .. HandbackMax /\ briefs[step] \in 0 .. HandbackMax
      BY DEF StepsInv, ModeTypeOK
    <3>2. Wait(cooldown[step]) \in 0 .. HandbackMax
      BY <3>1, WaitIsBounded
    <3> DEFINE wait == IF since < HandbackTime THEN Wait(cooldown[step]) ELSE 0
               count == IF ~(since < HandbackTime) THEN 0
                        ELSE IF briefs[step] < HandbackMax THEN briefs[step] + 1 ELSE briefs[step]
    <3>3. wait \in 0 .. HandbackMax /\ count \in 0 .. HandbackMax
      BY <3>1, <3>2, TimesAreOrdered
    <3>4. /\ cooldown' = [cooldown EXCEPT ![step] = wait]
          /\ away' = [away EXCEPT ![step] = 0]
          /\ briefs' = [briefs EXCEPT ![step] = count]
      BY <1>2, <2>3 DEF SwitchTo
    <3> HIDE DEF wait, count
    <3>5. "automatic" \in Steps
      BY DEF Steps
    <3>6. QED
      BY <2>1, <2>3, <3>1, <3>3, <3>4, <3>5, TimesAreOrdered DEF StepsInv, ModeTypeOK
  <2>4. QED
    BY <2>2, <2>3
<1>3. QED
  BY <1>1, <1>2

-----------------------------------------------------------------------------
LEMMA ModeInitInv == ModeInit => StepsInv
  BY TimesAreOrdered
     DEF ModeInit, StepsInv, ModeTypeOK, Zones, Steps, Readings, Never, LongAgo

LEMMA ModeNextInv == StepsInv /\ [ModeNext]_modeVars => StepsInv'
<1> SUFFICES ASSUME StepsInv, [ModeNext]_modeVars PROVE StepsInv'
  OBVIOUS
<1>1. CASE Choose
  <2>1. reading' \in Readings /\ zone' = Chosen(reading') /\ SwitchTo(StepFor(zone'))
    BY <1>1 DEF Choose
  <2>2. zone' \in Zones /\ StepFor(zone') \in Steps
    BY <2>1, ChosenIsAZone DEF StepsInv, ModeTypeOK
  <2>3. QED
    BY <2>1, <2>2, SwitchToKeeps DEF StepsInv, ModeTypeOK
<1>2. CASE StartOver
  BY <1>2, TimesAreOrdered
     DEF StartOver, StepsInv, ModeTypeOK, Zones, Steps, Readings, Never, LongAgo
<1>3. CASE Tick
  <2>1. Older(since, HandbackTime) \in 0 .. HandbackTime
    BY TimesAreOrdered DEF Older, StepsInv, ModeTypeOK
  <2>2. \A s \in Steps : Older(away[s], HandbackMax) \in 0 .. HandbackMax
    BY TimesAreOrdered DEF Older, StepsInv, ModeTypeOK
  <2>3. QED
    BY <1>3, <2>1, <2>2 DEF Tick, StepsInv, ModeTypeOK
<1>4. CASE UNCHANGED modeVars
  BY <1>4 DEF modeVars, StepsInv, ModeTypeOK
<1>5. QED
  BY <1>1, <1>2, <1>3, <1>4 DEF ModeNext

(* ModeTypeOK, with the step of the deficit free of waits.                     *)
THEOREM StepsAlways == ModeSpec => []StepsInv
  BY ModeInitInv, ModeNextInv, PTL DEF ModeSpec

(* TheWalkEnds: the loop of choose always finds a step that may run.       *)
THEOREM WalkAlwaysEnds == ModeSpec => []TheWalkEnds
<1>1. StepsInv => TheWalkEnds
  BY DEF StepsInv, ModeTypeOK, TheWalkEnds, MaySwitchTo, StepFor, Steps
<1>2. QED
  BY <1>1, StepsAlways, PTL

-----------------------------------------------------------------------------
(* A clear deficit is never taken for a surplus, whatever zone it is       *)
(* judged from.                                                            *)
LEMMA NothingIsWanted ==
    ASSUME NEW r \in Readings, NothingToExport(r), zone \in Zones
    PROVE  Wanted(r) \in {"deficit", "deficitAboveLimit"}
<1>1. CASE r.surplus = Unknown \/ r.limit = Unknown
  BY <1>1 DEF Wanted, SurplusZones
<1>2. CASE r.full
  <2>1. \A s, l : ZoneFor(s, l, zone) \in Zones
    BY DEF ZoneFor, Zones
  <2>2. QED
    BY <1>2, <2>1 DEF Wanted, Zones, SurplusZones
<1>3. CASE ~r.full /\ r.surplus # Unknown /\ r.limit # Unknown
  <2>1. r.surplus \in Int /\ r.limit \in Int /\ Deadband \in Int
    <3>1. r.surplus \in Surpluses \cup {Unknown} /\ r.limit \in Limits \cup {Unknown}
      BY DEF Readings
    <3>2. r.surplus \in Surpluses /\ r.limit \in Limits
      BY <1>3, <3>1
    <3>3. Surpluses \subseteq Int /\ Limits \subseteq Int /\ Deadband \in Int
      BY PowersAreWhole
    <3>4. QED
      BY <3>2, <3>3
  <2>2. 0 <= Deadband /\ r.surplus < -Deadband /\ r.surplus < r.limit - Deadband
    BY <1>3, PowersAreWhole DEF NothingToExport
  <2>3. ZoneFor(r.surplus, r.limit, zone) \in {"deficit", "deficitAboveLimit"}
    BY <2>1, <2>2 DEF ZoneFor
  <2>4. QED
    BY <1>3, <2>3 DEF Wanted
<1>4. QED
  BY <1>1, <1>2, <1>3

(* NeedIsServedAtOnce: in every state, a clear deficit and readings that   *)
(* decide nothing give the inverter back to itself at once.                *)
THEOREM NeedAlwaysServed == ModeSpec => []NeedIsServedAtOnce
<1>1. StepsInv => NeedIsServedAtOnce
  <2> SUFFICES ASSUME StepsInv, NEW r \in Readings, NothingToExport(r)
               PROVE  StepFor(Chosen(r)) = "automatic"
    BY DEF NeedIsServedAtOnce
  <2>1. Wanted(r) \in {"deficit", "deficitAboveLimit"}
    BY NothingIsWanted DEF StepsInv, ModeTypeOK
  <2>2. StepFor(Wanted(r)) = "automatic"
    BY <2>1 DEF StepFor
  <2>3. MaySwitchTo("automatic")
    BY DEF MaySwitchTo, StepsInv, ModeTypeOK, Steps
  <2>4. QED
    BY <2>2, <2>3 DEF Chosen
<1>2. QED
  BY <1>1, StepsAlways, PTL

-----------------------------------------------------------------------------
(* How long a step waits.  What holds of 0, and of each number after one   *)
(* of which it does, up to a bound, holds of all of them.                  *)
LEMMA UpTo ==
    ASSUME NEW n \in Nat, NEW T, 0 \in T,
           \A i \in 1 .. n : i - 1 \in T => i \in T
    PROVE  \A i \in 0 .. n : i \in T
<1>1. SUFFICES ASSUME ~(\A i \in 0 .. n : i \in T) PROVE FALSE
  OBVIOUS
<1> DEFINE S == {i \in 0 .. n : i \notin T}
           R == OpToRel(<, Nat)
<1>2. S \in SUBSET Nat /\ S # {}
  BY <1>1
<1>3. \A y, x \in Nat : y < x => <<y, x>> \in R
  BY DEF OpToRel
<1>0. IsWellFoundedOn(R, Nat)
  BY NatLessThanWellFounded
<1> HIDE DEF R, S
<1>4. PICK i \in S : \A j \in S : ~(<<j, i>> \in R)
  BY <1>0, <1>2, WFMin
<1>5. i \in 0 .. n /\ i \notin T
  BY DEF S
<1>6. i \in 1 .. n /\ i - 1 \in 0 .. n
  BY <1>5
<1>7. i - 1 \notin T
  BY <1>5, <1>6
<1>8. i - 1 \in S
  BY <1>6, <1>7 DEF S
<1>9. i \in Nat /\ i - 1 \in Nat /\ i - 1 < i
  BY <1>6
<1>10. QED
  BY <1>3, <1>4, <1>8, <1>9

(* The recursion of Doubled has a solution up to every bound,              *)
Doubling(wait, m) == wait = [n \in 0 .. m |-> IF n = 0 THEN HandbackTime ELSE 2 * wait[n - 1]]

LEMMA DoublingExists == \E wait : Doubling(wait, HandbackMax)
<1> DEFINE T == {m \in 0 .. HandbackMax : \E wait : Doubling(wait, m)}
<1>1. HandbackMax \in Nat
  BY TimesAreOrdered
<1>2. 0 \in T
  <2> DEFINE g == [n \in 0 .. 0 |-> HandbackTime]
  <2>1. \A n \in 0 .. 0 : n = 0
    OBVIOUS
  <2>2. Doubling(g, 0)
    BY <2>1 DEF Doubling
  <2>3. QED
    BY <1>1, <2>2
<1>3. ASSUME NEW m \in 1 .. HandbackMax, m - 1 \in T PROVE m \in T
  <2>1. PICK g : Doubling(g, m - 1)
    BY <1>3
  <2> DEFINE h == [n \in 0 .. m |-> IF n = m THEN 2 * g[m - 1] ELSE g[n]]
  <2>2. ASSUME NEW n \in 0 .. m
        PROVE  h[n] = IF n = 0 THEN HandbackTime ELSE 2 * h[n - 1]
    <3>1. CASE n = m
      <4>1. m - 1 \in 0 .. m /\ m - 1 # m /\ m # 0
        BY <1>1
      <4>2. h[m - 1] = g[m - 1] /\ h[m] = 2 * g[m - 1]
        BY <4>1
      <4>3. QED
        BY <3>1, <4>1, <4>2
    <3>2. CASE n # m
      <4>1. n \in 0 .. m - 1
        BY <1>1, <3>2
      <4>2. g[n] = IF n = 0 THEN HandbackTime ELSE 2 * g[n - 1]
        BY <2>1, <4>1 DEF Doubling
      <4>3. h[n] = g[n]
        BY <3>2
      <4>4. n # 0 => h[n - 1] = g[n - 1]
        BY <1>1, <4>1
      <4>5. QED
        BY <4>2, <4>3, <4>4
    <3>3. QED
      BY <3>1, <3>2
  <2>3. h = [n \in 0 .. m |-> h[n]]
    OBVIOUS
  <2> HIDE DEF h
  <2>4. Doubling(h, m)
    BY <2>2, <2>3, Zenon DEF Doubling
  <2>5. QED
    BY <1>1, <2>4
<1> HIDE DEF T
<1>4. \A m \in 1 .. HandbackMax : m - 1 \in T => m \in T
  BY <1>3
<1>5. HandbackMax \in T
  BY <1>1, <1>2, <1>4, UpTo
<1>6. QED
  BY <1>5 DEF T

(* so that it doubles, and passes every bound in as many steps.            *)
LEMMA DoubledGrows ==
    /\ Doubled[0] = HandbackTime
    /\ \A n \in 1 .. HandbackMax : Doubled[n] = 2 * Doubled[n - 1]
    /\ \A n \in 0 .. HandbackMax : Doubled[n] \in Nat /\ Doubled[n] > n
                                   /\ Doubled[n] >= HandbackTime
<1>1. HandbackMax \in Nat /\ HandbackTime \in Nat \ {0}
  BY TimesAreOrdered
<1>2. Doubling(Doubled, HandbackMax)
  <2>1. Doubled = CHOOSE wait : Doubling(wait, HandbackMax)
    BY DEF Doubled, Doubling
  <2>2. QED
    BY <2>1, DoublingExists, Zenon
<1>3. \A n \in 0 .. HandbackMax :
          Doubled[n] = IF n = 0 THEN HandbackTime ELSE 2 * Doubled[n - 1]
  BY <1>2 DEF Doubling
<1>4. Doubled[0] = HandbackTime /\ \A n \in 1 .. HandbackMax : Doubled[n] = 2 * Doubled[n - 1]
  BY <1>1, <1>3
<1> DEFINE T == {n \in 0 .. HandbackMax : Doubled[n] \in Nat /\ Doubled[n] > n
                                          /\ Doubled[n] >= HandbackTime}
<1>5. 0 \in T
  BY <1>1, <1>4
<1>6. ASSUME NEW n \in 1 .. HandbackMax, n - 1 \in T PROVE n \in T
  BY <1>1, <1>4, <1>6
<1> HIDE DEF T
<1>7. \A n \in 0 .. HandbackMax : n \in T
  BY <1>1, <1>5, <1>6, UpTo
<1>8. QED
  BY <1>4, <1>7 DEF T

(* A brief run more is the doubled wait of Wait.                           *)
LEMMA WaitDoubles ==
    ASSUME NEW n \in 0 .. HandbackMax
    PROVE  Wait(WaitAfter(n)) = WaitAfter(IF n < HandbackMax THEN n + 1 ELSE n)
<1>1. HandbackMax \in Nat /\ HandbackTime \in Nat \ {0} /\ HandbackTime <= HandbackMax
  BY TimesAreOrdered
<1>2. CASE n = 0
  BY <1>1, <1>2, DoubledGrows DEF Wait, WaitAfter, Larger, Smaller
<1>3. CASE n # 0
  <2> DEFINE d == Doubled[n - 1]
  <2>1. n - 1 \in 0 .. HandbackMax
    BY <1>1, <1>3
  <2>2. d \in Nat /\ d >= n /\ d >= HandbackTime
    BY <1>1, <2>1, DoubledGrows
  <2>3. n \in 1 .. HandbackMax /\ Doubled[n] = 2 * d
    BY <1>1, <1>3, DoubledGrows
  <2> HIDE DEF d
  <2>4. WaitAfter(n) = Smaller(d, HandbackMax)
    BY <1>3 DEF WaitAfter, d
  <2>5. n < HandbackMax => WaitAfter(n + 1) = Smaller(2 * d, HandbackMax)
    BY <2>3 DEF WaitAfter
  <2>6. n = HandbackMax => WaitAfter(n) = HandbackMax
    BY <1>1, <2>2, <2>4 DEF Smaller
  <2>7. Wait(WaitAfter(n)) = Smaller(2 * d, HandbackMax)
    BY <1>1, <2>2, <2>4 DEF Wait, Larger, Smaller
  <2>8. CASE n < HandbackMax
    BY <2>5, <2>7, <2>8
  <2>9. CASE n = HandbackMax
    BY <1>1, <2>2, <2>6, <2>7, <2>9 DEF Smaller
  <2>10. QED
    BY <1>1, <2>8, <2>9
<1>4. QED
  BY <1>2, <1>3

(* What a step has to wait is how often in a row it was brief.             *)
WaitsInv == \A s \in Steps \ {"automatic"} : cooldown[s] = WaitAfter(briefs[s])

LEMMA WaitsNext == StepsInv /\ WaitsInv /\ [ModeNext]_modeVars => WaitsInv'
<1> SUFFICES ASSUME StepsInv, WaitsInv, [ModeNext]_modeVars PROVE WaitsInv'
  OBVIOUS
<1>1. CASE Choose
  <2>1. PICK s : SwitchTo(s)
    BY <1>1 DEF Choose
  <2>2. CASE s = step \/ step = "automatic"
    BY <2>1, <2>2 DEF SwitchTo, WaitsInv
  <2>3. CASE s # step /\ step # "automatic"
    <3> DEFINE brief == since < HandbackTime
               n == briefs[step]
    <3>1. /\ cooldown' = [cooldown EXCEPT ![step] = IF brief THEN Wait(cooldown[step]) ELSE 0]
          /\ briefs' = [briefs EXCEPT ![step] =
                           IF ~brief THEN 0 ELSE IF n < HandbackMax THEN n + 1 ELSE n]
      BY <2>1, <2>3 DEF SwitchTo
    <3>2. step \in Steps /\ n \in 0 .. HandbackMax
          /\ cooldown \in [Steps -> 0 .. HandbackMax] /\ briefs \in [Steps -> 0 .. HandbackMax]
      BY DEF StepsInv, ModeTypeOK
    <3>3. cooldown[step] = WaitAfter(n)
      BY <2>3, <3>2 DEF WaitsInv
    <3> HIDE DEF brief, n
    <3>4. cooldown'[step] = WaitAfter(briefs'[step])
      <4>1. CASE brief
        BY <3>1, <3>2, <3>3, <4>1, WaitDoubles
      <4>2. CASE ~brief
        BY <3>1, <3>2, <4>2 DEF WaitAfter
      <4>3. QED
        BY <4>1, <4>2
    <3>5. \A t \in Steps \ {step} : cooldown'[t] = cooldown[t] /\ briefs'[t] = briefs[t]
      BY <3>1, <3>2
    <3>6. QED
      BY <3>4, <3>5 DEF WaitsInv
  <2>4. QED
    BY <2>2, <2>3
<1>2. CASE StartOver
  BY <1>2 DEF StartOver, Never, WaitsInv, WaitAfter
<1>3. CASE Tick
  BY <1>3 DEF Tick, WaitsInv
<1>4. CASE UNCHANGED modeVars
  BY <1>4 DEF modeVars, WaitsInv
<1>5. QED
  BY <1>1, <1>2, <1>3, <1>4 DEF ModeNext

(* BriefStepsWaitLonger: a step that was brief n times in a row does not   *)
(* run again before 2^(n-1) times the first wait, or the longest.          *)
THEOREM BriefAlwaysWait == ModeSpec => BriefStepsWaitLonger
<1>1. ModeInit => WaitsInv
  BY DEF ModeInit, Never, WaitsInv, WaitAfter
<1>2. ASSUME StepsInv, WaitsInv, [ModeNext]_modeVars,
             NEW s \in Steps \ {step, "automatic"}, step' = s, ~StartOver
      PROVE  away[s] >= WaitAfter(briefs[s])
  <2>1. Choose
    BY <1>2 DEF ModeNext, Tick, modeVars
  <2>2. step' = StepFor(zone') /\ zone' = Chosen(reading')
    BY <1>2, <2>1 DEF Choose, SwitchTo
  <2>3. s = StepFor(Chosen(reading'))
    BY <1>2, <2>2
  <2>4. MaySwitchTo(s)
    BY <1>2, <2>3 DEF Chosen, StepFor
  <2>5. away[s] >= cooldown[s]
    BY <1>2, <2>4 DEF MaySwitchTo
  <2>6. QED
    BY <1>2, <2>5 DEF WaitsInv
<1>3. StepsInv /\ WaitsInv /\ [ModeNext]_modeVars =>
          [\A s \in Steps \ {step, "automatic"} :
              step' = s /\ ~StartOver => away[s] >= WaitAfter(briefs[s])]_modeVars
  BY <1>2
<1>4. QED
  BY <1>1, <1>3, StepsAlways, WaitsNext, PTL DEF ModeSpec, BriefStepsWaitLonger
=============================================================================
