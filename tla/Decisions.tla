----------------------------- MODULE Decisions -----------------------------
(***************************************************************************)
(* What the integration decides at every poll (control.py): the step the   *)
(* mode runs, held back by the guards, becomes the one command the inverter*)
(* should follow.  It has no Automatic that only goes one way, so under a  *)
(* guard Automatic is reproduced on the battery setpoint, and handed back  *)
(* to the inverter while the battery would move the allowed way anyway     *)
(* (GuardHandback).                                                        *)
(*                                                                         *)
(* Which step an adapting mode is in is ModeSteps' to say, how the guards  *)
(* latch SocGuards', and how a decision reaches the inverter ControlLoop's:*)
(* here every step, every guard and every outcome may come at every poll.  *)
(* Powers are whole watts, positive when the battery charges; of an instant*)
(* its age is kept, up to where no comparison can tell it any more.        *)
(***************************************************************************)
EXTENDS Integers

CONSTANTS
    Modes,          \* those of AllModes to consider
    Surpluses,      \* natural battery powers: solar less house
    Disagreement,   \* how far apart the two sides of the balance may be
    Powers,         \* what a mode's power comes to
    Ceiling,        \* the inverter's own limit for a tracked setpoint
    None,           \* no reading, no power, no way
    Hold,           \* HOLD_SETPOINT_W
    Deadband,       \* GUARD_POWER_DEADBAND_W
    TrackingStep,   \* GUARD_TRACKING_STEP_W
    Tolerance,      \* POWER_TOLERANCE_W
    HandbackPower,  \* GUARD_HANDBACK_W
    DirectPower,    \* GUARD_DIRECT_HANDBACK_W
    Settle,         \* GUARD_SETTLE_S
    HandbackTime,   \* GUARD_HANDBACK_S
    HandbackMax     \* GUARD_HANDBACK_MAX_S

AllModes == {"automatic", "hold", "charge", "discharge", "export", "import", "solarFirst"}
Ways == {"charge", "discharge"}

ASSUME PowersAreOrdered ==
    /\ Modes \subseteq AllModes
    /\ Surpluses \subseteq Int /\ Powers \subseteq Nat /\ None \notin Int /\ None \notin Ways
    /\ Disagreement \in Nat /\ Ceiling \in Nat \ {0} /\ Hold \in Nat \ {0}
    /\ TrackingStep \in Nat \ {0} /\ Tolerance \in Nat
    /\ DirectPower \in Nat /\ Deadband \in Nat \ {0} /\ HandbackPower \in Nat
    /\ Deadband <= HandbackPower

ASSUME TimesAreOrdered ==
    /\ HandbackTime \in Nat \ {0} /\ HandbackMax \in Nat /\ Settle \in Nat
    /\ HandbackTime <= HandbackMax /\ Settle <= HandbackMax

VARIABLES
    tracks,         \* traits.guard_tracks_setpoints of the model; never changes
    mode,           \* _feature
    stopped,        \* _stopped: the step that was held, and the way it would have gone
    handback,       \* _handback
    handbackFor,    \* _handback_for
    commanded       \* _commanded_feature and _commanded_power

vars == <<tracks, mode, stopped, handback, handbackFor, commanded>>

Commands == AllModes \ {"solarFirst"}
Steps == [command : Commands, never : Ways \cup {None}]

Step(c, n) == [command |-> c, never |-> n]

Adapts(m) == m = "solarFirst"

(* MODES: what each mode may run.                                          *)
StepsOf(m) ==
    IF Adapts(m) THEN {Step("automatic", None), Step("automatic", "charge"), Step("export", None)}
    ELSE {Step(m, None)}

(* What a poll reads, and what has been worked out from it elsewhere:      *)
(* - surplus, from the side of the balance that is preferred, and whether  *)
(*   the other side reads less (by Disagreement);                          *)
(* - full: BATTERY_FULL_SOC is reached;                                    *)
(* - guarded: the ways whose guard is on, stops: those at their limit;     *)
(* - kept: the inverter keeps the reserve itself (it is native, or at least*)
(*   that high in the app);                                                *)
(* - capped: the grid cannot take the surplus;                             *)
(* - settled: the battery has reached the setpoint, or GUARD_SETTLE_S have *)
(*   passed since it was written;                                          *)
(* - power: the mode's power, None if it has none.                         *)
(* A step c of mode m takes it from these, told apart where c can.         *)
Choice(b) == IF b THEN BOOLEAN ELSE {FALSE}

ReadingsUnder(m, c, g) ==
    [surplus : Surpluses \cup {None},
     less    : Choice(~tracks /\ c = "automatic" /\ g # {}),
     full    : BOOLEAN,
     guarded : {g},
     stops   : SUBSET g,
     kept    : Choice(c = "automatic" /\ "discharge" \in g),
     capped  : Choice(Adapts(m) /\ "charge" \notin g),
     settled : IF c = "automatic" /\ g # {} THEN BOOLEAN ELSE {TRUE},
     power   : IF c \in {"automatic", "hold"} THEN {None} ELSE Powers]

ReadingsFor(m, c) == UNION {ReadingsUnder(m, c, g) : g \in SUBSET Ways}

-----------------------------------------------------------------------------
Larger(a, b) == IF a > b THEN a ELSE b
Smaller(a, b) == IF a < b THEN a ELSE b

(* GuardHandback: the phase, how long it lasts, and how long the next has  *)
(* to be pending.                                                          *)
Tracking(w) == [phase |-> "tracking", age |-> 0, wait |-> w]
Fresh == Tracking(HandbackTime)
Enter(h, phase) == [phase |-> phase, age |-> 0, wait |-> h.wait]

TakeBack(h) ==
    Tracking(IF h.phase # "handedBack" THEN h.wait
             ELSE IF h.age < h.wait THEN Smaller(2 * h.wait, HandbackMax)
             ELSE HandbackTime)

Decision(feature, power, urgent) == [feature |-> feature, power |-> power, urgent |-> urgent]

(* _hold: not of a full battery, which could only limit the solar.         *)
HoldBattery(r, urgent) ==
    IF r.full /\ r.surplus # None /\ r.surplus > Deadband
    THEN Decision("automatic", 0, urgent)
    ELSE Decision("hold", Hold, urgent)

(* battery_power: where a command takes the battery.                       *)
BatteryPower(command, surplus, power) ==
    CASE command = "hold" -> 0
      [] command = "charge" -> power
      [] command = "discharge" -> -power
      [] OTHER -> IF surplus = None THEN None
                  ELSE IF command = "export" THEN surplus - power
                  ELSE IF command = "import" THEN surplus + power
                  ELSE surplus

Toward(way, watts) == IF way = "charge" THEN watts ELSE -watts
Allowed(ways) == IF "charge" \in ways THEN "discharge" ELSE "charge"

(* Slips, here and below: what has been handed back is never taken back; a *)
(* step's own never is all that stops it; a zero setpoint goes out.        *)
AdvanceCareless(h, natural, latched, settled) ==
    LET wanted == Toward(Allowed(latched), natural)
    IN  IF Ways \subseteq latched THEN TakeBack(h)
        ELSE IF ~tracks
        THEN IF h.phase # "handedBack" /\ settled /\ wanted > DirectPower
             THEN Enter(h, "handedBack") ELSE h
        ELSE IF h.phase = "tracking" /\ wanted > HandbackPower THEN Enter(h, "pending")
        ELSE IF h.phase = "pending" /\ h.age >= h.wait THEN Enter(h, "handedBack")
        ELSE h

(* _advance_handback: the inverter runs itself while the phase this comes  *)
(* to is handedBack.                                                       *)
Advance(h, natural, latched, settled) ==
    LET wanted == Toward(Allowed(latched), natural)
    IN  IF Ways \subseteq latched THEN TakeBack(h)
        ELSE IF ~tracks
        THEN IF h.phase = "handedBack"
             THEN IF h.age >= Settle /\ wanted <= -DirectPower THEN TakeBack(h) ELSE h
             ELSE IF settled /\ wanted > DirectPower THEN Enter(h, "handedBack") ELSE h
        ELSE CASE h.phase = "tracking" ->
                      IF wanted > HandbackPower THEN Enter(h, "pending") ELSE h
               [] h.phase = "pending" ->
                      IF wanted <= HandbackPower THEN Enter(h, "tracking")
                      ELSE IF h.age < h.wait THEN h ELSE Enter(h, "handedBack")
               [] h.phase = "handedBack" ->
                      IF wanted < Deadband THEN TakeBack(h) ELSE h

(* The setpoint that follows the natural power: small changes wait for the *)
(* battery to settle, and tiny ones that only export a little are skipped. *)
Tracked(r, natural) ==
    LET feature == IF natural > 0 THEN "charge" ELSE "discharge"
        watts   == Toward(feature, natural)
        held    == commanded.power
        slack   == IF natural > 0 THEN watts - held ELSE held - watts
        kept    == /\ commanded.feature = feature
                   /\ \/ 0 <= slack /\ slack < TrackingStep
                      \/ -Tolerance < slack /\ slack < Tolerance /\ ~r.settled
    IN  Decision(feature, Smaller(IF kept THEN held ELSE watts, Ceiling), TRUE)

(* A model that cannot track believes the smaller side of the balance.     *)
Natural(r) == IF ~tracks /\ r.less THEN r.surplus - Disagreement ELSE r.surplus

(* _one_way_automatic, for the guards that are on and the ways they stop   *)
(* right now; h is the hand-back so far.                                   *)
OneWay(r, h, latched, forbidden) ==
    LET natural == Natural(r)
        next    == IF r.surplus = None THEN TakeBack(h)
                   ELSE Advance(h, natural, latched, r.settled)
        clamped == IF "charge" \in forbidden
                   THEN IF "discharge" \in forbidden THEN 0 ELSE Smaller(natural, 0)
                   ELSE IF "discharge" \in forbidden THEN Larger(natural, 0) ELSE natural
        decision ==
            IF r.surplus = None THEN HoldBattery(r, TRUE)
            ELSE IF next.phase = "handedBack" \/ (~tracks /\ forbidden = {})
            THEN Decision("automatic", 0, TRUE)
            ELSE IF ~tracks \/ clamped = 0 THEN HoldBattery(r, TRUE)
            ELSE Tracked(r, clamped)
    IN  [decision |-> decision, stopped |-> None, handback |-> next, handbackFor |-> latched]

(* _forbidden_way_moved: a step is stopped from the first watt, and        *)
(* released only once clearly clear.                                       *)
ForbiddenWayMoved(r, step, was, forbidden) ==
    LET battery == BatteryPower(step.command, r.surplus, IF r.power = None THEN 0 ELSE r.power)
        moved(way) ==
            /\ way \in forbidden
            /\ \/ battery = None
               \/ battery # None
                  /\ Toward(way, battery) > (IF was = [step |-> step, way |-> way] THEN -Deadband ELSE 0)
    IN  IF moved("charge") THEN "charge" ELSE IF moved("discharge") THEN "discharge" ELSE None

-----------------------------------------------------------------------------
(* _forbidden_ways, _reserve_guards and _stopping_now for a step.          *)
Guarding(r, step) ==
    {w \in r.guarded : w = "charge" \/ step.command # "automatic" \/ ~r.kept}

StoppingOnlyNever(r, step) == {step.never} \cap Ways
Stopping(r, step) == ({step.never} \cap Ways) \cup (Guarding(r, step) \cap r.stops)

CarryOutZero(m, r, step, was, h) ==
    LET way   == ForbiddenWayMoved(r, step, was, Stopping(r, step))
        power == IF r.power = None THEN 0 ELSE r.power
        plain(d, s) == [decision |-> d, stopped |-> s, handback |-> Fresh, handbackFor |-> {}]
    IN  IF step.command = "hold" THEN plain(HoldBattery(r, FALSE), None)
        ELSE IF way # None THEN plain(HoldBattery(r, TRUE), [step |-> step, way |-> way])
        ELSE plain(Decision(step.command, power, Adapts(m)), None)

(* _carry_out of a step in mode m: was is what it was stopped for, and h   *)
(* the hand-back under the guards handbackFor.                             *)
CarryOut(m, r, step, was, h) ==
    LET guards    == Guarding(r, step)
        latched   == guards \cup ({step.never} \cap Ways)
        forbidden == Stopping(r, step)
        power     == IF r.power = None THEN 0 ELSE r.power
        moved     == ForbiddenWayMoved(r, step, was, forbidden)
        way       == IF moved = "charge" /\ "charge" \notin r.guarded
                        /\ r.capped /\ r.surplus # None
                     THEN None ELSE moved
        plain(d, s) == [decision |-> d, stopped |-> s, handback |-> Fresh, handbackFor |-> {}]
    IN  IF step.command = "automatic" /\ guards # {}
        THEN OneWay(r, IF latched # handbackFor THEN Fresh ELSE h, latched, forbidden)
        ELSE IF step.command = "hold" THEN plain(HoldBattery(r, FALSE), None)
        ELSE IF power = 0 /\ step.command \in {"charge", "discharge"}
        THEN plain(HoldBattery(r, FALSE), None)
        ELSE IF way # None THEN plain(HoldBattery(r, TRUE), [step |-> step, way |-> way])
        ELSE IF step.command = "automatic"
        THEN plain(Decision("automatic", 0, Adapts(m)), None)
        ELSE plain(Decision(step.command, power, Adapts(m)), None)

-----------------------------------------------------------------------------
Automatic == [feature |-> "automatic", power |-> 0]

Init ==
    /\ tracks \in BOOLEAN
    /\ mode \in Modes /\ stopped = None
    /\ handback = Fresh /\ handbackFor = {}
    /\ commanded = Automatic

(* A decision is recorded once it is delivered, which may have to wait or  *)
(* may fail.                                                               *)
Deliver(d) == commanded' \in {commanded, [feature |-> d.feature, power |-> d.power]}

(* async_apply in mode m, from the readings r, with one of its steps.      *)
Applied(m, was, h) ==
    \E step \in StepsOf(m) :
        \E out \in {CarryOut(m, r, step, was, h) : r \in ReadingsFor(m, step.command)} :
            /\ stopped' = out.stopped
            /\ handback' = out.handback /\ handbackFor' = out.handbackFor
            /\ Deliver(out.decision)

(* A check says that the inverter is best left to itself.                  *)
SteppedAside(was) ==
    /\ stopped' = was
    /\ handback' = Fresh /\ handbackFor' = {}
    /\ Deliver(Decision("automatic", 0, TRUE))

(* _charge_to_reserve, whatever mode is selected.                          *)
ChargedToReserve ==
    /\ \E p \in Powers \ {0} : Deliver(Decision("charge", p, TRUE))
    /\ stopped' = None
    /\ handback' = Fresh /\ handbackFor' = {}

Decided(m, was, h) == Applied(m, was, h) \/ SteppedAside(was) \/ ChargedToReserve

Poll ==
    /\ Decided(mode, stopped, handback)
    /\ UNCHANGED <<tracks, mode>>

(* A mode is selected, runs out, or is set up anew, and so are the limits. *)
UserActs ==
    \E m \in Modes :
        /\ mode' = m
        /\ Decided(m, IF m = mode THEN stopped ELSE None, Fresh)
        /\ UNCHANGED tracks

Tick ==
    /\ handback.phase # "tracking" /\ handback.age < HandbackMax
    /\ handback' = [handback EXCEPT !.age = @ + 1]
    /\ UNCHANGED <<tracks, mode, stopped, handbackFor, commanded>>

Next == Poll \/ UserActs \/ Tick

Spec == Init /\ [][Next]_vars

-----------------------------------------------------------------------------
Handbacks == [phase : {"tracking", "pending", "handedBack"}, age : 0 .. HandbackMax,
              wait : HandbackTime .. HandbackMax]

TypeOK ==
    /\ tracks \in BOOLEAN /\ mode \in Modes
    /\ stopped \in [step : Steps, way : Ways] \cup {None}
    /\ handback \in Handbacks /\ handbackFor \in SUBSET Ways
    /\ commanded.feature \in Commands /\ commanded.power \in Nat

(* What is said of every decision that could come next, whatever is read.  *)
Whatever(P(_, _, _)) ==
    \A step \in StepsOf(mode) :
        \A r \in ReadingsFor(mode, step.command) :
            P(r, step, CarryOut(mode, r, step, stopped, handback))

(* At its limit the battery is never moved on, whatever the mode, the      *)
(* surplus and the history of hand-backs.  Excepted is what cannot happen  *)
(* (a full battery charging); and a model that cannot track a setpoint is  *)
(* looked at again only once it has settled.                               *)
Obeyed(r, step, out) ==
    \A way \in Guarding(r, step) \cap r.stops :
        LET battery == BatteryPower(out.decision.feature, r.surplus, out.decision.power)
        IN  \/ battery # None /\ Toward(way, battery) <= 0
            \/ way = "charge" /\ r.full /\ out.decision.feature = "automatic"
            \/ /\ ~tracks /\ out.handback.phase = "handedBack"
               /\ handback.age < Settle \/ Toward(way, Natural(r)) < DirectPower

StopsAreObeyed == Whatever(Obeyed)

(* "The inverter reads a zero battery setpoint as no limit at all", guards *)
(* or not.  And by what is not worth a write a tracked setpoint never      *)
(* drifts far from the natural power, nor beyond the tolerance to where    *)
(* the grid would be drawn on.                                             *)
Sound(r, step, out) ==
    LET d == out.decision
        natural == Toward(d.feature, r.surplus)
    IN  /\ d.feature \in {"hold", "charge", "discharge"} => d.power > 0
        /\ step.command = "automatic" /\ d.feature \in {"charge", "discharge"} =>
              /\ natural > 0
              /\ d.power < natural + Larger(TrackingStep, Tolerance)
              /\ d.power > Smaller(natural, Ceiling) - Larger(TrackingStep, Tolerance)
              /\ d.feature = "charge" => d.power <= natural \/ d.power < natural + Tolerance
              /\ d.feature = "discharge" =>
                    d.power >= Smaller(natural, Ceiling) \/ d.power > natural - Tolerance

SetpointsAreSound == Whatever(Sound)

(* What a guard changes about a decision never waits for the dwell between *)
(* commands.                                                               *)
Unguarded(r) == [r EXCEPT !.guarded = {}, !.stops = {}, !.kept = FALSE]

DoesNotWait(r, step, out) ==
    \/ out.decision.urgent
    \/ out.decision.feature
           = CarryOut(mode, Unguarded(r), step, stopped, handback).decision.feature

GuardsDoNotWait == Whatever(DoesNotWait)

(* The inverter runs itself under a guard only while the battery clearly   *)
(* moves the way the one guard allows, after that has lasted for as long   *)
(* as the last hand-backs ask for; with both guards on, never.             *)
Helps(r, step, out) ==
    tracks /\ out.handback.phase = "handedBack" =>
        /\ r.surplus # None /\ ~(Ways \subseteq out.handbackFor)
        /\ Toward(Allowed(out.handbackFor), r.surplus) >= Deadband
        /\ handback.phase # "handedBack" =>
              handback.phase = "pending" /\ handback.age >= handback.wait

HandedBackWhileItHelps == Whatever(Helps)

=============================================================================
