-------------------------- MODULE DecisionsProofs --------------------------
(* What Decisions keeps for every scale of powers and times.               *)
EXTENDS Decisions, TLAPS

(* A setpoint that is held comes from an earlier decision, so no command   *)
(* may have gone out with a zero one before.                               *)
IInv ==
    /\ TypeOK
    /\ commanded.feature \in {"charge", "discharge"} => commanded.power > 0

Typed(r) ==
    /\ r.surplus \in Int \cup {None} /\ r.guarded \subseteq Ways /\ r.stops \subseteq r.guarded
    /\ r.power \in Nat \cup {None}
    /\ {r.less, r.full, r.kept, r.capped, r.settled} \subseteq BOOLEAN

-----------------------------------------------------------------------------
(* Readings are of their type, and a command with a power has one.         *)
LEMMA ReadingTypes ==
    ASSUME NEW m, NEW c, NEW r \in ReadingsFor(m, c)
    PROVE  Typed(r) /\ (c \notin {"automatic", "hold"} => r.power \in Nat)
<1>1. PICK g \in SUBSET Ways : r \in ReadingsUnder(m, c, g)
  BY DEF ReadingsFor
<1>a. /\ r.surplus \in Surpluses \cup {None} /\ r.guarded = g /\ r.stops \in SUBSET g
      /\ r.less \in BOOLEAN /\ r.full \in BOOLEAN /\ r.kept \in BOOLEAN
      /\ r.capped \in BOOLEAN /\ r.settled \in BOOLEAN
      /\ r.power \in (IF c \in {"automatic", "hold"} THEN {None} ELSE Powers)
  BY <1>1 DEF ReadingsUnder, Choice
<1>2. Surpluses \subseteq Int /\ Powers \subseteq Nat
  BY PowersAreOrdered
<1>3. r.surplus \in Int \cup {None}
  BY <1>a, <1>2
<1>4. r.power \in Nat \cup {None} /\ (c \notin {"automatic", "hold"} => r.power \in Nat)
  BY <1>a, <1>2
<1>5. QED
  BY <1>1, <1>a, <1>3, <1>4 DEF Typed

(* The steps a mode may run are steps; only the inverter's own             *)
(* self-consumption is ever kept from one way.                             *)
LEMMA StepTypes ==
    ASSUME NEW m \in Modes, NEW step \in StepsOf(m)
    PROVE  /\ step \in Steps
           /\ step.never # None => step.command = "automatic" /\ step.never = "charge"
<1>1. Modes \subseteq AllModes
  BY PowersAreOrdered
<1>2. QED
  BY <1>1 DEF StepsOf, Step, Steps, Commands, AllModes, Ways, Adapts

(* Where a hold takes the battery: nowhere a stop forbids.                 *)
LEMMA HoldObeys ==
    ASSUME NEW r, Typed(r), NEW urgent, NEW way \in Ways,
           NEW d, d = HoldBattery(r, urgent)
    PROVE  LET battery == BatteryPower(d.feature, r.surplus, d.power)
           IN  \/ battery # None /\ Toward(way, battery) <= 0
               \/ way = "charge" /\ r.full /\ d.feature = "automatic"
<1>1. CASE r.full /\ r.surplus # None /\ r.surplus > Deadband
  <2>1. d.feature = "automatic"
    BY <1>1 DEF HoldBattery, Decision
  <2>2. r.surplus \in Int /\ r.surplus > 0
    BY <1>1, PowersAreOrdered DEF Typed
  <2>3. BatteryPower(d.feature, r.surplus, d.power) = r.surplus
    BY <1>1, <2>1 DEF BatteryPower
  <2>4. QED
    BY <1>1, <2>1, <2>2, <2>3 DEF Toward, Ways
<1>2. CASE ~(r.full /\ r.surplus # None /\ r.surplus > Deadband)
  <2>1. d.feature = "hold"
    BY <1>2 DEF HoldBattery, Decision
  <2>2. BatteryPower(d.feature, r.surplus, d.power) = 0
    BY <2>1 DEF BatteryPower
  <2>3. QED
    BY <2>2, PowersAreOrdered DEF Toward
<1>3. QED
  BY <1>1, <1>2

(* While the inverter runs itself under a guard, the battery moves the way *)
(* that guard allows, or the model is not looked at.                       *)
LEMMA HandedBackObeys ==
    ASSUME NEW h \in Handbacks, NEW natural \in Int, NEW latched \in SUBSET Ways,
           NEW settled \in BOOLEAN, NEW way \in latched, tracks \in BOOLEAN,
           Advance(h, natural, latched, settled).phase = "handedBack"
    PROVE  /\ tracks => Toward(way, natural) < 0
           /\ ~tracks => \/ h.phase = "handedBack" /\ h.age < Settle
                         \/ Toward(way, natural) < DirectPower
<1> DEFINE wanted == Toward(Allowed(latched), natural)
<1>1. ~(Ways \subseteq latched)
  BY DEF Advance, TakeBack, Tracking
<1>2. way \in Ways /\ Toward(way, natural) = -wanted /\ wanted \in Int
  BY <1>1 DEF Toward, Allowed, Ways
<1>3. /\ Deadband \in Nat /\ Deadband > 0 /\ HandbackPower \in Nat /\ Deadband <= HandbackPower
      /\ DirectPower \in Nat /\ Settle \in Nat
  BY PowersAreOrdered, TimesAreOrdered
<1>4. h.age \in Nat
  BY TimesAreOrdered DEF Handbacks
<1>5. CASE tracks
  <2>1. wanted > 0
    BY <1>1, <1>2, <1>3, <1>5 DEF Advance, TakeBack, Tracking, Enter, Handbacks
  <2>2. QED
    BY <1>2, <1>5, <2>1
<1>6. CASE ~tracks
  <2>1. \/ h.phase = "handedBack" /\ ~(h.age >= Settle /\ wanted <= -DirectPower)
        \/ wanted > DirectPower
    BY <1>1, <1>6 DEF Advance, TakeBack, Tracking, Enter, Handbacks
  <2>2. QED
    BY <1>2, <1>3, <1>4, <1>6, <2>1
<1>7. QED
  BY <1>5, <1>6

(* The setpoint that is tracked goes the natural way and stays close to it.*)
LEMMA TrackedIsClose ==
    ASSUME IInv, NEW r, NEW natural \in Int, natural # 0,
           NEW d, d = Tracked(r, natural)
    PROVE  /\ d.feature = IF natural > 0 THEN "charge" ELSE "discharge"
           /\ d.power \in Nat /\ d.power > 0
           /\ LET watts == Toward(d.feature, natural)
              IN  /\ watts > 0
                  /\ d.power < watts + Larger(TrackingStep, Tolerance)
                  /\ d.power > Smaller(watts, Ceiling) - Larger(TrackingStep, Tolerance)
                  /\ d.feature = "charge" => d.power <= watts \/ d.power < watts + Tolerance
                  /\ d.feature = "discharge" =>
                        d.power >= Smaller(watts, Ceiling) \/ d.power > watts - Tolerance
<1> DEFINE held == commanded.power
<1>1. /\ Ceiling \in Nat /\ Ceiling > 0 /\ Tolerance \in Nat
      /\ TrackingStep \in Nat /\ TrackingStep > 0
  BY PowersAreOrdered
<1>2. held \in Nat /\ (commanded.feature \in {"charge", "discharge"} => held > 0)
  BY DEF IInv, TypeOK
<1>3. CASE natural > 0
  <2>1. d.feature = "charge" /\ Toward(d.feature, natural) = natural
    BY <1>3 DEF Tracked, Decision, Toward
  <2>2. \/ d.power = Smaller(natural, Ceiling)
        \/ /\ d.power = Smaller(held, Ceiling) /\ held > 0
           /\ \/ 0 <= natural - held /\ natural - held < TrackingStep
              \/ -Tolerance < natural - held /\ natural - held < Tolerance
    BY <1>2, <1>3 DEF Tracked, Decision, Toward
  <2> HIDE DEF held
  <2>3. QED
    BY <1>1, <1>2, <1>3, <2>1, <2>2 DEF Smaller, Larger
<1>4. CASE natural < 0
  <2>1. d.feature = "discharge" /\ Toward(d.feature, natural) = -natural
    BY <1>4 DEF Tracked, Decision, Toward
  <2>2. \/ d.power = Smaller(-natural, Ceiling)
        \/ /\ d.power = Smaller(held, Ceiling) /\ held > 0
           /\ \/ 0 <= held + natural /\ held + natural < TrackingStep
              \/ -Tolerance < held + natural /\ held + natural < Tolerance
    BY <1>2, <1>4 DEF Tracked, Decision, Toward
  <2> HIDE DEF held
  <2>3. QED
    BY <1>1, <1>2, <1>4, <2>1, <2>2 DEF Smaller, Larger
<1>5. QED
  BY <1>3, <1>4

(* The hand-back stays of its type.                                        *)
LEMMA HandbackTypes ==
    /\ Fresh \in Handbacks
    /\ \A h \in Handbacks : TakeBack(h) \in Handbacks
    /\ \A h \in Handbacks, natural \in Int, latched \in SUBSET Ways, settled \in BOOLEAN :
          Advance(h, natural, latched, settled) \in Handbacks
<1>1. /\ HandbackTime \in Nat /\ HandbackTime > 0 /\ HandbackMax \in Nat
      /\ HandbackTime <= HandbackMax
  BY TimesAreOrdered
<1>2. \A w \in HandbackTime .. HandbackMax : Tracking(w) \in Handbacks
  BY <1>1 DEF Tracking, Handbacks
<1>3. Fresh \in Handbacks
  BY <1>1, <1>2 DEF Fresh
<1>4. ASSUME NEW h \in Handbacks PROVE TakeBack(h) \in Handbacks
  <2>1. h.wait \in HandbackTime .. HandbackMax
    BY DEF Handbacks
  <2>2. Smaller(2 * h.wait, HandbackMax) \in HandbackTime .. HandbackMax
    BY <1>1, <2>1 DEF Smaller
  <2>3. QED
    BY <1>1, <1>2, <2>1, <2>2 DEF TakeBack
<1>5. ASSUME NEW h \in Handbacks, NEW p \in {"tracking", "pending", "handedBack"}
      PROVE  Enter(h, p) \in Handbacks
  BY <1>1 DEF Enter, Handbacks
<1>6. ASSUME NEW h \in Handbacks, NEW natural \in Int, NEW latched \in SUBSET Ways,
             NEW settled \in BOOLEAN
      PROVE  Advance(h, natural, latched, settled) \in Handbacks
  <2>1. h.phase \in {"tracking", "pending", "handedBack"}
    BY DEF Handbacks
  <2>2. TakeBack(h) \in Handbacks
    BY <1>4
  <2>3. Enter(h, "tracking") \in Handbacks /\ Enter(h, "pending") \in Handbacks
        /\ Enter(h, "handedBack") \in Handbacks
    BY <1>5
  <2> DEFINE next == Advance(h, natural, latched, settled)
  <2>4. next \in {h, TakeBack(h), Enter(h, "tracking"), Enter(h, "pending"), Enter(h, "handedBack")}
    BY <2>1 DEF Advance
  <2>5. QED
    BY <2>2, <2>3, <2>4
<1>7. QED
  BY <1>3, <1>4, <1>6

(* What a hold comes to.                                                   *)
LEMMA HoldTypes ==
    ASSUME NEW r, NEW urgent, NEW d, d = HoldBattery(r, urgent)
    PROVE  /\ d.feature \in {"automatic", "hold"} /\ d.power \in Nat
           /\ d.feature = "hold" => d.power > 0
<1>1. Hold \in Nat /\ Hold > 0
  BY PowersAreOrdered
<1>2. QED
  BY <1>1 DEF HoldBattery, Decision

(* A decision of any kind, and what it may do about the ways in stops.     *)
DecisionTyped(d) ==
    /\ d.feature \in Commands /\ d.power \in Nat
    /\ d.feature \in {"hold", "charge", "discharge"} => d.power > 0

Obeys(r, stops, out) ==
    \A way \in stops :
        LET battery == BatteryPower(out.decision.feature, r.surplus, out.decision.power)
        IN  \/ battery # None /\ Toward(way, battery) <= 0
            \/ way = "charge" /\ r.full /\ out.decision.feature = "automatic"
            \/ /\ ~tracks /\ out.handback.phase = "handedBack"
               /\ handback.age < Settle \/ Toward(way, Natural(r)) < DirectPower

Close(r, d) ==
    d.feature \in {"charge", "discharge"} =>
        LET natural == Toward(d.feature, r.surplus)
        IN  /\ natural > 0
            /\ d.power < natural + Larger(TrackingStep, Tolerance)
            /\ d.power > Smaller(natural, Ceiling) - Larger(TrackingStep, Tolerance)
            /\ d.feature = "charge" => d.power <= natural \/ d.power < natural + Tolerance
            /\ d.feature = "discharge" =>
                  d.power >= Smaller(natural, Ceiling) \/ d.power > natural - Tolerance

(* Automatic under a guard: a hold, the inverter by itself, or a setpoint. *)
LEMMA OneWayIsRight ==
    ASSUME IInv, NEW r, Typed(r), NEW h \in {Fresh, handback},
           NEW latched \in SUBSET Ways, NEW forbidden \in SUBSET latched,
           NEW out, out = OneWay(r, h, latched, forbidden)
    PROVE  /\ DecisionTyped(out.decision) /\ Obeys(r, forbidden, out) /\ Close(r, out.decision)
           /\ out.stopped = None /\ out.handback \in Handbacks /\ out.handbackFor = latched
<1> DEFINE natural == Natural(r)
           next == IF r.surplus = None THEN TakeBack(h) ELSE Advance(h, natural, latched, r.settled)
<1>1. h \in Handbacks /\ tracks \in BOOLEAN
  BY HandbackTypes DEF IInv, TypeOK
<1>2. out.stopped = None /\ out.handback = next /\ out.handbackFor = latched
  BY DEF OneWay
<1>3. r.surplus # None => r.surplus \in Int /\ natural \in Int /\ (tracks => natural = r.surplus)
  BY PowersAreOrdered DEF Typed, Natural
<1>4. next \in Handbacks
  BY <1>1, <1>3, HandbackTypes DEF Typed
<1>5. CASE \/ out.decision = HoldBattery(r, TRUE)
  <2>1. \A way \in Ways :
            LET battery == BatteryPower(out.decision.feature, r.surplus, out.decision.power)
            IN  \/ battery # None /\ Toward(way, battery) <= 0
                \/ way = "charge" /\ r.full /\ out.decision.feature = "automatic"
    BY <1>5, HoldObeys
  <2>2. Obeys(r, forbidden, out)
    BY <2>1 DEF Obeys
  <2>3. DecisionTyped(out.decision) /\ Close(r, out.decision)
    BY <1>5, HoldTypes DEF DecisionTyped, Close, Commands, AllModes
  <2>4. QED
    BY <1>2, <1>4, <2>2, <2>3
<1>6. CASE r.surplus # None /\ (next.phase = "handedBack" \/ (~tracks /\ forbidden = {}))
  <2>1. out.decision = Decision("automatic", 0, TRUE)
    BY <1>6 DEF OneWay
  <2>2. out.decision.feature = "automatic" /\ out.decision.power = 0
    BY <2>1 DEF Decision
  <2>3. DecisionTyped(out.decision) /\ Close(r, out.decision)
    BY <2>2 DEF DecisionTyped, Close, Commands, AllModes
  <2>4. BatteryPower(out.decision.feature, r.surplus, out.decision.power) = r.surplus
    BY <1>6, <2>2 DEF BatteryPower
  <2>5. ASSUME NEW way \in forbidden
        PROVE  \/ Toward(way, r.surplus) <= 0
               \/ /\ ~tracks /\ next.phase = "handedBack"
                  /\ handback.age < Settle \/ Toward(way, natural) < DirectPower
    <3>1. next.phase = "handedBack" /\ next = Advance(h, natural, latched, r.settled)
      BY <1>6
    <3>2. r.settled \in BOOLEAN /\ natural \in Int /\ way \in latched
      BY <1>3, <1>6 DEF Typed
    <3>3. /\ tracks => Toward(way, natural) < 0
          /\ ~tracks => \/ h.phase = "handedBack" /\ h.age < Settle
                        \/ Toward(way, natural) < DirectPower
      BY <1>1, <3>1, <3>2, HandedBackObeys
    <3>4. h.phase = "handedBack" => h = handback
      BY DEF Fresh, Tracking
    <3>5. CASE tracks
      <4>1. Toward(way, r.surplus) < 0 /\ Toward(way, r.surplus) \in Int
        BY <1>3, <1>6, <3>3, <3>5 DEF Toward
      <4>2. QED
        BY <4>1
    <3>6. CASE ~tracks
      BY <3>1, <3>3, <3>4, <3>6
    <3>7. QED
      BY <3>5, <3>6
  <2>6. Obeys(r, forbidden, out)
    BY <1>2, <1>6, <2>4, <2>5 DEF Obeys
  <2>7. QED
    BY <1>2, <1>4, <2>3, <2>6
<1> DEFINE clamped ==
        IF "charge" \in forbidden
        THEN IF "discharge" \in forbidden THEN 0 ELSE Smaller(natural, 0)
        ELSE IF "discharge" \in forbidden THEN Larger(natural, 0) ELSE natural
<1>7. CASE /\ r.surplus # None /\ tracks /\ clamped # 0
           /\ out.decision = Tracked(r, clamped)
  <2>1. clamped = r.surplus /\ clamped \in Int
    BY <1>3, <1>7 DEF Smaller, Larger
  <2>2. /\ "charge" \in forbidden => clamped < 0
        /\ "discharge" \in forbidden => clamped > 0
    BY <1>3, <1>7 DEF Smaller, Larger
  <2> HIDE DEF clamped
  <2>3. /\ out.decision.feature = IF clamped > 0 THEN "charge" ELSE "discharge"
        /\ out.decision.power \in Nat /\ out.decision.power > 0
        /\ Close(r, out.decision)
    BY <1>7, <2>1, TrackedIsClose DEF Close
  <2>4. DecisionTyped(out.decision)
    BY <2>3 DEF DecisionTyped, Commands, AllModes
  <2>5. BatteryPower(out.decision.feature, r.surplus, out.decision.power)
            = IF clamped > 0 THEN out.decision.power ELSE -out.decision.power
    BY <2>3 DEF BatteryPower
  <2>6. None \notin Int
    BY PowersAreOrdered
  <2>7. Obeys(r, forbidden, out)
    BY <2>1, <2>2, <2>3, <2>5, <2>6 DEF Obeys, Toward, Ways
  <2>8. QED
    BY <1>2, <1>4, <2>3, <2>4, <2>7
<1>8. QED
  BY <1>5, <1>6, <1>7 DEF OneWay

(* Any step, in any mode.                                                  *)
LEMMA CarryOutIsRight ==
    ASSUME IInv, NEW m \in Modes, NEW step \in StepsOf(m), NEW r \in ReadingsFor(m, step.command),
           NEW h \in {Fresh, handback}, NEW was,
           NEW out, out = CarryOut(m, r, step, was, h)
    PROVE  /\ DecisionTyped(out.decision)
           /\ Obeys(r, Guarding(r, step) \cap r.stops, out)
           /\ step.command = "automatic" => Close(r, out.decision)
           /\ out.stopped \in [step : Steps, way : Ways] \cup {None}
           /\ out.handback \in Handbacks /\ out.handbackFor \in SUBSET Ways
<1> DEFINE guards == Guarding(r, step)
           latched == guards \cup ({step.never} \cap Ways)
           forbidden == Stopping(r, step)
           power == IF r.power = None THEN 0 ELSE r.power
           moved == ForbiddenWayMoved(r, step, was, forbidden)
           way == IF moved = "charge" /\ "charge" \notin r.guarded
                     /\ r.capped /\ r.surplus # None
                  THEN None ELSE moved
<1>1. /\ Typed(r) /\ (step.command \notin {"automatic", "hold"} => r.power \in Nat)
      /\ step \in Steps /\ (step.never # None => step.command = "automatic")
  BY ReadingTypes, StepTypes
<1>2. guards \subseteq r.guarded /\ guards \subseteq Ways
  BY <1>1 DEF Guarding, Typed
<1>3. forbidden = ({step.never} \cap Ways) \cup (guards \cap r.stops) /\ latched \in SUBSET Ways
      /\ forbidden \in SUBSET latched
  BY <1>2 DEF Stopping
<1>4. power \in Nat
  BY <1>1 DEF Typed
<1>5. moved \in Ways \cup {None} /\ way \in {moved, None}
  BY DEF ForbiddenWayMoved, Ways
<1>6. Fresh \in Handbacks
  BY HandbackTypes
<1>7. CASE step.command = "automatic" /\ guards # {}
  <2> DEFINE so == IF latched # handbackFor THEN Fresh ELSE h
  <2>1. out = OneWay(r, so, latched, forbidden)
    BY <1>7 DEF CarryOut
  <2>2. so \in {Fresh, handback}
    OBVIOUS
  <2> HIDE DEF so, latched, forbidden
  <2>3. /\ DecisionTyped(out.decision) /\ Obeys(r, forbidden, out) /\ Close(r, out.decision)
        /\ out.stopped = None /\ out.handback \in Handbacks /\ out.handbackFor = latched
    BY <1>1, <1>3, <2>1, <2>2, OneWayIsRight
  <2>4. Obeys(r, guards \cap r.stops, out)
    BY <1>3, <2>3 DEF Obeys
  <2>5. QED
    BY <1>3, <2>3, <2>4
<1> HIDE DEF way, moved, power
<1>8. CASE \E u \in BOOLEAN, s \in {None, [step |-> step, way |-> way]} :
              /\ way \in Ways \/ s = None
              /\ out.decision = HoldBattery(r, u) /\ out.stopped = s
              /\ out.handback = Fresh /\ out.handbackFor = {}
  <2>1. PICK u \in BOOLEAN, s \in {None, [step |-> step, way |-> way]} :
              /\ way \in Ways \/ s = None
              /\ out.decision = HoldBattery(r, u) /\ out.stopped = s
              /\ out.handback = Fresh /\ out.handbackFor = {}
    BY <1>8
  <2>2. out.stopped \in [step : Steps, way : Ways] \cup {None}
    BY <1>1, <2>1
  <2>3. \A w \in Ways :
            LET battery == BatteryPower(out.decision.feature, r.surplus, out.decision.power)
            IN  \/ battery # None /\ Toward(w, battery) <= 0
                \/ w = "charge" /\ r.full /\ out.decision.feature = "automatic"
    BY <1>1, <2>1, HoldObeys
  <2>4. Obeys(r, guards \cap r.stops, out)
    BY <1>2, <2>3 DEF Obeys
  <2>5. DecisionTyped(out.decision) /\ Close(r, out.decision)
    BY <2>1, HoldTypes DEF DecisionTyped, Close, Commands, AllModes
  <2>6. QED
    BY <1>6, <2>1, <2>2, <2>4, <2>5
<1>9. CASE /\ step.command # "hold" /\ ~(step.command = "automatic" /\ guards # {})
           /\ ~(power = 0 /\ step.command \in {"charge", "discharge"}) /\ way = None
  <2>1. /\ out.decision.feature = step.command
        /\ out.decision.power = IF step.command = "automatic" THEN 0 ELSE power
        /\ out.stopped = None /\ out.handback = Fresh /\ out.handbackFor = {}
    BY <1>9 DEF CarryOut, Decision, guards, way, moved, power
  <2>2. step.command \in Commands
    BY <1>1 DEF Steps
  <2>3. DecisionTyped(out.decision)
    BY <1>4, <1>9, <2>1, <2>2 DEF DecisionTyped
  <2>4. step.command = "automatic" => Close(r, out.decision)
    BY <2>1 DEF Close
  <2>5. CASE step.command = "automatic"
    BY <1>6, <1>9, <2>1, <2>3, <2>4, <2>5 DEF Obeys
  <2>6. CASE step.command # "automatic"
    <3> DEFINE battery == BatteryPower(step.command, r.surplus, power)
    <3>1. None \notin Int /\ None \notin Ways /\ Deadband \in Nat
      BY PowersAreOrdered
    <3>2. forbidden = guards \cap r.stops /\ forbidden \subseteq r.guarded /\ forbidden \subseteq Ways
      BY <1>1, <1>2, <1>3, <2>6, <3>1
    <3>3. battery \in Int \cup {None}
      BY <1>1, <1>4 DEF BatteryPower, Typed
    <3> HIDE DEF battery, forbidden
    <3>4. moved = "charge" => "charge" \in forbidden
      BY <3>1 DEF moved, ForbiddenWayMoved, Ways
    <3>5. moved = None
      BY <1>5, <1>9, <3>1, <3>2, <3>4 DEF way, Ways
    <3>6. ASSUME NEW w \in forbidden
          PROVE  battery # None /\ Toward(w, battery) <= 0
      <4>1. w \in Ways
        BY <3>2
      <4>2. battery # None /\ ~(Toward(w, battery) >
                  (IF was = [step |-> step, way |-> w] THEN -Deadband ELSE 0))
        BY <3>1, <3>5, <4>1 DEF moved, ForbiddenWayMoved, battery, power, Ways
      <4>3. battery \in Int /\ Toward(w, battery) \in Int
        BY <3>3, <4>2 DEF Toward
      <4>4. QED
        BY <3>1, <4>2, <4>3
    <3>7. BatteryPower(out.decision.feature, r.surplus, out.decision.power) = battery
      BY <2>1, <2>6 DEF battery
    <3>8. Obeys(r, guards \cap r.stops, out)
      BY <3>2, <3>6, <3>7 DEF Obeys
    <3>9. QED
      BY <1>6, <2>1, <2>3, <2>4, <3>8
  <2>7. QED
    BY <2>5, <2>6
<1>10. QED
  BY <1>5, <1>7, <1>8, <1>9 DEF CarryOut, guards, latched, forbidden, power, moved, way

-----------------------------------------------------------------------------
(* Nothing has been commanded yet.                                         *)
LEMMA InitIInv == Init => IInv
<1> SUFFICES ASSUME Init PROVE IInv
  OBVIOUS
<1>1. Fresh \in Handbacks
  BY HandbackTypes
<1>2. QED
  BY <1>1 DEF Init, IInv, TypeOK, Automatic, Commands, AllModes

(* A decision that is sound leaves a sound command, delivered or not.      *)
LEMMA DeliverTypes ==
    ASSUME IInv, NEW d, DecisionTyped(d), Deliver(d)
    PROVE  /\ commanded'.feature \in Commands /\ commanded'.power \in Nat
           /\ commanded'.feature \in {"charge", "discharge"} => commanded'.power > 0
BY DEF IInv, TypeOK, DecisionTyped, Deliver

(* A poll, in the mode that was or in the one just selected.               *)
LEMMA DecidedIInv ==
    ASSUME IInv, NEW m \in Modes, NEW was, was \in {stopped, None},
           NEW h \in {Fresh, handback}, Decided(m, was, h), tracks' = tracks, mode' = m
    PROVE  IInv'
<1>1. /\ Fresh \in Handbacks /\ {} \in SUBSET Ways
      /\ was \in [step : Steps, way : Ways] \cup {None}
  BY HandbackTypes DEF IInv, TypeOK
<1> DEFINE Rest == /\ stopped' \in [step : Steps, way : Ways] \cup {None}
                   /\ handback' \in Handbacks /\ handbackFor' \in SUBSET Ways
           Commanded == /\ commanded'.feature \in Commands /\ commanded'.power \in Nat
                        /\ commanded'.feature \in {"charge", "discharge"} => commanded'.power > 0
<1>2. CASE Applied(m, was, h)
  <2>1. PICK step \in StepsOf(m) : \E r \in ReadingsFor(m, step.command) :
            LET out == CarryOut(m, r, step, was, h)
            IN  /\ stopped' = out.stopped /\ Deliver(out.decision)
                /\ handback' = out.handback /\ handbackFor' = out.handbackFor
    BY <1>2 DEF Applied
  <2>2. PICK r \in ReadingsFor(m, step.command) :
            LET out == CarryOut(m, r, step, was, h)
            IN  /\ stopped' = out.stopped /\ Deliver(out.decision)
                /\ handback' = out.handback /\ handbackFor' = out.handbackFor
    BY <2>1
  <2> DEFINE out == CarryOut(m, r, step, was, h)
  <2>3. /\ DecisionTyped(out.decision) /\ out.stopped \in [step : Steps, way : Ways] \cup {None}
        /\ out.handback \in Handbacks /\ out.handbackFor \in SUBSET Ways
    BY CarryOutIsRight
  <2> HIDE DEF out
  <2>4. Rest
    BY <2>2, <2>3 DEF out
  <2>5. Commanded
    BY <2>2, <2>3, DeliverTypes DEF out
  <2>6. QED
    BY <2>4, <2>5 DEF IInv, TypeOK
<1>3. CASE SteppedAside(was)
  <2>1. DecisionTyped(Decision("automatic", 0, TRUE))
    BY DEF DecisionTyped, Decision, Commands, AllModes
  <2>2. Rest /\ Commanded
    BY <1>1, <1>3, <2>1, DeliverTypes DEF SteppedAside
  <2>3. QED
    BY <2>2 DEF IInv, TypeOK
<1>4. CASE ChargedToReserve
  <2>1. PICK p \in Powers \ {0} : Deliver(Decision("charge", p, TRUE))
    BY <1>4 DEF ChargedToReserve
  <2>2. p \in Nat /\ p > 0
    BY PowersAreOrdered
  <2>3. DecisionTyped(Decision("charge", p, TRUE))
    BY <2>2 DEF DecisionTyped, Decision, Commands, AllModes
  <2>4. Rest /\ Commanded
    BY <1>1, <1>4, <2>1, <2>3, DeliverTypes DEF ChargedToReserve
  <2>5. QED
    BY <2>4 DEF IInv, TypeOK
<1>5. QED
  BY <1>2, <1>3, <1>4 DEF Decided

(* Every step keeps the invariant.                                         *)
LEMMA NextIInv == IInv /\ [Next]_vars => IInv'
<1> SUFFICES ASSUME IInv, [Next]_vars PROVE IInv'
  OBVIOUS
<1>1. CASE Poll
  <2>1. mode \in Modes /\ tracks' = tracks /\ mode' = mode /\ Decided(mode, stopped, handback)
    BY <1>1 DEF Poll, IInv, TypeOK
  <2>2. QED
    BY <2>1, DecidedIInv
<1>2. CASE UserActs
  <2>1. PICK m \in Modes : /\ mode' = m /\ tracks' = tracks
                           /\ Decided(m, IF m = mode THEN stopped ELSE None, Fresh)
    BY <1>2 DEF UserActs
  <2>2. (IF m = mode THEN stopped ELSE None) \in {stopped, None}
    OBVIOUS
  <2>3. QED
    BY <2>1, <2>2, DecidedIInv
<1>3. CASE Tick
  <2>1. handback' \in Handbacks
    BY <1>3, TimesAreOrdered DEF Tick, IInv, TypeOK, Handbacks
  <2>2. QED
    BY <1>3, <2>1 DEF Tick, IInv, TypeOK
<1>4. CASE UNCHANGED vars
  BY <1>4 DEF vars, IInv, TypeOK
<1>5. QED
  BY <1>1, <1>2, <1>3, <1>4 DEF Next

(* The command stays one the inverter understands, whatever is read, for   *)
(* every scale of powers and times.                                        *)
THEOREM SpecIInv == Spec => []IInv
BY InitIInv, NextIInv, PTL DEF Spec

(* At a limit the battery is never moved on, by any mode under any guards, *)
(* and whatever has been handed back to the inverter before.               *)
THEOREM SpecStopsAreObeyed == Spec => []StopsAreObeyed
<1>1. IInv => StopsAreObeyed
  <2> SUFFICES ASSUME IInv, NEW step \in StepsOf(mode), NEW r \in ReadingsFor(mode, step.command)
               PROVE  Obeyed(r, step, CarryOut(mode, r, step, stopped, handback))
    BY DEF StopsAreObeyed, Whatever
  <2> DEFINE out == CarryOut(mode, r, step, stopped, handback)
  <2>1. mode \in Modes
    BY DEF IInv, TypeOK
  <2>2. Obeys(r, Guarding(r, step) \cap r.stops, out)
    BY <2>1, CarryOutIsRight
  <2>3. QED
    BY <2>2 DEF Obeys, Obeyed
<1>2. QED
  BY <1>1, SpecIInv, PTL

(* No zero setpoint is ever decided on, and a tracked one stays close to   *)
(* the natural power, however long small changes are left unwritten.       *)
THEOREM SpecSetpointsAreSound == Spec => []SetpointsAreSound
<1>1. IInv => SetpointsAreSound
  <2> SUFFICES ASSUME IInv, NEW step \in StepsOf(mode), NEW r \in ReadingsFor(mode, step.command)
               PROVE  Sound(r, step, CarryOut(mode, r, step, stopped, handback))
    BY DEF SetpointsAreSound, Whatever
  <2> DEFINE out == CarryOut(mode, r, step, stopped, handback)
  <2>1. mode \in Modes
    BY DEF IInv, TypeOK
  <2>2. DecisionTyped(out.decision) /\ (step.command = "automatic" => Close(r, out.decision))
    BY <2>1, CarryOutIsRight
  <2>3. QED
    BY <2>2 DEF DecisionTyped, Close, Sound
<1>2. QED
  BY <1>1, SpecIInv, PTL

(* When a model that tracks its setpoint may be left to itself: the hand-  *)
(* back ends the moment the battery no longer clearly moves the one way    *)
(* that is allowed, and begins only after its whole wait.                  *)
LEMMA AdvanceHelps ==
    ASSUME NEW h \in Handbacks, NEW natural \in Int, NEW latched \in SUBSET Ways,
           NEW settled, tracks,
           Advance(h, natural, latched, settled).phase = "handedBack"
    PROVE  /\ ~(Ways \subseteq latched)
           /\ Toward(Allowed(latched), natural) >= Deadband
           /\ h.phase # "handedBack" => h.phase = "pending" /\ h.age >= h.wait
<1> DEFINE wanted == Toward(Allowed(latched), natural)
<1>1. ~(Ways \subseteq latched)
  BY DEF Advance, TakeBack, Tracking
<1>2. /\ Deadband \in Nat /\ HandbackPower \in Nat /\ Deadband <= HandbackPower
      /\ wanted \in Int /\ h.age \in Nat /\ h.wait \in Nat
  BY PowersAreOrdered, TimesAreOrdered DEF Toward, Handbacks
<1>3. \/ h.phase = "handedBack" /\ ~(wanted < Deadband)
      \/ h.phase = "pending" /\ ~(wanted <= HandbackPower) /\ ~(h.age < h.wait)
  <2> HIDE DEF wanted
  <2>1. h.phase \in {"tracking", "pending", "handedBack"}
    BY DEF Handbacks
  <2>2. QED
    BY <1>1, <2>1 DEF Advance, TakeBack, Tracking, Enter, wanted
<1>4. wanted >= Deadband /\ (h.phase # "handedBack" => h.phase = "pending" /\ h.age >= h.wait)
  <2> HIDE DEF wanted
  <2>1. QED
    BY <1>2, <1>3
<1>5. QED
  BY <1>1, <1>4

(* The inverter runs itself under a guard only while that helps.           *)
THEOREM SpecHandedBackWhileItHelps == Spec => []HandedBackWhileItHelps
<1>1. IInv => HandedBackWhileItHelps
  <2> SUFFICES ASSUME IInv, NEW step \in StepsOf(mode), NEW r \in ReadingsFor(mode, step.command)
               PROVE  Helps(r, step, CarryOut(mode, r, step, stopped, handback))
    BY DEF HandedBackWhileItHelps, Whatever
  <2> DEFINE out == CarryOut(mode, r, step, stopped, handback)
             guards == Guarding(r, step)
             latched == guards \cup ({step.never} \cap Ways)
             forbidden == Stopping(r, step)
             h == IF latched # handbackFor THEN Fresh ELSE handback
  <2> SUFFICES ASSUME tracks, out.handback.phase = "handedBack"
               PROVE  /\ r.surplus # None /\ ~(Ways \subseteq out.handbackFor)
                      /\ Toward(Allowed(out.handbackFor), r.surplus) >= Deadband
                      /\ handback.phase # "handedBack" =>
                            handback.phase = "pending" /\ handback.age >= handback.wait
    BY DEF Helps
  <2>1. Fresh.phase = "tracking" /\ Fresh \in Handbacks /\ handback \in Handbacks
    BY HandbackTypes DEF Fresh, Tracking, IInv, TypeOK
  <2>2. r.guarded \subseteq Ways /\ r.surplus \in Int \cup {None}
    BY ReadingTypes DEF Typed
  <2>3. latched \in SUBSET Ways
    BY <2>2 DEF Guarding
  <2>4. step.command = "automatic" /\ guards # {} /\ out = OneWay(r, h, latched, forbidden)
    <3>1. step.command = "automatic" /\ guards # {}
      <4> SUFFICES ASSUME ~(step.command = "automatic" /\ guards # {}) PROVE FALSE
        OBVIOUS
      <4>1. out.handback = Fresh
        BY DEF CarryOut
      <4>2. QED
        BY <2>1, <4>1
    <3>2. QED
      BY <3>1 DEF CarryOut
  <2>5. /\ out.handbackFor = latched
        /\ out.handback = IF r.surplus = None THEN TakeBack(h)
                          ELSE Advance(h, Natural(r), latched, r.settled)
    BY <2>4 DEF OneWay
  <2>6. r.surplus # None /\ r.surplus \in Int
    <3>1. TakeBack(h).phase = "tracking"
      BY DEF TakeBack, Tracking
    <3>2. QED
      BY <2>2, <2>5, <3>1
  <2>7. Natural(r) = r.surplus
    BY DEF Natural
  <2>8. h \in Handbacks /\ (h # handback => h.phase = "tracking")
    BY <2>1
  <2> HIDE DEF out, latched, h
  <2>9. /\ ~(Ways \subseteq latched)
        /\ Toward(Allowed(latched), r.surplus) >= Deadband
        /\ h.phase # "handedBack" => h.phase = "pending" /\ h.age >= h.wait
    BY <2>3, <2>5, <2>6, <2>7, <2>8, AdvanceHelps
  <2>10. QED
    BY <2>5, <2>6, <2>8, <2>9
<1>2. QED
  BY <1>1, SpecIInv, PTL

(* What a guard changes about a decision goes out at once.                 *)
THEOREM SpecGuardsDoNotWait == Spec => []GuardsDoNotWait
<1>1. IInv => GuardsDoNotWait
  <2> SUFFICES ASSUME IInv, NEW step \in StepsOf(mode), NEW r \in ReadingsFor(mode, step.command)
               PROVE  DoesNotWait(r, step, CarryOut(mode, r, step, stopped, handback))
    BY DEF GuardsDoNotWait, Whatever
  <2> DEFINE out == CarryOut(mode, r, step, stopped, handback)
             u == Unguarded(r)
             free == CarryOut(mode, u, step, stopped, handback)
             was == [step |-> step, way |-> "charge"]
  <2> SUFFICES ASSUME ~out.decision.urgent
               PROVE  out.decision.feature = free.decision.feature
    BY DEF DoesNotWait
  <2>1. \A d \in BOOLEAN : HoldBattery(r, d).urgent = d
    BY DEF HoldBattery, Decision
  <2>2. ~(step.command = "automatic" /\ Guarding(r, step) # {})
    <3> SUFFICES ASSUME step.command = "automatic" /\ Guarding(r, step) # {} PROVE FALSE
      OBVIOUS
    <3>1. out.decision.urgent
      BY <2>1 DEF CarryOut, OneWay, Tracked, Decision
    <3>2. QED
      BY <3>1
  <2>3. /\ u.surplus = r.surplus /\ u.full = r.full /\ u.power = r.power /\ u.capped = r.capped
        /\ u.guarded = {} /\ u.stops = {} /\ u.settled = r.settled /\ u.less = r.less
    BY DEF ReadingsFor, ReadingsUnder, Unguarded
  <2>4. Guarding(u, step) = {} /\ Stopping(u, step) = {step.never} \cap Ways
    BY <2>3 DEF Guarding, Stopping
  <2>5. \A d \in BOOLEAN : HoldBattery(u, d) = HoldBattery(r, d)
    BY <2>3 DEF HoldBattery
  <2>6. step.never # None => step.never = "charge"
    BY StepTypes DEF IInv, TypeOK
  <2>7. Stopping(u, step) \subseteq Stopping(r, step) /\ "discharge" \notin Stopping(u, step)
    <3>1. None \notin Ways
      BY PowersAreOrdered
    <3>2. QED
      BY <2>4, <2>6, <3>1 DEF Stopping, Ways
  <2> DEFINE moved(s) == ForbiddenWayMoved(s, step, stopped, Stopping(s, step))
             way(s) == IF moved(s) = "charge" /\ "charge" \notin s.guarded
                          /\ s.capped /\ s.surplus # None
                       THEN None ELSE moved(s)
  <2>8. moved(u) # None => moved(u) = "charge" /\ moved(r) = "charge"
    BY <2>3, <2>7 DEF ForbiddenWayMoved
  <2>9. way(r) = None => way(u) = None
    BY <2>3, <2>8
  <2>10. CASE step.command = "hold"
    BY <2>2, <2>4, <2>5, <2>10 DEF CarryOut
  <2>11. CASE step.command # "hold"
    <3> DEFINE power == IF r.power = None THEN 0 ELSE r.power
    <3>1. CASE power = 0 /\ step.command \in {"charge", "discharge"}
      BY <2>2, <2>3, <2>4, <2>5, <3>1 DEF CarryOut
    <3>2. CASE ~(power = 0 /\ step.command \in {"charge", "discharge"})
      <4>1. way(r) = None
        <5> SUFFICES ASSUME way(r) # None PROVE FALSE
          OBVIOUS
        <5>1. out.decision = HoldBattery(r, TRUE)
          BY <2>2, <2>11, <3>2 DEF CarryOut
        <5>2. QED
          BY <2>1, <5>1
      <4>2. out.decision.feature = step.command
        BY <2>2, <2>11, <3>2, <4>1 DEF CarryOut, Decision
      <4>3. free.decision.feature = step.command
        BY <2>3, <2>4, <2>9, <2>11, <3>2, <4>1 DEF CarryOut, Decision
      <4>4. QED
        BY <4>2, <4>3
    <3>3. QED
      BY <3>1, <3>2
  <2>12. QED
    BY <2>10, <2>11
<1>2. QED
  BY <1>1, SpecIInv, PTL
=============================================================================
