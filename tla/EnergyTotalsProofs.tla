------------------------- MODULE EnergyTotalsProofs -------------------------
(***************************************************************************)
(* Theorems about EnergyTotals: no sequence of bad reads, saves and polls  *)
(* makes a published total fall; a total the user took between two polls   *)
(* is what the next one counts on from; a true counter is shown or held    *)
(* with a countdown, whatever came before; and with true reads since its   *)
(* snapshot was made, today is what the device counted since midnight.     *)
(***************************************************************************)
EXTENDS EnergyTotals, TLAPS

\* A read of the device, or none.
Reading == Nat \cup {None}

LEMMA DaysAreNatural == ASSUME NEW t \in Nat PROVE Day(t) \in Nat
BY CountsAreNatural, SMT DEF Day

LEMMA MidnightIsNatural == ASSUME NEW t \in Nat PROVE Day(t) * DayLength \in Nat
BY DaysAreNatural, CountsAreNatural, SMT

\* What a poll may have added is never negative.
LEMMA BelievableIsNatural ==
    ASSUME TypeOK, NEW t \in Nat PROVE Believable(t) \in Nat
<1>1. Greater(now - t, 0) \in Nat BY SMT DEF TypeOK, Greater
<1>2. Power \in Nat /\ Resolution \in Nat BY CountsAreNatural
<1>3. Power * Greater(now - t, 0) \in Nat BY <1>1, <1>2, SMT
<1> QED BY <1>2, <1>3, SMT DEF Believable

LEMMA CorrectedIsValue ==
    ASSUME TypeOK, NEW v \in Reading PROVE Corrected(v) \in Value
BY SMT DEF TypeOK, Corrected, Reading, Value

\* No verdict publishes less than the baseline, while polls have kept one.
LEMMA PublishedNeverBelow ==
    ASSUME TypeOK, base # None, lastTime # None, NEW v \in Value, NEW d \in Reading
    PROVE  /\ Published(v, Verdict(v, d)) \in Int
           /\ Published(v, Verdict(v, d)) >= base
<1> DEFINE verdict == Verdict(v, d)
<1>1. base \in Int /\ lastTime \in Nat /\ Since \in Nat
  BY SMT DEF TypeOK, Value, Moment, Since, Anchor
<1>2. Believable(Since) \in Nat BY <1>1, BelievableIsNatural
<1>3. CASE verdict \in {"first", "confirmed", "anchored", "accepted", "witnessed"}
  <2>0. Since # None BY <1>1, CountsAreNatural, SMT
  <2>c. v # None
    <3>1. v = None => verdict \in {"tooSoon", "filled"} BY SMT DEF Verdict
    <3> QED BY <3>1, <1>3
  <2>a. verdict # "first" BY SMT DEF Verdict
  <2>b. verdict # "anchored" BY <2>0, SMT DEF Verdict
  <2>1. v # None /\ verdict \in {"confirmed", "accepted", "witnessed"}
    BY <1>3, <2>a, <2>b, <2>c
  <2>2. v \in Int BY <2>1 DEF Value
  <2>3. verdict \in {"confirmed", "witnessed"} => v - base >= 0
    <3>1. verdict \in {"confirmed", "witnessed"} => base = 0 /\ v > 0
      BY <1>1, SMT DEF Verdict, UnconfirmedZero
    <3> QED BY <3>1, <2>2, SMT
  <2>4. verdict = "accepted" => v - base >= 0
    <3>1. verdict = "accepted" => v - base \in 0 .. Believable(Since) BY SMT DEF Verdict
    <3> QED BY <3>1, <1>1, <1>2, <2>2, SMT
  <2>5. v - base >= 0 BY <2>1, <2>3, <2>4
  <2>6. Published(v, verdict) = v BY <1>3 DEF Published
  <2> QED BY <1>1, <2>2, <2>5, <2>6, SMT
<1>4. CASE verdict \notin {"first", "confirmed", "anchored", "accepted", "witnessed"}
  <2>1. Published(v, verdict) = base BY <1>4 DEF Published
  <2> QED BY <1>1, <2>1, SMT
<1> QED BY <1>3, <1>4

\* A verdict that looks at the total has one to look at.
LEMMA VerdictNeedsARead ==
    ASSUME NEW v, NEW d, Verdict(v, d) \notin {"tooSoon", "filled"}
    PROVE  v # None
BY SMT DEF Verdict

LEMMA HeldHasABaseline ==
    ASSUME NEW v, NEW d, Verdict(v, d) \notin {"tooSoon", "filled", "first"}
    PROVE  base # None
BY SMT DEF Verdict

LEMMA NextRunIsARun ==
    ASSUME TypeOK, NEW v \in Int, NEW d \in Int
    PROVE  NextRun(v, d) \in [total : Int, daily : Int, lastTotal : Int, lastDaily : Int,
                              seen : Nat, reads : Nat]
<1>1. now \in Nat /\ MinReads \in Nat BY CountsAreNatural DEF TypeOK
<1>2. CASE /\ run # None
           /\ v - run.lastTotal \in 0 .. Believable(run.seen)
           /\ RisesAgree(v - run.lastTotal, d - run.lastDaily)
  <2>1. run \in [total : Int, daily : Int, lastTotal : Int, lastDaily : Int,
                 seen : Nat, reads : Nat]
    BY <1>2 DEF TypeOK
  <2>2. Lesser(run.reads + 1, MinReads) \in Nat BY <1>1, <2>1, SMT DEF Lesser
  <2>3. NextRun(v, d) = [run EXCEPT !.lastTotal = v, !.lastDaily = d, !.seen = now,
                                    !.reads = Lesser(run.reads + 1, MinReads)]
    BY <1>2 DEF NextRun
  <2>4. NextRun(v, d) = [total |-> run.total, daily |-> run.daily, lastTotal |-> v,
                         lastDaily |-> d, seen |-> now,
                         reads |-> Lesser(run.reads + 1, MinReads)]
    BY <2>1, <2>3
  <2>5. run.total \in Int /\ run.daily \in Int BY <2>1
  <2> QED BY <1>1, <2>2, <2>4, <2>5
<1>3. CASE ~ (/\ run # None
              /\ v - run.lastTotal \in 0 .. Believable(run.seen)
              /\ RisesAgree(v - run.lastTotal, d - run.lastDaily))
  <2>1. NextRun(v, d) = [total |-> v, daily |-> d, lastTotal |-> v, lastDaily |-> d,
                         seen |-> now, reads |-> 1]
    BY <1>3 DEF NextRun
  <2> QED BY <1>1, <2>1, SMT
<1> QED BY <1>2, <1>3

LEMMA AnchorIsMoment == ASSUME TypeOK PROVE Anchor \in Moment
BY DEF TypeOK, Anchor

LEMMA PublishedIsValue ==
    ASSUME TypeOK, NEW v \in Value, NEW verdict PROVE Published(v, verdict) \in Value
BY DEF TypeOK, Published

LEMMA SnapshotIsValue ==
    ASSUME NEW total \in Value, NEW d \in Reading, NEW kept \in Value
    PROVE  /\ Snapshot(total, d, kept) \in Value
           /\ total # None => Snapshot(total, d, kept) \in Int
<1>1. CASE total = None
  <2>1. Snapshot(total, d, kept) = IF Rolls THEN None ELSE kept BY <1>1 DEF Snapshot
  <2> QED BY <1>1, <2>1 DEF Value
<1>2. CASE total # None /\ (Rolls \/ kept = None)
  <2>1. Snapshot(total, d, kept) = IF ValidDaily(d, total) THEN total - d ELSE total
    BY <1>2 DEF Snapshot
  <2>2. ValidDaily(d, total) => d \in Nat BY DEF ValidDaily, Reading
  <2>3. total \in Int BY <1>2 DEF Value
  <2> QED BY <2>1, <2>2, <2>3, SMT DEF Value
<1>3. CASE total # None /\ ~ (Rolls \/ kept = None)
  <2>1. Snapshot(total, d, kept) = Lesser(kept, total) BY <1>3 DEF Snapshot
  <2>2. total \in Int /\ kept \in Int BY <1>3 DEF Value
  <2> QED BY <2>1, <2>2, SMT DEF Lesser, Value
<1> QED BY <1>1, <1>2, <1>3

LEMMA ClampedIsValue ==
    ASSUME NEW value \in Value, NEW last \in Value PROVE Clamped(value, last) \in Value
BY SMT DEF Clamped, Value, Greater

\* What is worked out of a frame is of its type, and no total is missing once one
\* has been kept.
LEMMA ValidateTypes ==
    ASSUME TypeOK, NEW v \in Value, NEW d \in Reading, Validate(v, d, Verdict(v, d))
    PROVE  /\ accepted' \in Moment
           /\ first' \in [value : Int, at : Nat] \cup {None}
           /\ run' \in [total : Int, daily : Int, lastTotal : Int, lastDaily : Int,
                        seen : Nat, reads : Nat] \cup {None}
           /\ held' \in [published : Int, device : Int, since : Moment] \cup {None}
<1> DEFINE verdict == Verdict(v, d)
<1>1. now \in Nat /\ Anchor \in Moment BY AnchorIsMoment DEF TypeOK
<1>2. accepted' \in Moment BY <1>1, SMT DEF Validate, Moment, TypeOK
<1>3. verdict \in {"waiting", "held"} => v \in Int
  BY VerdictNeedsARead DEF Value
<1>4. first' \in [value : Int, at : Nat] \cup {None} BY <1>1, <1>3, SMT DEF Validate, TypeOK
<1>5. verdict = "held" /\ d # None => NextRun(v, d) \in
          [total : Int, daily : Int, lastTotal : Int, lastDaily : Int, seen : Nat, reads : Nat]
  <2>1. d # None => d \in Int BY DEF Reading
  <2> QED BY <1>3, <2>1, NextRunIsARun
<1>6. run' \in [total : Int, daily : Int, lastTotal : Int, lastDaily : Int,
                seen : Nat, reads : Nat] \cup {None}
  <2>1. \/ run' = None
        \/ run' = run
        \/ verdict = "held" /\ d # None /\ run' = NextRun(v, d)
    BY SMT DEF Validate
  <2> QED BY <1>5, <2>1 DEF TypeOK
<1>7. verdict = "held" => base \in Int BY HeldHasABaseline DEF TypeOK, Value
<1>8. held' \in [published : Int, device : Int, since : Moment] \cup {None}
  <2>1. \/ held' = None
        \/ held' = held
        \/ verdict = "held" /\ held' = [published |-> base, device |-> v, since |-> Anchor]
    BY SMT DEF Validate
  <2> QED BY <1>1, <1>3, <1>7, <2>1 DEF TypeOK
<1> QED BY <1>2, <1>4, <1>6, <1>8

LEMMA WorkTypes ==
    ASSUME TypeOK, NEW v \in Reading, NEW d \in Reading, Work(v, d)
    PROVE  /\ accepted' \in Moment
           /\ first' \in [value : Int, at : Nat] \cup {None}
           /\ run' \in [total : Int, daily : Int, lastTotal : Int, lastDaily : Int,
                        seen : Nat, reads : Nat] \cup {None}
           /\ held' \in [published : Int, device : Int, since : Moment] \cup {None}
           /\ snap' \in Value /\ day' \in Moment /\ made' \in Moment
           /\ poll' \in [total : Value, today : Value, raw : Value, house : Value]
<1> DEFINE c == Corrected(v)
           verdict == Verdict(c, d)
           total == Published(c, verdict)
           kept == IF verdict \in {"confirmed", "witnessed"} THEN None ELSE snap
           daily == Snapshot(total, d, kept)
           value == IF total = None THEN None ELSE total - daily
<1>1. c \in Value BY CorrectedIsValue
<1>2. total \in Value BY <1>1, PublishedIsValue
<1>3. kept \in Value BY DEF TypeOK, Value
<1>4. daily \in Value /\ (total # None => daily \in Int) BY <1>2, <1>3, SnapshotIsValue
<1>5. value \in Value
  <2>1. total # None => total \in Int BY <1>2 DEF Value
  <2> QED BY <1>4, <2>1, SMT DEF Value
<1>6. Clamped(value, house) \in Value BY <1>5, ClampedIsValue DEF TypeOK
<1>7. Validate(c, d, verdict) BY DEF Work
<1>8. poll' = [total |-> total, today |-> value, raw |-> v, house |-> Clamped(value, house)]
  BY DEF Work
<1>9. poll' \in [total : Value, today : Value, raw : Value, house : Value]
  <2>1. v \in Value BY DEF Reading, Value
  <2> QED BY <1>2, <1>5, <1>6, <1>8, <2>1
<1>10. snap' \in Value BY <1>4 DEF Work
<1>11. day' \in Moment
  <2>1. Day(now) \in Nat BY DaysAreNatural DEF TypeOK
  <2>2. day' = day \/ day' = Day(now) BY DEF Work
  <2> QED BY <2>1, <2>2 DEF TypeOK, Moment
<1>12. made' \in Moment
  <2>1. made' = now \/ made' = None \/ made' = made BY DEF Work
  <2> QED BY <2>1 DEF TypeOK, Moment
<1> QED BY <1>1, <1>7, <1>9, <1>10, <1>11, <1>12, ValidateTypes

\* A poll works a frame out of a read of each counter, or of none.
LEMMA PollReads ==
    ASSUME TypeOK, PollWorks PROVE \E v \in Reading, d \in Reading : Work(v, d)
<1>1. counter \in Reading /\ counted \in Reading /\ None \in Reading /\ 0 \in Reading
  BY DEF Reading, TypeOK
<1>2. Wild \in Reading BY CountsAreNatural DEF Reading
<1>3. CASE Work(counter, counted) BY <1>1, <1>3
<1>4. CASE \E read \in Misreads : Work(read[1], read[2])
  <2>1. PICK read \in Misreads : Work(read[1], read[2]) BY <1>4
  <2>2. read[1] \in Reading /\ read[2] \in Reading BY <1>1, <1>2 DEF Misreads
  <2> QED BY <2>1, <2>2
<1> QED BY <1>3, <1>4 DEF PollWorks

-----------------------------------------------------------------------------
(* The shape of the state.                                                 *)

LEMMA LoadTypes ==
    ASSUME TypeOK, NEW stored \in Kept, Load(stored)
    PROVE  /\ base' \in Value /\ raw' \in Value /\ house' \in Value /\ snap' \in Value
           /\ lastTime' \in Moment /\ accepted' \in Moment /\ day' \in Moment
           /\ offset' \in Int /\ first' = None /\ run' = None /\ held' = None
           /\ poll' = None
<1> DEFINE moves == stored.base # None /\ wanted # stored.offset
           shifted == IF IsReading(stored.raw) THEN stored.raw + wanted
                      ELSE stored.base + wanted - stored.offset
<1>1. /\ stored.base \in Value /\ stored.raw \in Value /\ stored.house \in Value
      /\ stored.snap \in Value /\ stored.lastTime \in Moment /\ stored.accepted \in Moment
      /\ stored.day \in Moment /\ stored.offset \in Int
  BY DEF Kept
<1>2. now \in Nat /\ wanted \in Int BY DEF TypeOK
<1>3. moves => shifted \in Int
  <2>1. moves => stored.base \in Int BY <1>1 DEF Value
  <2>2. IsReading(stored.raw) => stored.raw \in Int BY <1>1 DEF Value, IsReading
  <2> QED BY <1>1, <1>2, <2>1, <2>2, SMT
<1>4. base' \in Value
  <2>1. base' = IF moves THEN shifted ELSE stored.base BY DEF Load
  <2> QED BY <1>1, <1>3, <2>1 DEF Value
<1>5. snap' \in Value
  <2>1. snap' = IF moves /\ stored.snap # None
                THEN stored.snap + shifted - stored.base ELSE stored.snap
    BY DEF Load
  <2>2. moves => stored.base \in Int BY <1>1 DEF Value
  <2>3. stored.snap # None => stored.snap \in Int BY <1>1 DEF Value
  <2> QED BY <1>1, <1>3, <2>1, <2>2, <2>3, SMT DEF Value
<1>6. accepted' \in Moment
  <2>1. accepted' = now \/ accepted' = stored.accepted BY DEF Load
  <2> QED BY <1>1, <1>2, <2>1 DEF Moment
<1> QED BY <1>1, <1>2, <1>4, <1>5, <1>6 DEF Load

LEMMA PersistedIsKept == ASSUME TypeOK PROVE Persisted \in Kept
BY DEF TypeOK, Persisted, Kept

LEMMA NothingIsKept == Nothing \in Kept
BY SMT DEF Nothing, Kept, Value, Moment

LEMMA InheritedIsKept == Inherited \subseteq Kept
<1>1. Start \in Value /\ 0 \in Value /\ 0 \in Moment BY CountsAreNatural DEF Value, Moment
<1>2. [Nothing EXCEPT !.base = 0, !.raw = 0, !.lastTime = 0, !.accepted = 0,
                      !.snap = 0, !.day = 0] \in Kept
  BY <1>1, NothingIsKept, Zenon DEF Kept
<1>3. [Nothing EXCEPT !.base = Start, !.raw = Start, !.lastTime = 0, !.snap = Start,
                      !.day = 0] \in Kept
  BY <1>1, NothingIsKept, Zenon DEF Kept
<1> QED BY <1>2, <1>3, NothingIsKept DEF Inherited

LEMMA RestartingTypes ==
    ASSUME TypeOK, NEW torn, Restarting(torn), NEW stored \in Kept, Load(stored),
           saved' \in Kept, events' \in Nat
    PROVE  TypeOK'
<1>1. mixed' \in BOOLEAN BY SMT DEF Restarting
<1> QED BY <1>1, LoadTypes DEF TypeOK, Restarting, device, Moment, Value

LEMMA InitTypes == ASSUME Init PROVE TypeOK
<1>1. saved \in Kept BY InheritedIsKept DEF Init
<1>2. /\ saved.base \in Value /\ saved.raw \in Value /\ saved.house \in Value
      /\ saved.snap \in Value /\ saved.lastTime \in Moment /\ saved.accepted \in Moment
      /\ saved.day \in Moment
  BY <1>1 DEF Kept
<1>3. Start \in Nat BY CountsAreNatural
<1>4. /\ base \in Value /\ raw \in Value /\ house \in Value /\ snap \in Value
      /\ lastTime \in Moment /\ accepted \in Moment /\ day \in Moment
  BY <1>2 DEF Init
<1>5. now \in Nat /\ counter \in Nat /\ counted \in Nat /\ events \in Nat
  BY <1>3, SMT DEF Init
<1>6. portal \in BOOLEAN /\ mixed \in BOOLEAN /\ moved \in BOOLEAN BY DEF Init
<1>7. /\ shown = None /\ today = None /\ taken = None /\ clean = None /\ made = None
      /\ first = None /\ run = None /\ held = None /\ poll = None
  BY DEF Init
<1>8. offset \in Int /\ wanted \in Int BY SMT DEF Init
<1> QED BY <1>1, <1>4, <1>5, <1>6, <1>7, <1>8, Zenon DEF TypeOK, Value, Moment

LEMMA NextTypes == ASSUME TypeOK, [Next]_vars PROVE TypeOK'
<1> USE DEF TypeOK
<1>1. CASE UNCHANGED vars
  BY <1>1, Zenon DEF vars, device, checked, processor, history
<1>2. CASE Tick
  <2>1. now' \in Nat BY <1>2, SMT DEF Tick
  <2>2. counter' \in Nat /\ counted' \in Nat
    <3>1. PICK e \in 0 .. Power :
              /\ counter' = counter + e
              /\ counted' = IF Day(now + 1) > Day(now) THEN 0 ELSE counted + e
      BY <1>2 DEF Tick
    <3>2. e \in Nat BY CountsAreNatural, SMT
    <3> QED BY <3>1, <3>2, SMT
  <2> QED BY <1>2, <2>1, <2>2, Zenon DEF Tick, checked, processor, history
<1>3. CASE DeviceReset
  <2>1. events' \in Nat /\ counter' \in Nat /\ counted' \in Nat /\ clean' \in Moment
    BY <1>3, SMT DEF DeviceReset, Moment
  <2> QED BY <1>3, <2>1, Zenon DEF DeviceReset, checked, processor
<1>4. CASE PollWorks
  <2>1. PICK v \in Reading, d \in Reading : Work(v, d) BY <1>4, PollReads
  <2>2. clean' \in Moment
    <3>1. clean' = None \/ clean' = now \/ clean' = clean BY <1>4 DEF PollWorks
    <3> QED BY <3>1 DEF Moment
  <2>3. events' \in Nat
    <3>1. events' = events \/ events' = events + 1 BY <1>4 DEF PollWorks
    <3> QED BY <3>1, SMT
  <2>4. UNCHANGED <<now, device, portal, checked, offset, wanted, saved, shown, today,
                    mixed, moved, taken>>
    BY <1>4 DEF PollWorks
  <2> HIDE DEF TypeOK
  <2>5. /\ accepted' \in Moment
        /\ first' \in [value : Int, at : Nat] \cup {None}
        /\ run' \in [total : Int, daily : Int, lastTotal : Int, lastDaily : Int,
                     seen : Nat, reads : Nat] \cup {None}
        /\ held' \in [published : Int, device : Int, since : Moment] \cup {None}
        /\ snap' \in Value /\ day' \in Moment /\ made' \in Moment
        /\ poll' \in [total : Value, today : Value, raw : Value, house : Value]
    BY <2>1, WorkTypes
  <2> QED BY <2>2, <2>3, <2>4, <2>5, Zenon DEF TypeOK, device, checked
<1>5. CASE PollKeeps
  <2>1. poll \in [total : Value, today : Value, raw : Value, house : Value]
    BY <1>5 DEF PollKeeps
  <2>2. raw' \in Value /\ house' \in Value /\ shown' \in Value /\ today' \in Value
    BY <1>5, <2>1 DEF PollKeeps
  <2>3. /\ base' \in Value /\ accepted' \in Moment /\ snap' \in Value
        /\ moved' \in BOOLEAN
        /\ run' \in [total : Int, daily : Int, lastTotal : Int, lastDaily : Int,
                     seen : Nat, reads : Nat] \cup {None}
        /\ held' \in [published : Int, device : Int, since : Moment] \cup {None}
    <3>1. CASE TakesLongHeld
      <4>1. held \in [published : Int, device : Int, since : Moment]
        BY <3>1 DEF TakesLongHeld, HeldOverADay
      <4> QED BY <1>5, <3>1, <4>1 DEF PollKeeps, Take, Value, Moment
    <3>2. CASE ~TakesLongHeld
      BY <1>5, <2>1, <3>2 DEF PollKeeps
    <3> QED BY <3>1, <3>2
  <2>4. lastTime' \in Moment /\ taken' \in Value BY <1>5 DEF PollKeeps, Moment, Value
  <2> QED BY <1>5, <2>2, <2>3, <2>4, Zenon DEF PollKeeps, device
<1>6. CASE TakeDeviceTotal
  <2>1. held \in [published : Int, device : Int, since : Moment]
    BY <1>6 DEF TakeDeviceTotal, HeldOverADay
  <2>2. base' \in Value /\ taken' \in Value BY <1>6, <2>1 DEF TakeDeviceTotal, Value
  <2>3. accepted' \in Moment /\ snap' \in Value /\ clean' \in Moment
    BY <1>6 DEF TakeDeviceTotal, Take, Value, Moment
  <2>4. events' \in Nat BY <1>6, SMT DEF TakeDeviceTotal
  <2> QED BY <1>6, <2>2, <2>3, <2>4 DEF TakeDeviceTotal, Take, device
<1>7. ASSUME NEW correction \in Int, Correct(correction) PROVE TypeOK'
  <2>1. events' \in Nat /\ wanted' \in Int BY <1>7, SMT DEF Correct
  <2> QED BY <1>7, <2>1, Zenon DEF Correct, device, checked, processor, history
<1>8. CASE KeepShownTotal
  <2>1. held \in [published : Int, device : Int, since : Moment]
    BY <1>8 DEF KeepShownTotal, HeldOverADay
  <2>2. wanted + held.published - held.device \in Int BY <2>1, SMT
  <2> QED BY <1>7, <1>8, <2>2 DEF KeepShownTotal
<1>9. CASE SetTotal
  <2>1. raw \in Int BY <1>9 DEF SetTotal, IsReading, Value
  <2>2. PICK value \in Targets : Correct(value - raw) BY <1>9 DEF SetTotal
  <2>3. value \in Nat BY CountsAreNatural
  <2>4. value - raw \in Int BY <2>1, <2>3, SMT
  <2> QED BY <1>7, <2>2, <2>4
<1>15. CASE RemoveCorrections BY <1>7, <1>15 DEF RemoveCorrections
<1>10. Saving => saved' \in Kept BY PersistedIsKept DEF Saving
<1>11. CASE Save
  <2>1. events' \in Nat /\ mixed' \in BOOLEAN BY <1>11, SMT DEF Save
  <2> QED BY <1>10, <1>11, <2>1, Zenon DEF Save, device, checked, processor
<1> HIDE DEF TypeOK
<1>12. CASE Reload
  <2>1. events' \in Nat BY <1>12 DEF Reload, TypeOK
  <2> QED BY <1>10, <1>12, <2>1, PersistedIsKept, RestartingTypes DEF Reload
<1>13. CASE Restart
  <2>1. events' \in Nat BY <1>13, SMT DEF Restart, TypeOK
  <2>2. saved \in Kept BY DEF TypeOK
  <2> QED BY <1>10, <1>13, <2>1, <2>2, PersistedIsKept, RestartingTypes DEF Restart
<1>14. CASE StartAfresh
  <2>1. events' \in Nat BY <1>14, SMT DEF StartAfresh, TypeOK
  <2> QED BY <1>10, <1>14, <2>1, NothingIsKept, RestartingTypes DEF StartAfresh
<1> QED BY <1>1, <1>2, <1>3, <1>4, <1>5, <1>6, <1>8, <1>9, <1>11, <1>12, <1>13, <1>14, <1>15
        DEF Next

\* The state keeps its shape (EnergyProcessor, _last_checked_data, the state file).
THEOREM TypeCorrect == Spec => []TypeOK
BY InitTypes, NextTypes, PTL DEF Spec

-----------------------------------------------------------------------------
(* The published total.                                                    *)

\* A baseline was kept by a poll, whose time was kept with it.
Timed ==
    /\ base # None => lastTime # None
    /\ saved.base # None => saved.lastTime # None
    /\ held # None => lastTime # None

\* Until the user or a restart comes in, the baseline is what was published, and a
\* frame being kept has no less; the same of a total taken between two polls.
CountsFrom(total) ==
    /\ base = total
    /\ poll # None => poll.total \in Int /\ poll.total >= total

PublishedIsTheBaseline == ~moved /\ shown # None => CountsFrom(shown)
TakenIsTheBaseline == taken # None => CountsFrom(taken)

EnergyInv == TypeOK /\ Timed /\ PublishedIsTheBaseline /\ TakenIsTheBaseline

LEMMA LoadKeepsTimes ==
    ASSUME NEW stored, stored.base # None => stored.lastTime # None, Load(stored)
    PROVE  (base' # None => lastTime' # None) /\ held' = None
BY DEF Load

LEMMA InitIsTimed == ASSUME Init PROVE Timed
<1>1. saved.base # None => saved.lastTime # None
  <2>1. saved = Nothing => saved.base = None BY DEF Nothing
  <2>2. saved # Nothing => saved.lastTime = 0
    BY NothingIsKept DEF Init, Inherited, Kept
  <2>3. None # 0 BY CountsAreNatural
  <2> QED BY <2>1, <2>2, <2>3
<1> QED BY <1>1 DEF Init, Timed

LEMMA NextIsTimed == ASSUME TypeOK, Timed, [Next]_vars PROVE Timed'
<1> USE DEF Timed
<1>1. CASE UNCHANGED vars BY <1>1, Zenon DEF vars, checked, processor
<1>2. CASE Tick BY <1>2, Zenon DEF Tick, checked, processor
<1>3. CASE DeviceReset BY <1>3, Zenon DEF DeviceReset, checked, processor
<1>4. CASE PollWorks
  <2>1. PICK v, d : Validate(v, d, Verdict(v, d)) BY <1>4, Zenon DEF PollWorks, Work
  <2>2. held' # None => held # None \/ base # None
    <3>1. Verdict(v, d) = "held" => base # None BY HeldHasABaseline
    <3>2. held' = None \/ held' = held \/ Verdict(v, d) = "held" BY <2>1, SMT DEF Validate
    <3> QED BY <3>1, <3>2
  <2>3. UNCHANGED <<base, lastTime, saved>> BY <1>4, Zenon DEF PollWorks, checked
  <2> QED BY <2>2, <2>3, Zenon
<1>5. CASE PollKeeps
  <2>1. lastTime' # None BY <1>5, CountsAreNatural DEF PollKeeps, TypeOK
  <2>2. saved' = saved BY <1>5 DEF PollKeeps
  <2> QED BY <2>1, <2>2
<1>6. CASE TakeDeviceTotal BY <1>6 DEF TakeDeviceTotal, Take, HeldOverADay
<1>7. ASSUME NEW correction, Correct(correction) PROVE Timed'
  BY <1>7, Zenon DEF Correct, checked, processor
<1>8. CASE KeepShownTotal BY <1>7, <1>8 DEF KeepShownTotal
<1>9. CASE SetTotal BY <1>7, <1>9 DEF SetTotal
<1>15. CASE RemoveCorrections BY <1>7, <1>15 DEF RemoveCorrections
<1>10. /\ Persisted.base = base /\ Persisted.lastTime = lastTime
       /\ Saving => saved' = Persisted
  BY DEF Persisted, Saving
<1>11. CASE Save BY <1>10, <1>11, Zenon DEF Save, checked, processor
<1>12. CASE Reload BY <1>10, <1>12, LoadKeepsTimes DEF Reload
<1>13. CASE Restart BY <1>10, <1>13, LoadKeepsTimes DEF Restart
<1>14. CASE StartAfresh
  <2>1. Nothing.base = None BY DEF Nothing
  <2> QED BY <1>10, <1>14, <2>1, LoadKeepsTimes DEF StartAfresh
<1> QED BY <1>1, <1>2, <1>3, <1>4, <1>5, <1>6, <1>8, <1>9, <1>11, <1>12, <1>13, <1>14, <1>15
        DEF Next

\* The frame a poll works out counts on from the baseline.
LEMMA WorkCountsOn ==
    ASSUME TypeOK, Timed, PollWorks, base # None
    PROVE  poll'.total \in Int /\ poll'.total >= base
<1>1. PICK v \in Reading, d \in Reading : Work(v, d) BY PollReads
<1>2. Corrected(v) \in Value BY CorrectedIsValue
<1>3. poll'.total = Published(Corrected(v), Verdict(Corrected(v), d)) BY <1>1 DEF Work
<1>4. lastTime # None BY DEF Timed
<1> QED BY <1>2, <1>3, <1>4, PublishedNeverBelow

LEMMA CountsOn ==
    ASSUME TypeOK, Timed, NEW total \in Int, CountsFrom(total),
           \/ UNCHANGED <<base, poll>>
           \/ PollWorks
    PROVE  CountsFrom(total)'
<1>1. CASE UNCHANGED <<base, poll>> BY <1>1 DEF CountsFrom
<1>2. CASE PollWorks
  <2>1. base # None /\ base = total BY CountsAreNatural DEF CountsFrom
  <2>2. base' = base BY <1>2 DEF PollWorks, checked
  <2> QED BY <1>2, <2>1, <2>2, WorkCountsOn DEF CountsFrom
<1> QED BY <1>1, <1>2

LEMMA InitCountsOn == ASSUME Init PROVE PublishedIsTheBaseline /\ TakenIsTheBaseline
BY DEF Init, PublishedIsTheBaseline, TakenIsTheBaseline

LEMMA NextCountsOn ==
    ASSUME EnergyInv, [Next]_vars PROVE (PublishedIsTheBaseline /\ TakenIsTheBaseline)'
<1> USE DEF EnergyInv
<1>1. ASSUME \/ UNCHANGED <<base, poll>>
             \/ PollWorks,
             UNCHANGED <<shown, moved, taken>>
      PROVE  (PublishedIsTheBaseline /\ TakenIsTheBaseline)'
  <2>1. ~moved /\ shown # None => CountsFrom(shown)'
    BY <1>1, CountsOn DEF PublishedIsTheBaseline, TypeOK, Value
  <2>2. taken # None => CountsFrom(taken)'
    BY <1>1, CountsOn DEF TakenIsTheBaseline, TypeOK, Value
  <2> QED BY <1>1, <2>1, <2>2 DEF PublishedIsTheBaseline, TakenIsTheBaseline, CountsFrom
<1>2. CASE UNCHANGED vars BY <1>1, <1>2 DEF vars, checked, history
<1>3. CASE Tick BY <1>1, <1>3 DEF Tick, checked, history
<1>4. CASE DeviceReset BY <1>1, <1>4 DEF DeviceReset, checked
<1>5. CASE PollWorks BY <1>1, <1>5 DEF PollWorks
<1>6. CASE PollKeeps
  <2>1. taken' = None /\ poll' = None /\ shown' = poll.total BY <1>6 DEF PollKeeps
  <2>2. ~moved' => base' = poll.total BY <1>6 DEF PollKeeps
  <2> QED BY <2>1, <2>2 DEF PublishedIsTheBaseline, TakenIsTheBaseline, CountsFrom
<1>7. CASE TakeDeviceTotal
  <2>1. moved' = TRUE /\ poll' = poll /\ base' = held.device BY <1>7 DEF TakeDeviceTotal
  <2>2. taken' = IF poll = None THEN held.device ELSE None BY <1>7 DEF TakeDeviceTotal
  <2> QED BY <2>1, <2>2 DEF PublishedIsTheBaseline, TakenIsTheBaseline, CountsFrom
<1>8. ASSUME NEW correction, Correct(correction)
      PROVE  (PublishedIsTheBaseline /\ TakenIsTheBaseline)'
  BY <1>1, <1>8 DEF Correct, checked, history
<1>9. CASE KeepShownTotal BY <1>8, <1>9 DEF KeepShownTotal
<1>10. CASE SetTotal BY <1>8, <1>10 DEF SetTotal
<1>13. CASE RemoveCorrections BY <1>8, <1>13 DEF RemoveCorrections
<1>11. CASE Save BY <1>1, <1>11 DEF Save, checked
<1>12. CASE Reload \/ Restart \/ StartAfresh
  <2>1. moved' = TRUE /\ taken' = None BY <1>12 DEF Reload, Restart, StartAfresh, Restarting
  <2> QED BY <2>1 DEF PublishedIsTheBaseline, TakenIsTheBaseline
<1> QED BY <1>2, <1>3, <1>4, <1>5, <1>6, <1>7, <1>9, <1>10, <1>11, <1>12, <1>13 DEF Next

LEMMA EnergyInvHolds == Spec => []EnergyInv
<1>1. Init => EnergyInv BY InitTypes, InitIsTimed, InitCountsOn DEF EnergyInv
<1>2. EnergyInv /\ [Next]_vars => EnergyInv'
  BY NextTypes, NextIsTimed, NextCountsOn DEF EnergyInv
<1> QED BY <1>1, <1>2, PTL DEF Spec

\* However the reads, saves and polls fall, a published total falls only where the
\* user, a restart or a day's hold has moved it (validate_totals, async_take_device_totals).
THEOREM PublishedTotalsNeverFall == Spec => NeverFallsByItself
<1>1. ASSUME EnergyInv, [Next]_vars, shown # None, shown' # shown, ~moved
      PROVE  shown' # None /\ shown' > shown
  <2>1. PollKeeps
    BY <1>1 DEF Next, vars, history, Tick, DeviceReset, PollWorks, TakeDeviceTotal,
             KeepShownTotal, SetTotal, RemoveCorrections, Correct, Save, Reload, Restart, StartAfresh, Restarting
  <2>2. shown' = poll.total /\ poll # None BY <2>1 DEF PollKeeps
  <2>3. poll.total \in Int /\ poll.total >= shown /\ shown \in Int
    BY <1>1, <2>2 DEF EnergyInv, PublishedIsTheBaseline, CountsFrom, TypeOK, Value
  <2> QED BY <1>1, <2>2, <2>3, CountsAreNatural, SMT
<1>2. EnergyInv /\ [Next]_vars =>
          [shown # None /\ shown' # shown /\ ~moved => shown' # None /\ shown' > shown]_vars
  BY <1>1
<1> QED BY <1>2, EnergyInvHolds, PTL DEF Spec, NeverFallsByItself

\* A total the user takes between two polls is the baseline, and what the next poll
\* works out counts on from it (take_device_totals).
THEOREM TakenTotalsCountOn == Spec => []TakenCountsOn
<1>1. EnergyInv => TakenCountsOn
  BY DEF EnergyInv, TakenIsTheBaseline, CountsFrom, TakenCountsOn
<1> QED BY <1>1, EnergyInvHolds, PTL

-----------------------------------------------------------------------------
(* The honest counter.                                                     *)

\* No kept moment is ahead of the clock.
Past(t) == t # None => t <= now

Bygone ==
    /\ Past(accepted) /\ Past(lastTime) /\ Past(clean)
    /\ Past(saved.accepted) /\ Past(saved.lastTime)

\* Where a counter above 0, last read honestly as read at the moment at, stands with
\* the total then published: shown; its first read over a 0 that nothing has
\* confirmed; or held, since no later than the honest reads began.
IsShown(total, read, at) ==
    /\ total = read + offset
    /\ held = None
    /\ accepted # None /\ accepted <= at

IsWaiting(total, read, at) ==
    /\ total = 0 /\ accepted = None /\ held = None
    /\ first # None /\ first.value = read + offset /\ first.at = at
    /\ clean = at

IsHeld(total, read) ==
    /\ held # None /\ held.device = read + offset /\ held.published = total
    /\ accepted # None /\ held.since = accepted /\ accepted <= clean

Follows(total, read, at) ==
    /\ read \in Nat \ {0} /\ read + offset > 0 /\ clean <= at
    /\ IsShown(total, read, at) \/ IsWaiting(total, read, at) \/ IsHeld(total, read)

Followed ==
    clean # None =>
        /\ poll # None => poll.raw = counter /\ Follows(poll.total, counter, now)
        /\ poll = None =>
               /\ lastTime # None
               /\ counter - raw \in 0 .. Power * (now - lastTime)
               /\ Follows(base, raw, lastTime)

\* An accepted total is above 0, and what is saved can give none that is not,
\* unless an acceptance of another total was saved or a correction is negative.
Total == IF poll = None THEN base ELSE poll.total

AboveZero ==
    /\ held # None => accepted # None
    /\ ~mixed =>
           /\ Total = None => accepted = None
           /\ saved.base = None => saved.accepted = None
           /\ offset >= 0 /\ Total # None => Total >= 0 /\ (accepted # None => Total > 0)
           /\ saved.offset >= 0 /\ saved.base # None => saved.base >= 0

HonestInv == EnergyInv /\ Bygone /\ Followed /\ AboveZero

\* What the power can have added in a time, it can have added in a longer one.
LEMMA BelievableGrows ==
    ASSUME TypeOK, NEW t \in Nat, NEW since \in Nat, since <= t, t <= now,
           NEW rise \in 0 .. Power * (now - t)
    PROVE  rise \in 0 .. Believable(since)
<1>1. now \in Nat /\ Power \in Nat /\ Resolution \in Nat BY CountsAreNatural DEF TypeOK
<1> DEFINE a == now - t
           b == t - since
<1>2. a \in Nat /\ b \in Nat /\ now - since = a + b BY <1>1, SMT
<1>3. Power * (a + b) = Power * a + Power * b /\ Power * b \in Nat /\ Power * a \in Nat
  BY <1>1, <1>2, SMT
<1>4. Greater(now - since, 0) = a + b BY <1>1, <1>2, SMT DEF Greater
<1>5. rise \in Int /\ 0 <= rise /\ rise <= Power * a BY <1>1, <1>3, SMT
<1>6. Believable(since) = Power * (a + b) + Resolution BY <1>4 DEF Believable
<1> HIDE DEF a, b
<1> QED BY <1>1, <1>3, <1>5, <1>6, SMT

LEMMA AnchorIsPast == ASSUME TypeOK, Bygone PROVE Past(Anchor)
BY DEF Anchor, Bygone, Past

LEMMA ValidateKeepsPast ==
    ASSUME TypeOK, Bygone, NEW v, NEW verdict, NEW d, Validate(v, d, verdict), now' = now
    PROVE  Past(accepted)'
<1>1. accepted' = accepted \/ accepted' = now \/ accepted' = Anchor BY SMT DEF Validate
<1>2. Past(accepted) /\ Past(now) /\ Past(Anchor)
  BY AnchorIsPast, SMT DEF Bygone, Past, TypeOK
<1> QED BY <1>1, <1>2 DEF Past

LEMMA LoadKeepsPast ==
    ASSUME TypeOK, NEW stored, Load(stored), now' = now,
           Past(stored.accepted), Past(stored.lastTime)
    PROVE  Past(accepted)' /\ Past(lastTime)'
<1>1. Past(now) BY SMT DEF Past, TypeOK
<1> QED BY <1>1 DEF Load, Past

LEMMA InitIsBygone == ASSUME Init PROVE Bygone
<1>1. Past(saved.lastTime) /\ Past(saved.accepted)
  <2>1. /\ Nothing.lastTime = None /\ Nothing.accepted = None
    BY DEF Nothing
  <2>2. saved # Nothing => saved.lastTime = 0 /\ (saved.accepted = 0 \/ saved.accepted = None)
    BY NothingIsKept, <2>1 DEF Init, Inherited, Kept
  <2>3. now = 1 BY DEF Init
  <2> QED BY <2>1, <2>2, <2>3, SMT DEF Past
<1> QED BY <1>1 DEF Init, Bygone, Past

LEMMA NextIsBygone == ASSUME TypeOK, Bygone, [Next]_vars PROVE Bygone'
<1> USE DEF Bygone
<1>0. now \in Nat /\ Past(now) BY SMT DEF TypeOK, Past
<1>1. CASE UNCHANGED vars BY <1>1, Zenon DEF vars, checked, processor, history, Past
<1>2. CASE Tick
  <2>1. now' = now + 1
        /\ UNCHANGED <<accepted, lastTime, clean, saved>>
    BY <1>2, Zenon DEF Tick, checked, processor, history
  <2>2. ASSUME NEW t \in Moment, Past(t) PROVE t # None => t <= now + 1
    BY <1>0, <2>2, SMT DEF Past, Moment
  <2>3. accepted \in Moment /\ lastTime \in Moment /\ clean \in Moment
        /\ saved.accepted \in Moment /\ saved.lastTime \in Moment
    BY DEF TypeOK, Kept
  <2> QED BY <2>1, <2>2, <2>3, Zenon DEF Past
<1>3. CASE DeviceReset BY <1>3, Zenon DEF DeviceReset, checked, processor, Past
<1>4. CASE PollWorks
  <2>1. PICK v, d : Validate(v, d, Verdict(v, d)) BY <1>4, Zenon DEF PollWorks, Work
  <2>2. UNCHANGED <<now, lastTime, saved>> BY <1>4, Zenon DEF PollWorks, checked
  <2>3. Past(accepted)' BY <2>1, <2>2, ValidateKeepsPast
  <2>4. clean' = None \/ clean' = now \/ clean' = clean BY <1>4 DEF PollWorks
  <2> QED BY <1>0, <2>2, <2>3, <2>4, Zenon DEF Past
<1>5. CASE PollKeeps
  <2>1. UNCHANGED <<now, saved, clean>> /\ lastTime' = now BY <1>5 DEF PollKeeps
  <2>2. accepted' = now \/ accepted' = accepted BY <1>5 DEF PollKeeps, Take
  <2> QED BY <1>0, <2>1, <2>2, Zenon DEF Past
<1>6. CASE TakeDeviceTotal
  <2>1. UNCHANGED <<now, saved, lastTime>> /\ clean' = None /\ accepted' = now
    BY <1>6 DEF TakeDeviceTotal, Take
  <2> QED BY <1>0, <2>1, Zenon DEF Past
<1>7. ASSUME NEW correction, Correct(correction) PROVE Bygone'
  BY <1>7, Zenon DEF Correct, checked, processor, history, Past
<1>8. CASE KeepShownTotal BY <1>7, <1>8 DEF KeepShownTotal
<1>9. CASE SetTotal BY <1>7, <1>9 DEF SetTotal
<1>10. CASE RemoveCorrections BY <1>7, <1>10 DEF RemoveCorrections
<1>11. /\ Persisted.accepted = accepted /\ Persisted.lastTime = lastTime
       /\ Saving => saved' = Persisted
  BY DEF Persisted, Saving
<1>12. CASE Save BY <1>11, <1>12, Zenon DEF Save, checked, processor, Past
<1>13. ASSUME NEW torn, Restarting(torn) PROVE now' = now /\ clean' = None
  BY <1>13 DEF Restarting
<1>14. CASE Reload
  <2>1. Saving /\ Load(Persisted) /\ now' = now /\ clean' = None BY <1>13, <1>14 DEF Reload
  <2> QED BY <1>11, <2>1, LoadKeepsPast DEF Past
<1>15. CASE Restart
  <2>1. now' = now /\ clean' = None BY <1>13, <1>15 DEF Restart
  <2>2. CASE Saving /\ Load(Persisted) BY <1>11, <2>1, <2>2, LoadKeepsPast DEF Past
  <2>3. CASE UNCHANGED saved /\ Load(saved) BY <2>1, <2>3, LoadKeepsPast DEF Past
  <2> QED BY <1>15, <2>2, <2>3 DEF Restart
<1>16. CASE StartAfresh
  <2>1. Saving /\ Load(Nothing) /\ now' = now /\ clean' = None BY <1>13, <1>16 DEF StartAfresh
  <2>2. Nothing.accepted = None /\ Nothing.lastTime = None BY DEF Nothing
  <2> QED BY <1>11, <2>1, <2>2, LoadKeepsPast DEF Past
<1> QED BY <1>1, <1>2, <1>3, <1>4, <1>5, <1>6, <1>8, <1>9, <1>10, <1>12, <1>14, <1>15, <1>16
        DEF Next

\* What an honest read is found to be, from where the counter stood before it.
LEMMA HonestVerdict ==
    ASSUME EnergyInv, Bygone, Followed, poll = None, lastTime # now, clean # None,
           Corrected(counter) > 0, NEW verdict,
           verdict = Verdict(Corrected(counter), counted)
    PROVE  \/ IsShown(base, raw, lastTime) /\ verdict = "accepted"
           \/ IsWaiting(base, raw, lastTime) /\ verdict = "confirmed"
           \/ IsHeld(base, raw) /\ verdict \in {"accepted", "witnessed", "held"}
<1> DEFINE R == counter + offset
<1>0. TypeOK /\ Timed /\ now \in Nat /\ counter \in Nat /\ offset \in Int /\ clean \in Moment
      /\ counter # None
  BY CountsAreNatural DEF EnergyInv, TypeOK
<1>1. R > 0 /\ R \in Int /\ Corrected(counter) = R /\ R # None
  BY <1>0, CountsAreNatural, SMT DEF Corrected
<1>2. /\ lastTime # None /\ counter - raw \in 0 .. Power * (now - lastTime)
      /\ Follows(base, raw, lastTime)
  BY DEF Followed
<1>3. lastTime \in Nat /\ lastTime <= now /\ raw \in Nat
  BY <1>0, <1>2 DEF TypeOK, Moment, Bygone, Past, Follows
<1>4. CASE IsShown(base, raw, lastTime)
  <2>1. accepted \in Nat /\ accepted <= lastTime BY <1>0, <1>4 DEF IsShown, TypeOK, Moment
  <2>2. Since = accepted /\ Anchor = accepted BY <1>4 DEF IsShown, Since, Anchor
  <2>3. base = raw + offset BY <1>4 DEF IsShown
  <2>4. counter - raw \in 0 .. Believable(Since)
    BY <1>0, <1>2, <1>3, <2>1, <2>2, BelievableGrows
  <2>5. base \in Int /\ base # None /\ Believable(Since) \in Nat
    BY <1>0, <1>3, <2>1, <2>2, <2>3, BelievableIsNatural, CountsAreNatural, SMT
  <2>6. R - base = counter - raw BY <1>0, <1>3, <2>3, <2>5, SMT
  <2>7. ~UnconfirmedZero BY <1>4 DEF IsShown, UnconfirmedZero
  <2>8. verdict = "accepted"
    BY <1>1, <1>4, <2>2, <2>4, <2>5, <2>6, <2>7 DEF Verdict, IsShown
  <2> QED BY <1>4, <2>8
<1>5. CASE IsWaiting(base, raw, lastTime)
  <2>1. /\ first.value \in Int /\ first # None /\ first.value = raw + offset
        /\ first.at = lastTime /\ base = 0 /\ UnconfirmedZero
    BY <1>0, <1>5 DEF IsWaiting, TypeOK, UnconfirmedZero
  <2>2. counter - raw \in 0 .. Believable(lastTime) BY <1>0, <1>2, <1>3, BelievableGrows
  <2>3. R - first.value = counter - raw BY <1>0, <1>3, <2>1, SMT
  <2>4. ConfirmsFirst(R) BY <2>1, <2>2, <2>3 DEF ConfirmsFirst
  <2>5. base # None BY <2>1, CountsAreNatural
  <2>6. verdict = "confirmed" BY <1>1, <2>1, <2>4, <2>5, SMT DEF Verdict
  <2> QED BY <1>5, <2>6
<1>6. CASE IsHeld(base, raw)
  <2>1. Since # None /\ ~UnconfirmedZero
    BY <1>6 DEF IsHeld, Anchor, Since, UnconfirmedZero
  <2>2. base # None
    <3>1. held # None /\ held.published = base BY <1>6 DEF IsHeld
    <3> QED BY <1>0, <3>1, CountsAreNatural DEF TypeOK
  <2>3. verdict \in {"accepted", "witnessed", "held"}
    BY <1>1, <2>1, <2>2, SMT DEF Verdict
  <2> QED BY <1>6, <2>3
<1> QED BY <1>2, <1>4, <1>5, <1>6 DEF Follows

\* An honest poll leaves the counter shown, waiting or held, whatever was read before.
LEMMA HonestPollFollows ==
    ASSUME EnergyInv, Bygone, Followed, poll = None, lastTime # now,
           Corrected(counter) > 0, Work(counter, counted),
           clean' = (IF clean = None THEN now ELSE clean),
           UNCHANGED <<now, offset, counter>>
    PROVE  poll'.raw = counter /\ Follows(poll.total, counter, now)'
<1> DEFINE R == counter + offset
           verdict == Verdict(R, counted)
<1>0. TypeOK /\ Timed /\ now \in Nat /\ counter \in Nat /\ offset \in Int /\ clean \in Moment
      /\ counter # None /\ now # None
  BY CountsAreNatural DEF EnergyInv, TypeOK
<1>1. counter > 0 /\ R > 0 /\ R \in Int /\ Corrected(counter) = R /\ R # None
  BY <1>0, CountsAreNatural, SMT DEF Corrected
<1>2. /\ poll'.total = Published(R, verdict) /\ poll'.raw = counter
      /\ Validate(R, counted, verdict)
  BY <1>1 DEF Work
<1>3. /\ clean' <= now' /\ clean' # None
      /\ counter' \in Nat \ {0} /\ counter' + offset' = R /\ counter' + offset' > 0
  BY <1>0, <1>1, CountsAreNatural, SMT DEF Bygone, Past
<1>4. Follows(poll.total, counter, now)' <=>
          \/ IsShown(poll.total, counter, now)'
          \/ IsWaiting(poll.total, counter, now)'
          \/ IsHeld(poll.total, counter)'
  BY <1>3 DEF Follows
<1>5. ASSUME verdict \in {"first", "confirmed", "accepted", "witnessed"}
      PROVE  IsShown(poll.total, counter, now)'
  <2>1. accepted' = now /\ held' = None BY <1>1, <1>2, <1>5, SMT DEF Validate
  <2>2. poll'.total = R BY <1>2, <1>5 DEF Published
  <2> QED BY <1>0, <1>3, <2>1, <2>2, SMT DEF IsShown
<1>6. verdict # "tooSoon" /\ verdict # "filled" BY <1>1, SMT DEF Verdict
<1>7. verdict # "anchored"
  <2>1. verdict = "anchored" => base # None /\ Since = None BY SMT DEF Verdict
  <2>2. base # None => lastTime # None BY <1>0 DEF Timed
  <2>3. lastTime # None => Since # None BY DEF Since, Anchor
  <2> QED BY <2>1, <2>2, <2>3
<1>8. verdict \in {"first", "confirmed", "accepted", "witnessed", "waiting", "held"}
  BY <1>6, <1>7, SMT DEF Verdict
<1>9. CASE clean = None
  <2>1. clean' = now BY <1>9
  <2>2. ASSUME verdict = "waiting" PROVE IsWaiting(poll.total, counter, now)'
    <3>1. UnconfirmedZero BY <2>2, SMT DEF Verdict
    <3>2. accepted' = Anchor /\ held' = None /\ first' = [value |-> R, at |-> now]
      BY <1>1, <1>2, <2>2, SMT DEF Validate
    <3>3. Anchor = None BY <3>1 DEF Anchor, UnconfirmedZero
    <3>4. poll'.total = 0 BY <1>2, <2>2, <3>1 DEF Published, UnconfirmedZero
    <3>5. first' # None BY <1>0, <1>1, <3>2, NoneIsNoRecord
    <3> QED BY <1>0, <1>3, <2>1, <3>2, <3>3, <3>4, <3>5 DEF IsWaiting
  <2>3. ASSUME verdict = "held" PROVE IsHeld(poll.total, counter)'
    <3>1. base # None /\ ~UnconfirmedZero BY <2>3, SMT DEF Verdict
    <3>2. accepted' = Anchor /\ held' = [published |-> base, device |-> R, since |-> Anchor]
      BY <1>1, <1>2, <2>3, SMT DEF Validate
    <3>3. lastTime # None BY <1>0, <3>1 DEF Timed
    <3>4. Anchor # None BY <3>1, <3>3 DEF Anchor
    <3>5. Anchor <= now BY <1>0, <3>4, AnchorIsPast DEF Past
    <3>6. poll'.total = base BY <1>2, <2>3 DEF Published
    <3>7. held' # None
      <4>1. base \in Int /\ Anchor \in Moment BY <1>0, <3>1, AnchorIsMoment DEF TypeOK, Value
      <4> QED BY <1>1, <3>2, <4>1, NoneIsNoRecord DEF Moment
    <3> QED BY <1>0, <1>3, <2>1, <3>2, <3>4, <3>5, <3>6, <3>7 DEF IsHeld
  <2> QED BY <1>2, <1>4, <1>5, <1>8, <2>2, <2>3
<1>10. CASE clean # None
  <2>1. clean' = clean BY <1>10
  <2>2. \/ verdict \in {"accepted", "confirmed", "witnessed"}
        \/ IsHeld(base, raw) /\ verdict = "held"
    BY <1>1, <1>10, HonestVerdict
  <2>3. ASSUME IsHeld(base, raw), verdict = "held" PROVE IsHeld(poll.total, counter)'
    <3>1. Anchor = accepted /\ Anchor # None BY <2>3 DEF IsHeld, Anchor
    <3>2. accepted' = Anchor /\ held' = [published |-> base, device |-> R, since |-> Anchor]
      BY <1>1, <1>2, <2>3, SMT DEF Validate
    <3>3. poll'.total = base BY <1>2, <2>3 DEF Published
    <3>4. held' # None
      <4>1. base \in Int /\ Anchor \in Moment
        BY <1>0, <2>3, HeldHasABaseline, AnchorIsMoment DEF TypeOK, Value
      <4> QED BY <1>1, <3>2, <4>1, NoneIsNoRecord DEF Moment
    <3> QED BY <1>0, <1>3, <2>1, <2>3, <3>1, <3>2, <3>3, <3>4 DEF IsHeld
  <2> QED BY <1>2, <1>4, <1>5, <2>2, <2>3
<1> QED BY <1>9, <1>10

LEMMA WorkIsAFrame ==
    ASSUME TypeOK, NEW v \in Reading, NEW d \in Reading, Work(v, d)
    PROVE  poll' # None
<1>1. poll' \in [total : Value, today : Value, raw : Value, house : Value] BY WorkTypes
<1> QED BY <1>1, NoneIsNoRecord DEF Value

LEMMA InitFollows == ASSUME Init PROVE Followed
BY DEF Init, Followed

LEMMA NextFollows == ASSUME EnergyInv, Bygone, Followed, [Next]_vars PROVE Followed'
<1>0. TypeOK /\ now \in Nat /\ counter \in Nat /\ Power \in Nat
  BY CountsAreNatural DEF EnergyInv, TypeOK
<1>1. ASSUME UNCHANGED <<now, counter, base, raw, lastTime, accepted, first, held, offset,
                         poll, clean>>
      PROVE  Followed'
  BY <1>1 DEF Followed, Follows, IsShown, IsWaiting, IsHeld
<1>2. ASSUME clean' = None PROVE Followed' BY <1>2 DEF Followed
<1>3. CASE UNCHANGED vars BY <1>1, <1>3, Zenon DEF vars, device, checked, processor, history
<1>4. CASE Tick
  <2>1. PICK e \in 0 .. Power : counter' = counter + e BY <1>4 DEF Tick
  <2>2. now' = now + 1 /\ poll = None
        /\ UNCHANGED <<base, raw, lastTime, accepted, first, held, offset, poll, clean>>
    BY <1>4, Zenon DEF Tick, checked, processor, history
  <2>3. ASSUME clean # None
        PROVE  /\ lastTime # None
               /\ counter' - raw \in 0 .. Power * (now' - lastTime)
               /\ Follows(base, raw, lastTime)
    <3>1. /\ lastTime # None /\ counter - raw \in 0 .. Power * (now - lastTime)
          /\ Follows(base, raw, lastTime)
      BY <2>2, <2>3 DEF Followed
    <3>2. raw \in Nat /\ lastTime \in Nat BY <1>0, <3>1 DEF Follows, TypeOK, Moment
    <3>3. Power * (now' - lastTime) = Power * (now - lastTime) + Power
      BY <1>0, <2>2, <3>2, SMT
    <3>4. Power * (now - lastTime) \in Int BY <1>0, <3>2, SMT
    <3> DEFINE budget == Power * (now - lastTime)
               grown == Power * (now' - lastTime)
    <3>5. counter - raw \in 0 .. budget /\ budget \in Int /\ grown = budget + Power
      BY <3>1, <3>3, <3>4
    <3> HIDE DEF budget, grown
    <3>6. counter' - raw \in 0 .. grown BY <1>0, <2>1, <3>2, <3>5, SMT
    <3> USE DEF grown
    <3> QED BY <3>1, <3>6
  <2> QED BY <2>2, <2>3 DEF Followed, Follows, IsShown, IsWaiting, IsHeld
<1>5. CASE DeviceReset BY <1>2, <1>5 DEF DeviceReset
<1>6. CASE PollWorks
  <2>0. UNCHANGED <<now, counter, offset>> /\ poll = None
        /\ UNCHANGED <<base, raw, lastTime>>
    BY <1>6 DEF PollWorks, device, checked
  <2>1. ASSUME lastTime # now, Work(counter, counted), clean' # None,
               clean' = CASE Corrected(counter) <= 0 -> None
                          [] Corrected(counter) > 0 /\ clean = None -> now
                          [] OTHER -> clean
        PROVE  Followed'
    <3>1. Corrected(counter) \in Int
      BY <1>0, SMT DEF Corrected, TypeOK
    <3>2. Corrected(counter) > 0 BY <2>1, <3>1, SMT
    <3>3. clean' = IF clean = None THEN now ELSE clean BY <2>1, <3>1, <3>2, SMT
    <3>4. poll'.raw = counter' /\ Follows(poll.total, counter, now)'
      BY <2>0, <2>1, <3>2, <3>3, HonestPollFollows
    <3>5. poll' # None BY <2>1, <1>0, WorkIsAFrame DEF TypeOK, Reading
    <3> QED BY <3>4, <3>5 DEF Followed
  <2>2. ASSUME lastTime = now, Work(counter, counted), UNCHANGED clean, clean # None
        PROVE  Followed'
    <3>1. /\ lastTime # None /\ counter - raw \in 0 .. Power * (now - lastTime)
          /\ Follows(base, raw, lastTime)
      BY <2>0, <2>2 DEF Followed
    <3>2. raw \in Nat BY <3>1 DEF Follows
    <3>3. raw = counter
      <4>1. Power * (now - lastTime) = 0 BY <1>0, <2>2, SMT
      <4> QED BY <1>0, <3>1, <3>2, <4>1, SMT
    <3>4. Verdict(Corrected(counter), counted) = "tooSoon" BY <2>2 DEF Verdict
    <3>5. UNCHANGED <<accepted, first, held>>
      BY <2>2, <3>4, SMT DEF Work, Validate
    <3>6. poll'.total = base /\ poll'.raw = counter
      BY <2>2, <3>4 DEF Work, Published
    <3>7. poll' # None BY <2>2, <1>0, WorkIsAFrame DEF TypeOK, Reading
    <3> QED BY <2>0, <2>2, <3>1, <3>3, <3>5, <3>6, <3>7
            DEF Followed, Follows, IsShown, IsWaiting, IsHeld
  <2>3. clean' = None \/ clean' # None OBVIOUS
  <2> QED BY <1>2, <1>6, <2>1, <2>2 DEF PollWorks
<1>7. CASE PollKeeps
  <2>0. /\ poll # None /\ poll' = None /\ lastTime' = now /\ raw' = poll.raw
        /\ UNCHANGED <<now, counter, offset, clean, first>>
    BY <1>7 DEF PollKeeps, device
  <2>1. ASSUME clean # None
        PROVE  /\ lastTime' # None /\ counter' - raw' \in 0 .. Power * (now' - lastTime')
               /\ Follows(base, raw, lastTime)'
    <3>1. poll.raw = counter /\ Follows(poll.total, counter, now) BY <2>0, <2>1 DEF Followed
    <3>2. lastTime' # None BY <1>0, <2>0, CountsAreNatural
    <3>3. counter' - raw' \in 0 .. Power * (now' - lastTime')
      <4>1. Power * (now' - lastTime') = 0 /\ counter' - raw' = 0 BY <1>0, <2>0, <3>1, SMT
      <4> QED BY <4>1, SMT
    <3>4. CASE TakesLongHeld
      <4>1. accepted' = now /\ held' = None /\ base' = held.device
        BY <1>7, <3>4 DEF PollKeeps, Take
      <4>2. IsHeld(poll.total, counter)
        BY <3>1, <3>4 DEF Follows, IsShown, IsWaiting, TakesLongHeld, HeldOverADay
      <4>3. base' = counter + offset BY <4>1, <4>2 DEF IsHeld
      <4>4. IsShown(base, raw, lastTime)'
        BY <1>0, <2>0, <3>1, <4>1, <4>3, CountsAreNatural, SMT DEF IsShown
      <4> QED BY <2>0, <3>1, <3>2, <3>3, <4>4 DEF Follows
    <3>5. CASE ~TakesLongHeld
      <4>1. base' = poll.total /\ UNCHANGED <<accepted, held>> BY <1>7, <3>5 DEF PollKeeps
      <4> QED BY <2>0, <3>1, <3>2, <3>3, <4>1 DEF Follows, IsShown, IsWaiting, IsHeld
    <3> QED BY <3>4, <3>5
  <2> QED BY <2>0, <2>1 DEF Followed
<1>8. CASE TakeDeviceTotal BY <1>2, <1>8 DEF TakeDeviceTotal
<1>9. ASSUME NEW correction, Correct(correction) PROVE Followed'
  BY <1>1, <1>9, Zenon DEF Correct, device, checked, processor, history
<1>10. CASE KeepShownTotal BY <1>9, <1>10 DEF KeepShownTotal
<1>11. CASE SetTotal BY <1>9, <1>11 DEF SetTotal
<1>12. CASE RemoveCorrections BY <1>9, <1>12 DEF RemoveCorrections
<1>13. CASE Save BY <1>1, <1>13, Zenon DEF Save, device, checked, processor
<1>14. CASE Reload \/ Restart \/ StartAfresh
  BY <1>2, <1>14 DEF Reload, Restart, StartAfresh, Restarting
<1> QED BY <1>3, <1>4, <1>5, <1>6, <1>7, <1>8, <1>10, <1>11, <1>12, <1>13, <1>14 DEF Next

LEMMA SinceIsMoment == ASSUME TypeOK PROVE Since \in Moment
BY AnchorIsMoment DEF Since, TypeOK

\* What a frame leaves accepted: a read, or the baseline while that is above 0.
LEMMA WorkAccepts ==
    ASSUME TypeOK, Timed, AboveZero, poll = None, NEW v \in Reading, NEW d \in Reading,
           Work(v, d)
    PROVE  /\ held' # None => accepted' # None
           /\ ~mixed => /\ poll'.total = None => accepted' = None
                        /\ offset >= 0 /\ poll'.total # None =>
                               poll'.total >= 0 /\ (accepted' # None => poll'.total > 0)
<1> DEFINE c == Corrected(v)
           verdict == Verdict(c, d)
<1>1. /\ Validate(c, d, verdict) /\ poll'.total = Published(c, verdict)
      /\ c \in Value /\ base \in Value /\ None \notin Int
  BY CorrectedIsValue, CountsAreNatural DEF Work, TypeOK
<1>2. offset >= 0 /\ c # None => c >= 0 BY SMT DEF Corrected, Reading, TypeOK
<1>3. Total = base BY DEF Total
<1>4. verdict \in {"tooSoon", "filled", "first", "confirmed", "waiting", "anchored",
                   "accepted", "witnessed", "held"}
  BY SMT DEF Verdict
<1>5. base # None => Since # None /\ (~UnconfirmedZero => Anchor # None)
  BY DEF Timed, Since, Anchor
<1>6. base = None \/ UnconfirmedZero => Anchor = accepted BY DEF Anchor
<1>7. accepted # None => Anchor = accepted BY DEF Anchor
<1>8. CASE verdict = "tooSoon"
  <2>1. UNCHANGED <<accepted, held>> BY <1>1, <1>8, SMT DEF Validate
  <2>2. poll'.total = base BY <1>1, <1>8 DEF Published
  <2> QED BY <1>3, <2>1, <2>2 DEF AboveZero
<1>9. CASE verdict = "filled"
  <2>1. accepted' = Anchor /\ held' = held BY <1>1, <1>9, SMT DEF Validate
  <2>2. poll'.total = base BY <1>1, <1>9 DEF Published
  <2>3. base # None /\ base # 0 /\ base >= 0 => base > 0 BY <1>1, SMT DEF Value
  <2>4. accepted = None /\ Anchor # None => base # None /\ base # 0
    BY DEF Anchor, UnconfirmedZero
  <2> QED BY <1>3, <1>6, <1>7, <2>1, <2>2, <2>3, <2>4 DEF AboveZero
<1>10. CASE verdict \in {"first", "confirmed", "accepted", "witnessed"}
  <2>1. held' = None BY <1>1, <1>10, SMT DEF Validate
  <2>2. poll'.total = c /\ c # None /\ c \in Int
    BY <1>1, <1>10, VerdictNeedsARead DEF Published, Value
  <2>3. CASE verdict = "first"
    <3>1. base = None BY <2>3, SMT DEF Verdict
    <3>2. accepted' = IF c # 0 THEN now ELSE Anchor BY <1>1, <2>3, SMT DEF Validate
    <3>3. ~mixed => (accepted' # None => c # 0) BY <1>3, <1>6, <3>1, <3>2 DEF AboveZero
    <3> QED BY <1>2, <2>1, <2>2, <3>3, SMT
  <2>4. CASE verdict \in {"confirmed", "witnessed"}
    <3>1. c > 0 BY <2>4, SMT DEF Verdict
    <3> QED BY <2>1, <2>2, <3>1, SMT
  <2>5. CASE verdict = "accepted"
    <3>1. base # None /\ ~UnconfirmedZero /\ c - base \in 0 .. Believable(Since)
      BY <2>5, SMT DEF Verdict
    <3>2. base \in Int /\ Since \in Nat BY <1>1, <1>5, <3>1, SinceIsMoment DEF Value, Moment
    <3>3. c - base >= 0 BY <2>2, <3>1, <3>2, BelievableIsNatural, SMT
    <3>4. ~mixed /\ offset >= 0 => base > 0
      <4>1. base # 0 \/ accepted # None BY <3>1 DEF UnconfirmedZero
      <4> QED BY <1>3, <3>1, <3>2, <4>1, SMT DEF AboveZero
    <3> QED BY <2>1, <2>2, <3>2, <3>3, <3>4, SMT
  <2> QED BY <1>10, <2>3, <2>4, <2>5
<1>11. CASE verdict = "waiting"
  <2>1. UnconfirmedZero BY <1>11, SMT DEF Verdict
  <2>2. accepted' = Anchor /\ held' = None BY <1>1, <1>11, SMT DEF Validate
  <2>3. poll'.total = 0 /\ accepted' = None
    BY <1>1, <1>6, <1>11, <2>1, <2>2 DEF Published, UnconfirmedZero
  <2> QED BY <2>2, <2>3, CountsAreNatural, SMT
<1>12. CASE verdict = "anchored"
  <2>1. base # None /\ Since = None BY <1>12, SMT DEF Verdict
  <2> QED BY <1>5, <2>1
<1>13. CASE verdict = "held"
  <2>1. base # None /\ ~UnconfirmedZero BY <1>13, SMT DEF Verdict
  <2>2. accepted' = Anchor /\ Anchor # None BY <1>1, <1>5, <1>13, <2>1, SMT DEF Validate
  <2>3. poll'.total = base BY <1>1, <1>13 DEF Published
  <2>4. ~mixed /\ offset >= 0 => base > 0
    <3>1. base # 0 \/ accepted # None BY <2>1 DEF UnconfirmedZero
    <3> QED BY <1>1, <1>3, <2>1, <3>1, SMT DEF AboveZero, Value
  <2>5. ~mixed /\ offset >= 0 => base >= 0 BY <1>3, <2>1 DEF AboveZero
  <2> QED BY <2>1, <2>2, <2>3, <2>4, <2>5
<1> QED BY <1>4, <1>8, <1>9, <1>10, <1>11, <1>12, <1>13

\* A restart leaves an acceptance only with a total above 0, or is marked.
LEMMA RestartAccepts ==
    ASSUME TypeOK, NEW stored \in Kept, Load(stored), NEW torn, Restarting(torn), ~mixed',
           stored.base = None => stored.accepted = None,
           stored.offset >= 0 /\ stored.base # None => stored.base >= 0
    PROVE  /\ held' = None
           /\ Total' = None => accepted' = None
           /\ offset' >= 0 /\ Total' # None => Total' >= 0 /\ (accepted' # None => Total' > 0)
<1>1. held' = None /\ Total' = base' /\ offset' = wanted BY DEF Load, Total
<1>2. base' \in Value BY LoadTypes
<1>3. accepted' # None /\ base' # None => ~ (base' <= 0) BY Zenon DEF Restarting
<1>4. accepted' # None /\ base' # None => base' > 0
  BY <1>2, <1>3, SMT DEF Value
<1>5. stored.offset \in Int /\ stored.base \in Value BY DEF Kept
<1>6. CASE stored.base # None /\ wanted # stored.offset
  <2>1. accepted' = now BY <1>6 DEF Load
  <2>2. base' \in Int /\ base' # None /\ accepted' # None
    <3>1. base' = IF IsReading(stored.raw) THEN stored.raw + wanted
                  ELSE stored.base + wanted - stored.offset
      BY <1>6 DEF Load
    <3>2. IsReading(stored.raw) => stored.raw \in Int BY DEF IsReading, Kept, Value
    <3>3. base' \in Int BY <1>5, <1>6, <3>1, <3>2, SMT DEF TypeOK, Value
    <3> QED BY <2>1, <3>3, CountsAreNatural DEF TypeOK
  <2> QED BY <1>1, <1>4, <2>2, SMT
<1>7. CASE ~ (stored.base # None /\ wanted # stored.offset)
  <2>1. base' = stored.base /\ accepted' = stored.accepted BY <1>7 DEF Load
  <2> QED BY <1>1, <1>4, <1>7, <2>1
<1> QED BY <1>6, <1>7

LEMMA InitIsAboveZero == ASSUME Init PROVE AboveZero
<1>1. CASE saved = Nothing
  BY <1>1 DEF Init, AboveZero, Total, Nothing
<1>2. CASE saved # Nothing /\ saved.base = 0
  BY <1>2 DEF Init, AboveZero, Total
<1>3. CASE saved = [Nothing EXCEPT !.base = Start, !.raw = Start, !.lastTime = 0, !.snap = Start, !.day = 0]
  <2>1. saved.base = Start /\ saved.accepted = None BY <1>3 DEF Nothing
  <2>2. Start >= 0 /\ Start # None BY CountsAreNatural, SMT
  <2> QED BY <2>1, <2>2 DEF Init, AboveZero, Total
<1> QED
  <2>1. [Nothing EXCEPT !.base = 0, !.raw = 0, !.lastTime = 0, !.accepted = 0,
                        !.snap = 0, !.day = 0].base = 0
    BY DEF Nothing
  <2> QED BY <1>1, <1>2, <1>3, <2>1 DEF Init, Inherited

LEMMA NextIsAboveZero ==
    ASSUME EnergyInv, AboveZero, [Next]_vars PROVE AboveZero'
<1>0. TypeOK /\ Timed /\ held \in [published : Int, device : Int, since : Moment] \cup {None}
  BY DEF EnergyInv, TypeOK
<1>1. ASSUME UNCHANGED <<base, poll, accepted, held, offset, saved, mixed>> PROVE AboveZero'
  BY <1>1 DEF AboveZero, Total
<1>2. CASE UNCHANGED vars BY <1>1, <1>2, Zenon DEF vars, checked, processor, history
<1>3. CASE Tick BY <1>1, <1>3, Zenon DEF Tick, checked, processor, history
<1>4. CASE DeviceReset BY <1>1, <1>4, Zenon DEF DeviceReset, checked, processor
<1>5. CASE PollWorks
  <2>1. PICK v \in Reading, d \in Reading : Work(v, d) BY <1>0, <1>5, PollReads
  <2>2. poll = None /\ UNCHANGED <<offset, saved, mixed>> BY <1>5, Zenon DEF PollWorks
  <2>3. poll' # None BY <1>0, <2>1, WorkIsAFrame
  <2>4. Total' = poll'.total BY <2>3 DEF Total
  <2>5. /\ held' # None => accepted' # None
        /\ ~mixed => /\ poll'.total = None => accepted' = None
                     /\ offset >= 0 /\ poll'.total # None =>
                            poll'.total >= 0 /\ (accepted' # None => poll'.total > 0)
    BY <1>0, <2>1, <2>2, WorkAccepts
  <2> QED BY <2>2, <2>4, <2>5 DEF AboveZero
<1>6. CASE PollKeeps
  <2>1. poll # None /\ poll' = None /\ UNCHANGED <<offset, saved, mixed>>
    BY <1>6 DEF PollKeeps
  <2>2. CASE TakesLongHeld
    <3>1. held' = None /\ base' = held.device BY <1>6, <2>2 DEF PollKeeps, Take
    <3>2. base' > 0 /\ base' \in Int BY <1>0, <2>2, <3>1 DEF TakesLongHeld, HeldOverADay
    <3> QED BY <2>1, <3>1, <3>2, CountsAreNatural, SMT DEF AboveZero, Total
  <2>3. CASE ~TakesLongHeld
    <3>1. base' = poll.total /\ UNCHANGED <<accepted, held>> BY <1>6, <2>3 DEF PollKeeps
    <3> QED BY <2>1, <3>1 DEF AboveZero, Total
  <2> QED BY <2>2, <2>3
<1>7. CASE TakeDeviceTotal
  <2>1. /\ held # None /\ held.device > 0 /\ held.device \in Int
        /\ base' = held.device /\ held' = None
        /\ UNCHANGED <<poll, offset, saved, mixed>>
    BY <1>0, <1>7 DEF TakeDeviceTotal, Take, HeldOverADay
  <2>2. accepted # None BY <2>1 DEF AboveZero
  <2>3. CASE poll = None BY <2>1, <2>3, CountsAreNatural, SMT DEF AboveZero, Total
  <2>4. CASE poll # None
    <3>1. Total' = Total BY <2>1, <2>4 DEF Total
    <3> QED BY <2>1, <2>2, <3>1 DEF AboveZero
  <2> QED BY <2>3, <2>4
<1>8. ASSUME NEW correction, Correct(correction) PROVE AboveZero'
  BY <1>1, <1>8, Zenon DEF Correct, checked, processor, history
<1>9. CASE KeepShownTotal BY <1>8, <1>9 DEF KeepShownTotal
<1>10. CASE SetTotal BY <1>8, <1>10 DEF SetTotal
<1>11. CASE RemoveCorrections BY <1>8, <1>11 DEF RemoveCorrections
<1>12. /\ Persisted.base = base /\ Persisted.accepted = accepted /\ Persisted.offset = offset
       /\ Persisted \in Kept
       /\ Saving => saved' = Persisted
       /\ poll = None => Total = base
  BY <1>0, PersistedIsKept DEF Persisted, Saving, Total
<1>13. CASE Save
  <2>1. /\ UNCHANGED <<base, poll, accepted, held, offset>> /\ saved' = Persisted
    BY <1>12, <1>13, Zenon DEF Save, checked, processor
  <2>2. ~mixed' => ~mixed /\ poll = None BY <1>13, Zenon DEF Save, Torn
  <2> QED BY <1>12, <2>1, <2>2 DEF AboveZero, Total
<1>14. ASSUME NEW stored \in Kept, Load(stored), NEW torn, Restarting(torn),
              ~mixed' => /\ stored.base = None => stored.accepted = None
                         /\ stored.offset >= 0 /\ stored.base # None => stored.base >= 0
                         /\ saved'.base = None => saved'.accepted = None
                         /\ saved'.offset >= 0 /\ saved'.base # None => saved'.base >= 0
       PROVE  AboveZero'
  <2>1. held' = None BY <1>14 DEF Load
  <2>2. ASSUME ~mixed'
        PROVE  /\ Total' = None => accepted' = None
               /\ offset' >= 0 /\ Total' # None =>
                      Total' >= 0 /\ (accepted' # None => Total' > 0)
    BY <1>0, <1>14, <2>2, RestartAccepts
  <2> QED BY <1>14, <2>1, <2>2 DEF AboveZero
<1>15. ASSUME Saving, Load(Persisted), Restarting(Torn) PROVE AboveZero'
  <2>1. ~mixed' => ~mixed /\ poll = None BY <1>15, Zenon DEF Restarting, Torn
  <2> QED BY <1>12, <1>14, <1>15, <2>1 DEF AboveZero
<1>16. CASE Reload BY <1>15, <1>16 DEF Reload
<1>17. CASE Restart
  <2>1. CASE UNCHANGED saved /\ Load(saved) /\ Restarting(FALSE)
    <3>1. ~mixed' => ~mixed BY <2>1, Zenon DEF Restarting
    <3>2. saved \in Kept BY <1>0 DEF TypeOK
    <3> QED BY <1>14, <2>1, <3>1, <3>2 DEF AboveZero
  <2> QED BY <1>15, <1>17, <2>1 DEF Restart
<1>18. CASE StartAfresh
  <2>1. Saving /\ Load(Nothing) /\ Restarting(Torn) BY <1>18 DEF StartAfresh
  <2>2. ~mixed' => ~mixed /\ poll = None BY <2>1, Zenon DEF Restarting, Torn
  <2>3. Nothing.base = None /\ Nothing.accepted = None BY DEF Nothing
  <2> QED BY <1>12, <1>14, <2>1, <2>2, <2>3, NothingIsKept DEF AboveZero
<1> QED BY <1>2, <1>3, <1>4, <1>5, <1>6, <1>7, <1>9, <1>10, <1>11, <1>13, <1>16, <1>17, <1>18
        DEF Next

LEMMA HonestInvHolds == Spec => []HonestInv
<1>1. Init => HonestInv
  BY InitTypes, InitIsTimed, InitCountsOn, InitIsBygone, InitFollows, InitIsAboveZero
     DEF HonestInv, EnergyInv
<1>2. HonestInv /\ [Next]_vars => HonestInv'
  BY NextTypes, NextIsTimed, NextCountsOn, NextIsBygone, NextFollows, NextIsAboveZero
     DEF HonestInv, EnergyInv
<1> QED BY <1>1, <1>2, PTL DEF Spec

\* Whatever was read, saved, reset or restarted before, two honest polls of a counter
\* above 0 show it, or hold it with a countdown they do not restart, and a total held
\* is above 0 unless an acceptance was saved apart from its total or a correction is
\* negative (validate_totals, held_totals).
THEOREM HonestCountersAreShown == Spec => []HonestCounterIsShown
<1>1. ASSUME HonestInv, poll = None, lastTime = now, clean # None, clean < now,
             Corrected(counter) > 0
      PROVE  \/ base = Corrected(counter)
             \/ /\ held # None
                /\ held.device = Corrected(counter)
                /\ held.since # None /\ held.since <= clean
                /\ held.published > 0 \/ mixed \/ offset < 0
  <2>0. TypeOK /\ now \in Nat /\ counter \in Nat /\ Power \in Nat
    BY <1>1, CountsAreNatural DEF HonestInv, EnergyInv, TypeOK
  <2>1. counter - raw \in 0 .. Power * (now - lastTime) /\ Follows(base, raw, lastTime)
    BY <1>1 DEF HonestInv, Followed
  <2>2. raw = counter
    <3>1. Power * (now - lastTime) = 0 BY <1>1, <2>0, SMT
    <3> QED BY <2>0, <2>1, <3>1, SMT DEF Follows
  <2>3. Corrected(counter) = counter + offset
    BY <2>0, <2>1, <2>2, CountsAreNatural DEF Corrected, Follows
  <2>4. CASE IsShown(base, raw, lastTime) BY <2>2, <2>3, <2>4 DEF IsShown
  <2>5. CASE IsWaiting(base, raw, lastTime)
    BY <1>1, <2>0, <2>5, SMT DEF IsWaiting, TypeOK, Moment
  <2>6. CASE IsHeld(base, raw)
    <3>1. held.published = base /\ base \in Int
      BY <2>0, <2>6, CountsAreNatural DEF IsHeld, TypeOK
    <3>2. ~mixed /\ offset >= 0 => base > 0
      BY <1>1, <2>6, <3>1, CountsAreNatural DEF HonestInv, AboveZero, Total, IsHeld
    <3>3. held.published > 0 \/ mixed \/ offset < 0
      BY <2>0, <3>1, <3>2, SMT DEF TypeOK
    <3> QED BY <2>2, <2>3, <2>6, <3>3 DEF IsHeld
  <2> QED BY <2>1, <2>4, <2>5, <2>6 DEF Follows
<1>2. HonestInv => HonestCounterIsShown BY <1>1 DEF HonestCounterIsShown
<1> QED BY <1>2, HonestInvHolds, PTL

-----------------------------------------------------------------------------
(* The daily value.                                                        *)

\* What the entities show is of the frame being kept, or of the last one checked.
House == IF poll = None THEN house ELSE poll.house
Today == IF poll = None THEN today ELSE poll.today
LastRead == IF poll = None THEN lastTime ELSE now

\* Every read since the snapshot was made was honest.
Fresh == clean # None /\ made # None /\ clean <= made

\* No day is ahead of the clock, the device counts no more than its power allows
\* since midnight, and honest reads keep the date.
Dated ==
    /\ day # None => day <= Day(now)
    /\ saved.day # None => saved.day <= Day(now)
    /\ counted <= Power * (now - Day(now) * DayLength)
    /\ made # None => LastRead # None /\ made <= LastRead
    /\ clean # None => LastRead # None /\ day = Day(LastRead)

\* A total read honestly has a snapshot, unless a day's hold has just been taken.
SnapshotMade == clean # None /\ snap = None => poll = None /\ IsShown(base, raw, lastTime)

\* While the day lasts, h is no more than the device has counted of it.
Within(h) == h \in Nat /\ (Day(now) = day => h <= counted)

\* A fresh snapshot is the counter at midnight.
DailyFollows ==
    Fresh =>
        /\ held = None /\ accepted # None /\ snap # None /\ day = Day(made)
        /\ Day(now) = day => snap = counter - counted + offset
        /\ LastRead = now => Today = counted
        /\ Day(made) > Day(clean) => Within(House) /\ (LastRead = now => House = counted)

\* While a total is held, and just after it was taken, what was calculated from it
\* on a later day than the honest reads began has not outgrown the daily counter.
HeldDaily ==
    clean # None /\ ~Fresh /\ Day(LastRead) > Day(clean) =>
        /\ held # None => snap # None /\ Within(Total - snap)
        /\ held # None \/ snap = None => Within(House)

DailyInv == HonestInv /\ Dated /\ SnapshotMade /\ DailyFollows /\ HeldDaily

LEMMA DayBounds ==
    ASSUME NEW t \in Nat
    PROVE  Day(t) * DayLength <= t /\ t < Day(t) * DayLength + DayLength
<1>1. DayLength \in Nat /\ DayLength > 0 BY CountsAreNatural, SMT
<1> QED BY <1>1, SMT DEF Day

LEMMA DaysGoOn == ASSUME NEW s \in Nat, NEW t \in Nat, s <= t PROVE Day(s) <= Day(t)
<1>1. DayLength \in Nat /\ DayLength > 0 BY CountsAreNatural, SMT
<1>2. Day(s) \in Nat /\ Day(t) \in Nat BY DaysAreNatural
<1>3. Day(s) * DayLength < Day(t) * DayLength + DayLength BY <1>1, <1>2, DayBounds, SMT
<1>4. Day(s) * DayLength < (Day(t) + 1) * DayLength BY <1>1, <1>2, <1>3, SMT
<1>5. Day(s) >= Day(t) + 1 => Day(s) * DayLength >= (Day(t) + 1) * DayLength
  BY <1>1, <1>2, SMT
<1> QED BY <1>1, <1>2, <1>4, <1>5, SMT

\* A snapshot made of a total is what it was at midnight by the daily counter, or
\* the total itself; of a total no smaller than the daily counter, the former.
LEMMA SnapshotAtMidnight ==
    ASSUME TypeOK, Dated, NEW total \in Int, NEW kept, Rolls \/ kept = None
    PROVE  /\ total - Snapshot(total, counted, kept) \in {0, counted}
           /\ total >= counted => Snapshot(total, counted, kept) = total - counted
<1>0. now \in Nat /\ counted \in Nat /\ total # None /\ counted # None
      /\ Power \in Nat /\ Resolution \in Nat
  BY CountsAreNatural DEF TypeOK
<1>1. Snapshot(total, counted, kept) =
          IF ValidDaily(counted, total) THEN total - counted ELSE total
  BY <1>0 DEF Snapshot
<1>2. counted <= Believable(Day(now) * DayLength)
  <2> DEFINE midnight == Day(now) * DayLength
             most == Power * (now - midnight)
  <2>1. midnight \in Nat /\ midnight <= now BY <1>0, MidnightIsNatural, DayBounds
  <2>2. Greater(now - midnight, 0) = now - midnight BY <1>0, <2>1, SMT DEF Greater
  <2>3. most \in Int /\ counted <= most BY <1>0, <2>1, SMT DEF Dated
  <2>4. Believable(midnight) = most + Resolution BY <2>2 DEF Believable
  <2> HIDE DEF midnight, most
  <2>5. counted <= Believable(midnight) BY <1>0, <2>3, <2>4, SMT
  <2> QED BY <2>5 DEF midnight
<1>3. Believable(Day(now) * DayLength) \in Nat
  BY <1>0, MidnightIsNatural, BelievableIsNatural
<1>4. total >= counted => ValidDaily(counted, total)
  BY <1>0, <1>2, <1>3, SMT DEF ValidDaily, Lesser
<1> QED BY <1>0, <1>1, <1>4, SMT

\* Without a rollover a total keeps its snapshot.
LEMMA SnapshotStays ==
    ASSUME NEW total \in Int, NEW kept \in Int, NEW d, ~Rolls, kept <= total
    PROVE  Snapshot(total, d, kept) = kept
<1>1. total # None /\ kept # None BY CountsAreNatural
<1> QED BY <1>1, SMT DEF Snapshot, Lesser

\* What is calculated stays within what the device counted.
LEMMA ClampedStays ==
    ASSUME NEW value \in Nat, NEW last, NEW most \in Nat, value <= most,
           Rolls \/ (last \in Nat /\ last <= most)
    PROVE  Clamped(value, last) \in Nat /\ Clamped(value, last) <= most
           /\ (value = most => Clamped(value, last) = most)
<1>1. value # None BY CountsAreNatural
<1> QED BY <1>1, SMT DEF Clamped, Greater

\* What an honest poll works out of the day, whatever was made of the days before.
LEMMA HonestPollDaily ==
    ASSUME DailyInv, poll = None, Work(counter, counted), clean' # None,
           \/ /\ lastTime # now /\ Corrected(counter) > 0
              /\ clean' = IF clean = None THEN now ELSE clean
           \/ lastTime = now /\ clean' = clean,
           UNCHANGED <<now, offset, counter, counted>>,
           Follows(poll.total, counter, now)'
    PROVE  /\ snap' # None /\ day' = Day(now) /\ (made' # None => made' <= now)
           /\ Fresh' => /\ held' = None /\ accepted' # None /\ day' = Day(made')
                        /\ snap' = counter - counted + offset
                        /\ poll'.today = counted
                        /\ Day(made') > Day(clean') => poll'.house = counted
           /\ ~Fresh' /\ Day(now) > Day(clean') /\ held' # None =>
                  /\ poll'.total - snap' \in 0 .. counted
                  /\ poll'.house \in 0 .. counted
<1> DEFINE c == Corrected(counter)
           R == counter + offset
           verdict == Verdict(c, counted)
           total == Published(c, verdict)
           kept == IF verdict \in {"confirmed", "witnessed"} THEN None ELSE snap
           daily == Snapshot(total, counted, kept)
           value == total - daily
           remade == Rolls \/ kept = None
<1>0. /\ TypeOK /\ EnergyInv /\ Bygone /\ Followed /\ Dated /\ SnapshotMade
      /\ DailyFollows /\ HeldDaily /\ Timed
  BY DEF DailyInv, HonestInv, EnergyInv
<1>1. /\ now \in Nat /\ counter \in Nat \ {0} /\ counted \in Nat /\ offset \in Int
      /\ clean \in Moment /\ lastTime \in Moment /\ made \in Moment /\ day \in Moment
      /\ base \in Value /\ snap \in Value
      /\ None \notin Int
      /\ counter \in Reading /\ counted \in Reading
      /\ R \in Int /\ R > 0
  BY <1>0, CountsAreNatural DEF TypeOK, Follows, Reading
<1>2. c = R /\ c # None /\ c \in Value BY <1>1, SMT DEF Corrected, Value
<1>3. \/ IsShown(poll.total, counter, now)'
      \/ IsWaiting(poll.total, counter, now)'
      \/ IsHeld(poll.total, counter)'
  BY DEF Follows
<1>4. poll'.total = total /\ Validate(c, counted, verdict) BY DEF Work
<1>5. total \in Int
  <2>1. total \in Value BY <1>0, <1>2, PublishedIsValue
  <2>2. held' \in [published : Int, device : Int, since : Moment] \cup {None}
    BY <1>0, <1>1, WorkTypes
  <2>3. total # None
    <3>1. CASE IsShown(poll.total, counter, now)' BY <1>1, <1>4, <3>1 DEF IsShown
    <3>2. CASE IsWaiting(poll.total, counter, now)' BY <1>1, <1>4, <3>2 DEF IsWaiting
    <3>3. CASE IsHeld(poll.total, counter)' BY <1>1, <1>4, <2>2, <3>3 DEF IsHeld
    <3> QED BY <1>3, <3>1, <3>2, <3>3
  <2> QED BY <2>1, <2>3 DEF Value
<1>6. kept \in Value BY <1>1 DEF Value
<1>7. daily \in Int /\ total # None /\ value \in Int
  <2>1. total \in Value /\ total # None BY <1>1, <1>5 DEF Value
  <2>2. daily \in Int BY <1>1, <1>6, <2>1, SnapshotIsValue
  <2> QED BY <1>5, <2>1, <2>2, SMT
<1>8. snap' = daily /\ poll'.today = value /\ poll'.house = Clamped(value, house)
  BY <1>7 DEF Work
<1>9. snap' # None BY <1>1, <1>7, <1>8
<1>10. day' = Day(now) /\ Day(now) \in Nat
  <2>1. day' = IF day = None \/ Rolls THEN Day(now) ELSE day BY DEF Work
  <2>2. Day(now) \in Nat BY <1>1, DaysAreNatural
  <2>3. day # None /\ ~Rolls => day = Day(now)
    BY <1>0, <1>1, <2>2, SMT DEF Rolls, Dated, Moment
  <2> QED BY <2>1, <2>2, <2>3
<1>11. /\ remade => made' = IF total = R /\ total >= counted THEN now ELSE None
       /\ ~remade => made' = made
  BY <1>1, <1>2, <1>7, SMT DEF Work, IsReading
<1>12. made' # None => made' <= now
  <2>1. made # None => made <= now
    BY <1>0, <1>1, SMT DEF Dated, LastRead, Bygone, Past, Moment
  <2> QED BY <1>1, <1>11, <2>1, SMT
<1>13. lastTime = now => verdict = "tooSoon" BY DEF Verdict
<1>14. clean = None => lastTime # now /\ clean' = now OBVIOUS
<1>15. clean # None => clean' = clean OBVIOUS
<1>16. clean # None /\ ~Rolls => Day(lastTime) = Day(now) /\ day = Day(now)
  BY <1>0, <1>1, <1>10, SMT DEF Rolls, Dated, LastRead, Moment
<1>17. lastTime = now => ~Rolls
  <2>1. lastTime = now => clean # None BY <1>14
  <2> QED BY <1>0, <1>1, <1>10, <2>1, SMT DEF Rolls, Dated, LastRead
<1>18. ASSUME remade, Day(now) > Day(clean') PROVE Rolls \/ house \in 0 .. counted
  <2>1. SUFFICES ASSUME ~Rolls PROVE house \in 0 .. counted OBVIOUS
  <2>2. clean # None BY <1>10, <1>14, <1>18, SMT
  <2>3. Day(lastTime) = Day(now) /\ day = Day(now) /\ Day(lastTime) > Day(clean)
    BY <1>15, <1>16, <1>18, <2>1, <2>2
  <2>4. held # None \/ snap = None
    <3>1. kept = None BY <1>18, <2>1
    <3>2. CASE verdict = "confirmed"
      <4>1. lastTime # now BY <1>13, <3>2
      <4>2. IsWaiting(base, raw, lastTime) BY <1>0, <2>2, <3>2, <4>1, HonestVerdict
      <4> QED BY <1>10, <2>3, <4>2, SMT DEF IsWaiting
    <3>3. CASE verdict = "witnessed"
      <4>1. lastTime # now BY <1>13, <3>3
      <4>2. IsHeld(base, raw) BY <1>0, <2>2, <3>3, <4>1, HonestVerdict
      <4> QED BY <4>2 DEF IsHeld
    <3> QED BY <3>1, <3>2, <3>3
  <2>5. ~Fresh BY <1>0, <2>4 DEF DailyFollows
  <2>6. Within(House) BY <1>0, <2>2, <2>3, <2>4, <2>5 DEF HeldDaily, LastRead
  <2> QED BY <1>1, <2>3, <2>6, SMT DEF Within, House
<1>19. CASE remade
  <2>1. value \in {0, counted} /\ (total >= counted => value = counted)
    BY <1>0, <1>1, <1>5, <1>7, <1>19, SnapshotAtMidnight, SMT
  <2>2. value \in 0 .. counted BY <1>1, <2>1, SMT
  <2>3. Day(now) > Day(clean') =>
            Clamped(value, house) \in 0 .. counted /\ (value = counted => Clamped(value, house) = counted)
    BY <1>1, <1>18, <1>19, <2>2, ClampedStays, SMT
  <2>4. ASSUME Fresh'
        PROVE  /\ held' = None /\ accepted' # None /\ day' = Day(made')
               /\ snap' = counter - counted + offset /\ poll'.today = counted
               /\ Day(made') > Day(clean') => poll'.house = counted
    <3>1. made' = now /\ total = R /\ total >= counted BY <1>11, <1>19, <2>4 DEF Fresh
    <3>2. value = counted /\ daily = counter - counted + offset
      BY <1>1, <1>5, <1>7, <2>1, <3>1, SMT
    <3>3. held' = None /\ accepted' # None
      <4>1. ~ IsWaiting(poll.total, counter, now)' BY <1>1, <1>4, <3>1, SMT DEF IsWaiting
      <4>2. ~ IsHeld(poll.total, counter)'
        <5>1. SUFFICES ASSUME IsHeld(poll.total, counter)' PROVE FALSE OBVIOUS
        <5>2. held' # None BY <5>1 DEF IsHeld
        <5>3. verdict \in {"tooSoon", "held"}
          <6>1. verdict \notin {"filled", "anchored"}
            <7>1. verdict = "filled" => c = None BY <1>2, SMT DEF Verdict
            <7>2. verdict = "anchored" => base # None /\ Since = None BY SMT DEF Verdict
            <7>3. base # None => Since # None BY <1>0 DEF Timed, Since, Anchor
            <7> QED BY <1>2, <7>1, <7>2, <7>3
          <6> QED BY <1>4, <5>2, <6>1, SMT DEF Validate
        <5>4. CASE verdict = "held"
          <6>1. /\ base # None /\ ~UnconfirmedZero /\ Since # None
                /\ c - base \notin 0 .. Believable(Since)
            BY <5>4, SMT DEF Verdict
          <6>2. total = base /\ base \in Int BY <1>5, <5>4 DEF Published
          <6>3. Believable(Since) \in Nat
            BY <1>0, <6>1, SinceIsMoment, BelievableIsNatural DEF Moment
          <6> QED BY <1>2, <3>1, <6>1, <6>2, <6>3, SMT
        <5>5. CASE verdict = "tooSoon"
          <6>1. lastTime = now BY <5>5, SMT DEF Verdict
          <6>2. kept = None /\ kept = snap BY <1>17, <1>19, <5>5, <6>1
          <6>3. held' = held BY <1>4, <5>5, SMT DEF Validate
          <6>4. clean # None BY <1>14, <6>1
          <6> QED BY <1>0, <5>2, <6>2, <6>3, <6>4 DEF SnapshotMade, IsShown
        <5> QED BY <5>3, <5>4, <5>5
      <4> QED BY <1>3, <4>1, <4>2 DEF IsShown
    <3> QED BY <1>8, <1>10, <2>3, <3>1, <3>2, <3>3
  <2> QED BY <1>4, <1>8, <1>9, <1>10, <1>12, <2>2, <2>3, <2>4
<1>20. CASE ~remade
  <2>1. ~Rolls /\ kept = snap /\ snap \in Int /\ made' = made
    BY <1>1, <1>11, <1>20 DEF Value
  <2>2. verdict \notin {"confirmed", "witnessed"} BY <1>20
  <2>3. CASE clean = None
    <3>1. ~Fresh'
      <4>1. made # None => lastTime # None /\ made <= lastTime BY <1>0 DEF Dated, LastRead
      <4>2. lastTime # None => lastTime <= now BY <1>0 DEF Bygone, Past
      <4>3. lastTime # now /\ clean' = now BY <1>14, <2>3
      <4> QED BY <1>1, <2>1, <4>1, <4>2, <4>3, SMT DEF Fresh, Moment
    <3>2. ~ (Day(now) > Day(clean')) BY <1>10, <1>14, <2>3, SMT
    <3> QED BY <1>9, <1>10, <1>12, <3>1, <3>2
  <2>4. CASE clean # None
    <3>1. clean' = clean /\ Day(lastTime) = Day(now) /\ day = Day(now)
      BY <1>15, <1>16, <2>1, <2>4
    <3>2. Fresh' = Fresh BY <2>1, <3>1 DEF Fresh
    <3>3. \/ verdict = "tooSoon" /\ total = base /\ held' = held /\ accepted' = accepted
          \/ verdict = "accepted" /\ held' = None /\ accepted' # None
          \/ verdict = "held" /\ IsHeld(base, raw) /\ total = base
      <4>1. CASE lastTime = now
        <5>1. verdict = "tooSoon" BY <1>13, <4>1
        <5>2. held' = held /\ accepted' = accepted BY <1>4, <5>1, SMT DEF Validate
        <5> QED BY <5>1, <5>2 DEF Published
      <4>2. CASE lastTime # now
        <5>1. verdict = "accepted" \/ (verdict = "held" /\ IsHeld(base, raw))
          BY <1>0, <2>2, <2>4, <4>2, HonestVerdict
        <5>2. verdict = "accepted" => held' = None /\ accepted' = now
          BY <1>4, SMT DEF Validate
        <5>3. verdict = "held" => total = base BY DEF Published
        <5> QED BY <1>1, <5>1, <5>2, <5>3
      <4> QED BY <4>1, <4>2
    <3>4. ASSUME Fresh
          PROVE  /\ held' = None /\ accepted' # None /\ day' = Day(made')
                 /\ snap' = counter - counted + offset /\ poll'.today = counted
                 /\ Day(made') > Day(clean') => poll'.house = counted
      <4>1. /\ held = None /\ accepted # None /\ day = Day(made)
            /\ snap = counter - counted + offset
            /\ Day(made) > Day(clean) => Within(house)
        BY <1>0, <3>1, <3>4 DEF DailyFollows, House
      <4>2. held' = None /\ accepted' # None BY <3>3, <4>1 DEF IsHeld
      <4>3. total = R BY <1>3, <1>4, <4>2 DEF IsShown, IsWaiting, IsHeld
      <4>4. daily = snap BY <1>1, <1>5, <2>1, <4>1, <4>3, SnapshotStays, SMT
      <4>5. value = counted BY <1>1, <4>1, <4>3, <4>4, SMT
      <4>6. Day(made) > Day(clean) => Clamped(value, house) = counted
        BY <1>1, <3>1, <4>1, <4>5, ClampedStays, SMT DEF Within
      <4> QED BY <1>8, <1>10, <2>1, <3>1, <4>1, <4>2, <4>4, <4>5, <4>6
    <3>5. ASSUME ~Fresh, Day(now) > Day(clean), held' # None
          PROVE  value \in 0 .. counted /\ Clamped(value, house) \in 0 .. counted
      <4>1. total = base /\ held # None BY <3>3, <3>5 DEF IsHeld
      <4>2. Within(base - snap) /\ Within(house)
        BY <1>0, <2>4, <3>1, <3>5, <4>1 DEF HeldDaily, LastRead, Total, House
      <4>3. daily = snap
        <5>1. base \in Int /\ snap <= base BY <1>5, <2>1, <4>1, <4>2, SMT DEF Within
        <5> QED BY <2>1, <4>1, <5>1, SnapshotStays
      <4>4. value \in Nat /\ value <= counted /\ house \in Nat /\ house <= counted
        BY <3>1, <4>1, <4>2, <4>3 DEF Within
      <4> QED BY <1>1, <4>4, ClampedStays, SMT
    <3> QED BY <1>4, <1>8, <1>9, <1>10, <1>12, <3>1, <3>2, <3>4, <3>5
  <2> QED BY <2>3, <2>4
<1> QED BY <1>19, <1>20

DailyParts == Dated /\ SnapshotMade /\ DailyFollows /\ HeldDaily

LEMMA InitIsDaily == ASSUME Init PROVE DailyParts
<1>1. Day(now) \in Nat /\ now \in Nat /\ Power \in Nat
  BY DaysAreNatural, CountsAreNatural, SMT DEF Init
<1>2. counted <= Power * (now - Day(now) * DayLength)
  <2>1. Day(now) * DayLength \in Nat /\ Day(now) * DayLength <= now
    BY <1>1, MidnightIsNatural, DayBounds
  <2> QED BY <1>1, <2>1, SMT DEF Init
<1>3. saved.day # None => saved.day = 0
  <2>1. Nothing.day = None BY DEF Nothing
  <2> QED BY <2>1, NothingIsKept DEF Init, Inherited, Kept
<1>4. saved.day # None => saved.day <= Day(now) BY <1>1, <1>3, SMT
<1> QED BY <1>2, <1>4
        DEF Init, DailyParts, Dated, SnapshotMade, DailyFollows, HeldDaily, Fresh

LEMMA NextIsDaily ==
    ASSUME DailyInv, TypeOK', Bygone', Followed', [Next]_vars PROVE DailyParts'
<1>0. /\ TypeOK /\ EnergyInv /\ Bygone /\ Followed /\ Dated /\ SnapshotMade
      /\ DailyFollows /\ HeldDaily
      /\ now \in Nat /\ counter \in Nat /\ counted \in Nat /\ Power \in Nat
      /\ Day(now) \in Nat /\ None \notin Int
  BY DaysAreNatural, CountsAreNatural DEF DailyInv, HonestInv, EnergyInv, TypeOK
<1>1. ASSUME UNCHANGED <<now, counter, counted, base, raw, house, lastTime, accepted, held,
                         snap, day, offset, poll, today, clean, made>>,
             saved'.day = saved.day \/ saved'.day = day
      PROVE  DailyParts'
  BY <1>0, <1>1 DEF DailyParts, Dated, SnapshotMade, DailyFollows, HeldDaily,
                    Fresh, Within, IsShown, LastRead, House, Today, Total
<1>2. ASSUME clean' = None, Dated' PROVE DailyParts'
  BY <1>2 DEF DailyParts, SnapshotMade, DailyFollows, HeldDaily, Fresh
<1>3. CASE UNCHANGED vars BY <1>1, <1>3, Zenon DEF vars, device, checked, processor, history
<1>4. CASE Tick
  <2>1. PICK e \in 0 .. Power :
            /\ counter' = counter + e
            /\ counted' = IF Day(now + 1) > Day(now) THEN 0 ELSE counted + e
    BY <1>4 DEF Tick
  <2>2. now' = now + 1 /\ poll = None
        /\ UNCHANGED <<base, raw, house, lastTime, accepted, held, snap, day, offset, poll,
                       saved, today, clean, made>>
    BY <1>4, Zenon DEF Tick, checked, processor, history
  <2>3. /\ e \in Nat /\ e <= Power
        /\ Day(now') \in Nat /\ Day(now) <= Day(now') /\ Day(now') = Day(now + 1)
    <3>1. now + 1 \in Nat /\ now <= now + 1 BY <1>0, SMT
    <3>2. Day(now + 1) \in Nat /\ Day(now) <= Day(now + 1)
      BY <1>0, <3>1, DaysAreNatural, DaysGoOn
    <3> QED BY <1>0, <2>1, <2>2, <3>2, SMT
  <2>4. counted' <= Power * (now' - Day(now') * DayLength)
    <3> DEFINE midnight == Day(now') * DayLength
    <3>1. midnight \in Nat /\ midnight <= now'
      BY <1>0, <2>2, MidnightIsNatural, DayBounds, SMT
    <3>2. CASE Day(now') > Day(now)
      <4>1. counted' = 0 BY <2>1, <2>3, <3>2
      <4> HIDE DEF midnight
      <4>2. now' - midnight \in Nat BY <1>0, <2>2, <3>1, SMT
      <4>3. Power * (now' - midnight) \in Nat BY <1>0, <4>2, SMT
      <4> QED BY <4>1, <4>3, SMT DEF midnight
    <3>3. CASE Day(now') = Day(now)
      <4>1. counted' = counted + e BY <1>0, <2>1, <2>3, <3>3, SMT
      <4>2. counted <= Power * (now - midnight) BY <1>0, <3>3 DEF Dated
      <4> HIDE DEF midnight
      <4>3. Power * (now' - midnight) = Power * (now - midnight) + Power
            /\ Power * (now - midnight) \in Int
        BY <1>0, <2>2, <3>1, SMT
      <4>4. counted' <= Power * (now - midnight) + Power
        BY <1>0, <2>3, <4>1, <4>2, <4>3, SMT
      <4> QED BY <4>3, <4>4 DEF midnight
    <3> QED BY <1>0, <2>3, <3>2, <3>3, SMT
  <2>5. LastRead' = LastRead /\ LastRead = lastTime /\ Total' = Total /\ House' = House
        /\ Fresh' = Fresh
    BY <2>2 DEF LastRead, Total, House, Fresh
  <2>6. Dated' BY <1>0, <2>2, <2>3, <2>4, <2>5, SMT DEF Dated, TypeOK, Moment, Kept
  <2>7. SnapshotMade' BY <1>0, <2>2 DEF SnapshotMade, IsShown
  <2>8. clean # None => lastTime \in Nat /\ lastTime <= now /\ day \in Nat
    <3>1. clean # None => lastTime \in Nat /\ lastTime <= now
      BY <1>0, <2>5 DEF Dated, Bygone, Past, TypeOK, Moment
    <3>2. clean # None => day = Day(lastTime) BY <1>0, <2>5 DEF Dated
    <3> QED BY <3>1, <3>2, DaysAreNatural
  <2>9. ASSUME Day(now') = day, clean # None
        PROVE  Day(now) = day /\ counter' - counted' = counter - counted /\ counted <= counted'
    <3>1. Day(now) = day BY <1>0, <2>3, <2>8, <2>9, SMT DEF Dated
    <3> QED BY <1>0, <2>1, <2>3, <2>9, <3>1, SMT
  <2>10. ASSUME NEW h, Within(h), clean # None
         PROVE  h \in Nat /\ (Day(now') = day => h <= counted')
    <3>1. counted' \in Nat BY DEF TypeOK
    <3> QED BY <1>0, <2>9, <2>10, <3>1, SMT DEF Within
  <2>11. DailyFollows'
    <3>1. clean # None => LastRead' # now' BY <1>0, <2>2, <2>5, <2>8, SMT
    <3>2. Fresh /\ Day(now') = day => snap = counter' - counted' + offset
      BY <1>0, <2>9 DEF DailyFollows, Fresh
    <3>3. Fresh /\ Day(made) > Day(clean) => House \in Nat /\ (Day(now') = day => House <= counted')
      BY <1>0, <2>10 DEF DailyFollows, Fresh
    <3> QED BY <1>0, <2>2, <2>5, <3>1, <3>2, <3>3 DEF DailyFollows, Within, Fresh
  <2>12. HeldDaily'
    <3>1. ASSUME clean # None, ~Fresh, Day(LastRead) > Day(clean)
          PROVE  /\ held # None =>
                        /\ snap # None /\ Total - snap \in Nat
                        /\ Day(now') = day => Total - snap <= counted'
                 /\ held # None \/ snap = None =>
                        House \in Nat /\ (Day(now') = day => House <= counted')
      BY <1>0, <2>10, <3>1 DEF HeldDaily
    <3> QED BY <2>2, <2>5, <3>1 DEF HeldDaily, Within
  <2> QED BY <2>6, <2>7, <2>11, <2>12 DEF DailyParts
<1>5. CASE DeviceReset
  <2>1. /\ counted' = 0 /\ clean' = None
        /\ UNCHANGED <<now, lastTime, day, poll, saved, made>>
    BY <1>5, Zenon DEF DeviceReset, checked, processor
  <2>2. Day(now) * DayLength \in Nat /\ Day(now) * DayLength <= now
    BY <1>0, MidnightIsNatural, DayBounds
  <2>3. 0 <= Power * (now - Day(now) * DayLength) BY <1>0, <2>2, SMT
  <2> QED BY <1>0, <1>2, <2>1, <2>3 DEF Dated, LastRead
<1>6. CASE PollWorks
  <2>1. poll = None /\ UNCHANGED <<now, counter, counted, offset, lastTime, saved>>
    BY <1>6, Zenon DEF PollWorks, device, checked
  <2>2. PICK v \in Reading, d \in Reading : Work(v, d) BY <1>0, <1>6, PollReads
  <2>3. poll' # None BY <1>0, <2>2, WorkIsAFrame
  <2>4. LastRead' = now /\ House' = poll'.house /\ Today' = poll'.today
        /\ Total' = poll'.total
    BY <2>1, <2>3 DEF LastRead, House, Today, Total
  <2>5. (day' = day \/ day' = Day(now)) /\ (made' = now \/ made' = None \/ made' = made)
    BY <2>2 DEF Work
  <2>6. made' # None => made' <= now
    BY <1>0, <2>1, <2>5, SMT DEF Dated, LastRead, Bygone, Past, TypeOK, Moment
  <2>7. CASE clean' = None
    BY <1>0, <1>2, <2>1, <2>4, <2>5, <2>6, <2>7 DEF Dated
  <2>8. CASE clean' # None
    <3>1. /\ Work(counter, counted)
          /\ \/ /\ lastTime # now /\ Corrected(counter) > 0
                /\ clean' = IF clean = None THEN now ELSE clean
             \/ lastTime = now /\ clean' = clean
      <4>1. Corrected(counter) \in Int BY <1>0, SMT DEF Corrected, TypeOK
      <4>2. ASSUME clean' = CASE Corrected(counter) <= 0 -> None
                              [] Corrected(counter) > 0 /\ clean = None -> now
                              [] OTHER -> clean
            PROVE  Corrected(counter) > 0 /\ clean' = IF clean = None THEN now ELSE clean
        BY <2>8, <4>1, <4>2, SMT
      <4> QED BY <1>6, <2>8, <4>2 DEF PollWorks
    <3>2. Follows(poll.total, counter, now)' BY <2>3, <2>8 DEF Followed
    <3>3. /\ snap' # None /\ day' = Day(now)
          /\ Fresh' => /\ held' = None /\ accepted' # None /\ day' = Day(made')
                       /\ snap' = counter - counted + offset
                       /\ poll'.today = counted
                       /\ Day(made') > Day(clean') => poll'.house = counted
          /\ ~Fresh' /\ Day(now) > Day(clean') /\ held' # None =>
                 /\ poll'.total - snap' \in 0 .. counted
                 /\ poll'.house \in 0 .. counted
      BY <2>1, <2>8, <3>1, <3>2, HonestPollDaily
    <3>4. Dated' BY <1>0, <2>1, <2>4, <2>6, <3>3 DEF Dated
    <3>5. SnapshotMade' BY <3>3 DEF SnapshotMade
    <3>6. DailyFollows'
      BY <1>0, <2>1, <2>4, <3>3 DEF DailyFollows, Within
    <3>7. HeldDaily'
      <4>1. ASSUME NEW h \in 0 .. counted PROVE h \in Nat /\ h <= counted BY <1>0, <4>1, SMT
      <4> QED BY <2>1, <2>4, <3>3, <4>1 DEF HeldDaily, Within
    <3> QED BY <3>4, <3>5, <3>6, <3>7 DEF DailyParts
  <2> QED BY <2>7, <2>8
<1>7. CASE PollKeeps
  <2>1. /\ poll # None /\ poll' = None /\ lastTime' = now
        /\ house' = poll.house /\ today' = poll.today
        /\ UNCHANGED <<now, counter, counted, day, offset, saved, clean, made>>
    BY <1>7, Zenon DEF PollKeeps, device
  <2>2. LastRead' = LastRead /\ House' = House /\ Today' = Today /\ Fresh' = Fresh
        /\ LastRead = now
    BY <2>1 DEF LastRead, House, Today, Fresh
  <2>3. Dated' BY <1>0, <2>1, <2>2 DEF Dated
  <2>4. CASE TakesLongHeld
    <3>1. held # None /\ held' = None /\ snap' = None /\ accepted' = now
      BY <1>7, <2>4 DEF PollKeeps, Take, TakesLongHeld, HeldOverADay
    <3>2. ~Fresh BY <1>0, <3>1 DEF DailyFollows
    <3>3. DailyFollows' BY <2>2, <3>2 DEF DailyFollows
    <3>4. HeldDaily' BY <1>0, <2>1, <2>2, <3>1, <3>2 DEF HeldDaily, Within
    <3>5. SnapshotMade'
      <4>1. clean' # None => Follows(base, raw, lastTime)' BY <2>1 DEF Followed
      <4>2. accepted' # None BY <1>0, <3>1
      <4> QED BY <2>1, <3>1, <4>1, <4>2 DEF SnapshotMade, Follows, IsWaiting, IsHeld
    <3> QED BY <2>3, <3>3, <3>4, <3>5 DEF DailyParts
  <2>5. CASE ~TakesLongHeld
    <3>1. base' = poll.total /\ UNCHANGED <<accepted, held, snap>>
      BY <1>7, <2>5 DEF PollKeeps
    <3>2. Total' = Total BY <2>1, <3>1 DEF Total
    <3>3. SnapshotMade' BY <1>0, <2>1, <3>1 DEF SnapshotMade
    <3>4. DailyFollows' BY <1>0, <2>1, <2>2, <3>1 DEF DailyFollows, Within
    <3>5. HeldDaily' BY <1>0, <2>1, <2>2, <3>1, <3>2 DEF HeldDaily, Within
    <3> QED BY <2>3, <3>3, <3>4, <3>5 DEF DailyParts
  <2> QED BY <2>4, <2>5
<1>8. CASE TakeDeviceTotal
  <2>1. /\ clean' = None
        /\ UNCHANGED <<now, counted, lastTime, day, poll, saved, made>>
    BY <1>8, Zenon DEF TakeDeviceTotal, device
  <2> QED BY <1>0, <1>2, <2>1 DEF Dated, LastRead
<1>9. ASSUME NEW correction, Correct(correction) PROVE DailyParts'
  BY <1>1, <1>9, Zenon DEF Correct, device, checked, processor, history
<1>10. CASE KeepShownTotal BY <1>9, <1>10 DEF KeepShownTotal
<1>11. CASE SetTotal BY <1>9, <1>11 DEF SetTotal
<1>12. CASE RemoveCorrections BY <1>9, <1>12 DEF RemoveCorrections
<1>13. Persisted.day = day /\ Nothing.day = None /\ (Saving => saved' = Persisted)
  BY DEF Persisted, Nothing, Saving
<1>14. CASE Save
  BY <1>1, <1>13, <1>14, Zenon DEF Save, device, checked, processor
<1>15. ASSUME NEW stored, Load(stored), NEW torn, Restarting(torn),
              stored.day = day \/ stored.day = saved.day \/ stored.day = None,
              saved'.day = day \/ saved'.day = saved.day
       PROVE  DailyParts'
  <2>1. clean' = None /\ made' = None /\ day' = stored.day /\ UNCHANGED <<now, counted>>
    BY <1>15 DEF Restarting, Load, device
  <2> QED BY <1>0, <1>2, <1>15, <2>1 DEF Dated
<1>16. CASE Reload BY <1>13, <1>15, <1>16 DEF Reload
<1>17. CASE Restart BY <1>13, <1>15, <1>17 DEF Restart
<1>18. CASE StartAfresh BY <1>13, <1>15, <1>18 DEF StartAfresh
<1> QED BY <1>3, <1>4, <1>5, <1>6, <1>7, <1>8, <1>10, <1>11, <1>12, <1>14, <1>16, <1>17, <1>18
        DEF Next

\* With honest reads since its snapshot was made, the daily value is what the device
\* counted since midnight, whatever was read, held, taken or restarted before
\* (derive_daily, clamp_calculated, _is_valid_raw_daily).
THEOREM TodayAlwaysFollows == Spec => []TodayFollowsTheDevice
<1>1. Init => DailyInv
  BY InitTypes, InitIsTimed, InitCountsOn, InitIsBygone, InitFollows, InitIsAboveZero,
     InitIsDaily
     DEF DailyInv, DailyParts, HonestInv, EnergyInv
<1>2. DailyInv /\ [Next]_vars => DailyInv'
  BY NextTypes, NextIsTimed, NextCountsOn, NextIsBygone, NextFollows, NextIsAboveZero,
     NextIsDaily
     DEF DailyInv, DailyParts, HonestInv, EnergyInv
<1>3. DailyInv => TodayFollowsTheDevice
  BY DEF DailyInv, DailyFollows, Fresh, LastRead, Today, House, TodayFollowsTheDevice
<1> QED BY <1>1, <1>2, <1>3, PTL DEF Spec
=============================================================================
