---------------------------- MODULE ControlTest -----------------------------
(***************************************************************************)
(* One run of the control test, control_test.py with control_test_core.py: *)
(* it takes the inverter over from the control manager with a heartbeat of *)
(* its own, commands each method, judges what the inverter does, and hands *)
(* back.  Writes may be refused, the heartbeat may lapse, a reading may    *)
(* fail to come, and the run may be cancelled at any await.                *)
(***************************************************************************)
EXTENDS Integers, Sequences

CONSTANTS
    None, Default,      \* no value; the default method
    Tests,              \* CORE_TESTS: [method, key, sign]
    Keys,               \* SETPOINT_KEYS, in order
    Power,              \* the power asked for
    MinPower, MaxPower, \* MIN_TEST_POWER_W, MAX_TEST_POWER_W
    MinAchievable,      \* MIN_ACHIEVABLE_W
    Tolerance,          \* of a measured value
    Firmwares,          \* the methods a firmware may follow
    Flows,              \* what may flow at each setpoint's measure where none acts
    Caps,               \* the export caps, or None
    Found,              \* the setpoints a run may find
    Damping, Settle,    \* CONTROL_STATUS_DAMPING_POLLS, polls in settle_s
    MaxRuns, MaxFaults  \* bounds on runs, and on failures and cancellations

Methods == {Tests[i].method : i \in DOMAIN Tests}
KeySet == {Keys[i] : i \in DOMAIN Keys}

ASSUME TestsAreKnown ==
    /\ Default \notin Methods
    /\ Keys \in Seq(KeySet) /\ Keys # <<>>
    /\ Tests \in Seq([method : Methods, key : KeySet, sign : {-1, 1}]) /\ Tests # <<>>
    /\ {Power, MinPower, MaxPower, MinAchievable, Tolerance, Damping, Settle} \subseteq Nat
    /\ Damping > 0
    /\ Firmwares \subseteq SUBSET Methods
    /\ Flows \cup Found \subseteq [KeySet -> Int]
    /\ Caps \subseteq Nat \cup {None} /\ None \notin Int

VARIABLES
    follows, flow, cap, battery,    \* the site: the methods the firmware follows, what
                        \* flows by itself at each setpoint's measure, what an export
                        \* cap leaves to feed, the battery's state; never change
    setpoint, method, saver,    \* the inverter's registers
    enabled,            \* Modbus Control is on; not changed during a test
    testing,            \* _test_running of the control manager
    manager, held,      \* its heartbeat loop; its last beat is recent
    stale,              \* _control_stale
    pc,                 \* the await the run is at, or "idle"
    after,              \* where a return to default goes on
    test, left,         \* the test at hand; the keys left to write
    wrote,              \* _wrote
    beating, recent,    \* its own heartbeat loop; its last beat is recent
    originals, kept,    \* the setpoints and the battery saver it read first
    plan,               \* [target, decisive]
    streak, frames,     \* polls in a row on target, polls watched
    verdicts,           \* one for each test so far
    outcome,            \* of the report
    runs, faults,       \* counted for the bounds
    before,             \* history: the registers when the run began
    sent,               \* history: the run has written a register
    spoiled,            \* history: the last clean-up failed, or there was none
    cancelled,          \* history: the run has been cancelled
    cutShort            \* history: its clean-up has been

site == <<follows, flow, cap, battery>>
registers == <<setpoint, method, saver>>
control == <<enabled, testing, manager, held, stale>>
beat == <<beating, recent>>
found == <<originals, kept>>
watched == <<plan, streak, frames>>
report == <<verdicts, outcome>>
history == <<before, spoiled, cancelled, cutShort>>
vars == <<site, registers, control, pc, after, test, left, wrote, beat, found, watched,
          report, runs, faults, sent, history>>

-----------------------------------------------------------------------------
(* What a test is run at, and what its result is.                          *)

Distance(a, b) == IF a < b THEN b - a ELSE a - b

\* is_decisive: the target differs clearly from what flows before the command.
\* (Variants, here and below: any target is decisive, a test is watched until it settles,
\* nothing is restored, the manager is forgotten, a cancellation ends one write.)
AlwaysDecisive(sign, power, baseline) == TRUE
IsDecisive(sign, power, baseline) == Distance(power * sign, baseline) > Tolerance

\* pick_decisive_power
PickDecisive(sign, power, baseline, limit) ==
    LET ceiling == IF limit # None /\ limit < MaxPower THEN limit ELSE MaxPower
        decisive == {c \in MinPower .. ceiling : IsDecisive(sign, c, baseline)}
    IN  IF decisive = {} THEN power
        ELSE CHOOSE c \in decisive : \A other \in decisive :
                 \/ Distance(c, power) < Distance(other, power)
                 \/ Distance(c, power) = Distance(other, power) /\ c <= other

\* achievable_power
Achievable(sign) == IF sign > 0 THEN None ELSE cap

\* skip_reason, and the export cap that leaves too little to feed.
Skips(sign) ==
    \/ battery = "full" /\ sign > 0
    \/ battery = "empty" /\ sign < 0
    \/ Achievable(sign) # None /\ Achievable(sign) < MinAchievable

\* plan_test, for a test that is not skipped.
PlanTest(sign, baseline) ==
    LET limit == Achievable(sign)
        power == IF limit # None /\ limit < Power THEN limit ELSE Power
        picked == IF baseline # None /\ ~IsDecisive(sign, power, baseline)
                  THEN PickDecisive(sign, power, baseline, limit) ELSE power
    IN  [target |-> picked * sign,
         decisive |-> baseline = None \/ IsDecisive(sign, picked, baseline)]

\* deviation_state, as far as it is ACTIVE.
OnTarget(target, measured) == measured = None \/ Distance(target, measured) <= Tolerance

\* The loop of _run_feature goes on until enough polls in a row are on target, or the
\* settle time is over.
WatchesUntilSettled(polls, count) == polls >= Damping
WatchEnds(polls, count) == polls >= Damping \/ count = Settle

\* Verdict: of those a run gives, the decisive ones say something of the firmware.
Decisive == {"followed", "not_followed", "write_refused"}
Verdicts == Decisive \cup {"unreachable", "inconclusive", "skipped"}

\* judge, for a test that has settled or has not.
Judged(settled, decisive) ==
    CASE settled /\ decisive -> {"followed"}
      [] settled /\ ~decisive -> {"inconclusive"}
      [] ~settled -> {"not_followed", "unreachable"}

-----------------------------------------------------------------------------
(* The inverter.                                                           *)

Granted == held \/ recent

Acting(t) == Granted /\ method = t.method /\ t.method \in follows

\* measure, in a frame read now.
Measured(t) == IF Acting(t) THEN setpoint[t.key] ELSE flow[t.key]

Init ==
    /\ follows \in Firmwares
    /\ flow \in Flows
    /\ cap \in Caps /\ battery \in {"full", "between", "empty"}
    /\ setpoint \in Found /\ saver \in BOOLEAN
    /\ enabled \in BOOLEAN
    /\ method \in {Default} \cup (IF enabled THEN Methods ELSE {})
    /\ testing = FALSE
    /\ manager = enabled /\ held = enabled /\ stale = FALSE
    /\ pc = "idle" /\ after = None /\ test = 0 /\ left = <<>>
    /\ wrote = FALSE /\ beating = FALSE /\ recent = FALSE
    /\ originals = [k \in KeySet |-> 0] /\ kept = FALSE
    /\ plan = None /\ streak = 0 /\ frames = 0
    /\ verdicts = <<>> /\ outcome = None
    /\ runs = 0 /\ faults = 0
    /\ before = None /\ sent = FALSE /\ spoiled = FALSE /\ cancelled = FALSE /\ cutShort = FALSE

\* A failure, within the bound.
Fault == faults < MaxFaults /\ faults' = faults + 1
NoFault == UNCHANGED faults

-----------------------------------------------------------------------------
(* The control manager: the part of it a test concerns.                    *)

\* A poll or a user's choice sends the selected mode.
ManagerSends ==
    /\ ~testing /\ enabled /\ held /\ (stale \/ runs = 0)
    /\ \E m \in Methods \cup {Default} : method' = m
    /\ stale' = FALSE
    /\ UNCHANGED <<site, setpoint, saver, enabled, testing, manager, held, pc, after, test,
                   left, wrote, beat, found, watched, report, runs, faults, sent, history>>

\* Its heartbeat beats, and once stopped the inverter's window passes; so with ours.
Windows ==
    /\ \/ manager /\ ~held /\ held' = TRUE /\ UNCHANGED <<recent, faults>>
       \/ ~manager /\ held /\ held' = FALSE /\ UNCHANGED <<recent, faults>>
       \/ beating /\ ~recent /\ recent' = TRUE /\ UNCHANGED <<held, faults>>
       \/ ~beating /\ recent /\ recent' = FALSE /\ UNCHANGED <<held, faults>>
       \/ beating /\ recent /\ Fault /\ recent' = FALSE /\ UNCHANGED held
    /\ UNCHANGED <<site, registers, enabled, testing, manager, stale, pc, after, test, left,
                   wrote, beating, found, watched, report, runs, sent, history>>

-----------------------------------------------------------------------------
(* The run.                                                                *)

\* check_preconditions, async_start and the first half of async_begin_test.
Start ==
    /\ pc = "idle" /\ runs < MaxRuns
    /\ held \/ ~recent          \* no other controller: none shows, or it is us
    /\ testing' = TRUE
    /\ pc' = "begin"
    /\ wrote' = FALSE /\ sent' = FALSE /\ after' = None
    /\ test' = 1 /\ verdicts' = <<>> /\ outcome' = "running"
    /\ runs' = runs + 1
    /\ before' = [setpoint |-> setpoint, method |-> method, saver |-> saver]
    /\ spoiled' = FALSE /\ cancelled' = FALSE /\ cutShort' = FALSE
    /\ UNCHANGED <<site, registers, enabled, manager, held, stale, left, beat, found,
                   watched, faults>>

\* async_begin_test: the manager's heartbeat stops.
Begin ==
    /\ pc = "begin"
    /\ manager' = FALSE
    /\ pc' = "first"
    /\ UNCHANGED <<site, registers, enabled, testing, held, stale, after, test, left, wrote,
                   beat, found, watched, report, runs, faults, sent, history>>

\* The first frame.
First ==
    /\ pc = "first"
    /\ originals' = setpoint /\ kept' = saver
    /\ pc' = "take"
    /\ wrote' = TRUE            \* by _take_control, before its beat
    /\ UNCHANGED <<site, registers, control, after, test, left, beat, watched, report,
                   runs, faults, sent, history>>

\* _take_control: the first beat, and the loop; or it is refused, and nothing tested.
Take ==
    /\ pc = "take"
    /\ \/ /\ NoFault
          /\ beating' = TRUE /\ recent' = TRUE
          /\ pc' = "bit" /\ UNCHANGED outcome
       \/ /\ Fault
          /\ outcome' = "done" /\ pc' = "restore" /\ UNCHANGED beat
    /\ UNCHANGED <<site, registers, control, after, test, left, wrote, found, watched,
                   verdicts, runs, sent, history>>

\* The frames until bit 11 shows, or for too long.
SeeBit ==
    /\ pc = "bit"
    /\ pc' = "plan"
    /\ UNCHANGED <<site, registers, control, after, test, left, wrote, beat, found,
                   watched, report, runs, faults, sent, history>>

\* The next test, or the hand-back.
GoOn ==
    /\ test' = test + 1
    /\ IF test < Len(Tests) THEN pc' = "plan" /\ UNCHANGED after
       ELSE pc' = "fresh" /\ after' = "handing"

\* _run_feature, up to its first frame.
PlanStep ==
    /\ pc = "plan"
    /\ IF Skips(Tests[test].sign)
       THEN /\ verdicts' = Append(verdicts, "skipped")
            /\ GoOn
            /\ UNCHANGED plan
       ELSE /\ plan' = PlanTest(Tests[test].sign, Measured(Tests[test]))
            /\ pc' = "beat"
            /\ UNCHANGED <<verdicts, test, after>>
    /\ UNCHANGED <<site, registers, control, left, wrote, beat, found, streak, frames,
                   outcome, runs, faults, sent, history>>

\* async_ensure_fresh, whose answer nothing looks at.
Refreshes ==
    \/ NoFault /\ recent' = TRUE
    \/ Fault /\ UNCHANGED recent

\* _send: the beat, the setpoint and the control word.
SendBeat ==
    /\ pc = "beat"
    /\ Refreshes
    /\ pc' = "setpoint"
    /\ UNCHANGED <<site, registers, control, after, test, left, wrote, beating, found,
                   watched, report, runs, sent, history>>

Refused ==
    /\ verdicts' = Append(verdicts, "write_refused")
    /\ pc' = "fresh" /\ after' = "next"

SendSetpoint ==
    /\ pc = "setpoint"
    /\ \/ /\ NoFault
          /\ setpoint' = [setpoint EXCEPT ![Tests[test].key] = plan.target]
          /\ pc' = "word" /\ UNCHANGED <<verdicts, after>>
       \/ /\ Fault
          /\ setpoint' \in {setpoint, [setpoint EXCEPT ![Tests[test].key] = plan.target]}
          /\ Refused
    /\ sent' = TRUE
    /\ UNCHANGED <<site, method, saver, control, test, left, wrote, beat, found, watched,
                   outcome, runs, history>>

SendWord ==
    /\ pc = "word"
    /\ \/ /\ NoFault
          /\ method' = Tests[test].method /\ saver' = kept
          /\ pc' = "landing" /\ UNCHANGED <<verdicts, after>>
       \/ /\ Fault
          /\ \/ UNCHANGED <<method, saver>>
             \/ method' = Tests[test].method /\ saver' = kept
          /\ Refused
    /\ UNCHANGED <<site, setpoint, control, test, left, wrote, beat, found, watched,
                   outcome, runs, sent, history>>

\* A frame that may have been read before the command landed.
LetItLand ==
    /\ pc = "landing"
    /\ pc' = "watch"
    /\ streak' = 0 /\ frames' = 0
    /\ UNCHANGED <<site, registers, control, after, test, left, wrote, beat, found, plan,
                   report, runs, faults, sent, history>>

\* The frames of the settle time, until enough in a row are on target.
Watch ==
    /\ pc = "watch"
    /\ frames' = IF frames < Settle THEN frames + 1 ELSE frames
    /\ streak' = IF OnTarget(plan.target, Measured(Tests[test])) THEN streak + 1 ELSE 0
    /\ IF WatchEnds(streak', frames')
       THEN /\ \E verdict \in Judged(streak' >= Damping, plan.decisive) :
                   verdicts' = Append(verdicts, verdict)
            /\ pc' = "fresh" /\ after' = "settle"
       ELSE UNCHANGED <<verdicts, pc, after>>
    /\ UNCHANGED <<site, registers, control, test, left, wrote, beat, found, plan,
                   outcome, runs, faults, sent, history>>

-----------------------------------------------------------------------------
(* Back to the default method, and to what was found.                      *)

\* The clean-up that counts is the last one; it starts over when a run is cut short.
CleaningUp == after \in {"handing", "restoring"}

\* _return_to_default: the beat, a 0 for every setpoint, and the control word.  No
\* answer is looked at.
ReturnBeat ==
    /\ pc = "fresh"
    /\ Refreshes
    /\ pc' = "zeros"
    /\ left' = Keys
    /\ spoiled' = IF CleaningUp THEN FALSE ELSE spoiled
    /\ UNCHANGED <<site, registers, control, after, test, wrote, beating, found, watched,
                   report, runs, sent, before, cancelled, cutShort>>

WriteZero ==
    /\ pc = "zeros" /\ left # <<>>
    /\ \/ NoFault /\ setpoint' = [setpoint EXCEPT ![Head(left)] = 0] /\ UNCHANGED spoiled
       \/ Fault /\ UNCHANGED setpoint /\ spoiled' = TRUE
    /\ left' = Tail(left)
    /\ sent' = TRUE
    /\ UNCHANGED <<site, method, saver, control, pc, after, test, wrote, beat, found,
                   watched, report, runs, before, cancelled, cutShort>>

WriteDefault ==
    /\ pc = "zeros" /\ left = <<>>
    /\ \/ NoFault /\ method' = Default /\ saver' = kept /\ UNCHANGED spoiled
       \/ Fault /\ UNCHANGED <<method, saver>> /\ spoiled' = TRUE
    /\ \/ after = "next" /\ GoOn /\ UNCHANGED left
       \/ after = "settle" /\ pc' = "settle" /\ UNCHANGED <<test, after, left>>
       \/ CleaningUp /\ pc' = "originals" /\ left' = Keys /\ UNCHANGED <<test, after>>
    /\ UNCHANGED <<site, setpoint, control, wrote, beat, found, watched, report, runs,
                   sent, before, cancelled, cutShort>>

\* The frames after it, so that the next test starts from what flows by itself.
LetItSettle ==
    /\ pc = "settle"
    /\ GoOn
    /\ UNCHANGED <<site, registers, control, left, wrote, beat, found, watched, report,
                   runs, faults, sent, history>>

\* _restore_setpoints
RestoresNothing(k) == setpoint
Restored(k) == IF originals[k] # 0 THEN [setpoint EXCEPT ![k] = originals[k]] ELSE setpoint

WriteOriginal ==
    /\ pc = "originals" /\ left # <<>>
    /\ \/ NoFault /\ setpoint' = Restored(Head(left)) /\ UNCHANGED spoiled
       \/ originals[Head(left)] # 0 /\ Fault /\ UNCHANGED setpoint /\ spoiled' = TRUE
    /\ left' = Tail(left)
    /\ UNCHANGED <<site, method, saver, control, pc, after, test, wrote, beat, found,
                   watched, report, runs, sent, before, cancelled, cutShort>>

\* _hand_back and _restore: the heartbeat stops.
StopBeating ==
    /\ pc = "originals" /\ left = <<>>
    /\ beating' = FALSE
    /\ IF after = "handing" THEN pc' = "bit11" /\ UNCHANGED wrote
       ELSE pc' = "release" /\ wrote' = FALSE
    /\ UNCHANGED <<site, registers, control, after, test, left, recent, found, watched,
                   report, runs, faults, sent, history>>

\* The frames until bit 11 clears, or for too long: nothing is left to clean up.
HandedBack ==
    /\ pc = "bit11"
    /\ wrote' = FALSE
    /\ outcome' = "done"
    /\ pc' = "restore"
    /\ UNCHANGED <<site, registers, control, after, test, left, beat, found, watched,
                   verdicts, runs, faults, sent, history>>

\* _restore: only while in control, since nothing else would act on the writes.
Restore ==
    /\ pc = "restore"
    /\ IF wrote /\ recent
       THEN pc' = "fresh" /\ after' = "restoring" /\ UNCHANGED <<beating, wrote, spoiled>>
       ELSE /\ pc' = "release" /\ beating' = FALSE /\ wrote' = FALSE
            /\ spoiled' = (spoiled \/ (wrote /\ sent))
            /\ UNCHANGED after
    /\ UNCHANGED <<site, registers, control, test, left, recent, found, watched, report,
                   runs, faults, sent, before, cancelled, cutShort>>

\* end_test: the manager takes over again.
ForgetsTheManager ==
    /\ testing' = FALSE
    /\ UNCHANGED <<stale, manager>>
EndTest ==
    /\ testing' = FALSE
    /\ IF enabled THEN stale' = TRUE /\ manager' = TRUE ELSE UNCHANGED <<stale, manager>>

Release ==
    /\ pc = "release"
    /\ EndTest
    /\ pc' = "idle"
    /\ UNCHANGED <<site, registers, enabled, held, after, test, left, wrote, beat, found,
                   watched, report, runs, faults, sent, history>>

-----------------------------------------------------------------------------
(* What cuts a run short.                                                  *)

Running == pc \notin {"idle", "begin", "restore", "release"} /\ after # "restoring"

\* AbortTest: no frame comes, or one that shows a fault or the grid gone.
Abort ==
    /\ pc \in {"first", "bit", "plan", "landing", "watch", "settle", "bit11"}
    /\ Fault
    /\ outcome' = "aborted" /\ pc' = "restore"
    /\ UNCHANGED <<site, registers, control, after, test, left, wrote, beat, found,
                   watched, verdicts, runs, sent, history>>

\* A write that is cancelled lands all the same when its frame is on its way (a beat that
\* does, the run does not know of).
Lands ==
    \/ UNCHANGED <<registers, sent>>
    \/ /\ \/ pc = "setpoint" /\ setpoint' = [setpoint EXCEPT ![Tests[test].key] = plan.target]
          \/ pc = "zeros" /\ left # <<>> /\ setpoint' = [setpoint EXCEPT ![Head(left)] = 0]
          \/ pc = "originals" /\ left # <<>> /\ setpoint' = Restored(Head(left))
       /\ sent' = TRUE /\ UNCHANGED <<method, saver>>
    \/ /\ \/ pc = "word" /\ method' = Tests[test].method
          \/ pc = "zeros" /\ left = <<>> /\ method' = Default
       /\ saver' = kept /\ UNCHANGED <<setpoint, sent>>

\* async_cancel, at any await of the run but those for a heartbeat to stop, which take
\* it for the end of the heartbeat.
CancelEndsAWrite ==
    /\ Running /\ Fault
    /\ cancelled' = TRUE
    /\ pc' = IF pc = "setpoint" THEN "word" ELSE pc
    /\ Lands
    /\ UNCHANGED <<site, control, after, test, left, wrote, beat, found, watched, report,
                   runs, before, spoiled, cutShort>>
Cancel ==
    /\ Running /\ ~(pc = "originals" /\ left = <<>>)
    /\ Fault
    /\ cancelled' = TRUE
    /\ outcome' = "aborted" /\ pc' = "restore"
    /\ Lands
    /\ UNCHANGED <<site, control, after, test, left, wrote, beat, found, watched,
                   verdicts, runs, before, spoiled, cutShort>>

\* The same during the clean-up, which it ends with what should follow it.
CancelRestoring ==
    /\ after = "restoring" /\ pc \in {"fresh", "zeros", "originals"}
    /\ Fault
    /\ cancelled' = TRUE
    /\ beating' = FALSE /\ wrote' = FALSE
    /\ pc' = "idle"
    /\ spoiled' = TRUE /\ cutShort' = TRUE
    /\ Lands
    /\ UNCHANGED <<site, control, after, test, left, recent, found, watched, report, runs,
                   before>>

Step ==
    \/ Begin \/ First \/ Take \/ SeeBit
    \/ PlanStep \/ SendBeat \/ SendSetpoint \/ SendWord \/ LetItLand \/ Watch
    \/ ReturnBeat \/ WriteZero \/ WriteDefault \/ LetItSettle \/ WriteOriginal
    \/ StopBeating \/ HandedBack \/ Restore \/ Release

Next ==
    \/ ManagerSends
    \/ Windows
    \/ Start
    \/ Step
    \/ Abort
    \/ Cancel
    \/ CancelRestoring

Spec == Init /\ [][Next]_vars

\* Every request is answered or fails, and a frame comes or its wait ends.
FairSpec == Spec /\ WF_vars(Step)

-----------------------------------------------------------------------------
(* What a run promises.                                                    *)

\* Every variable has its type, and the inverter only ever holds a power it was found
\* with, was sent or 0.
TypeOK ==
    /\ follows \in Firmwares /\ flow \in Flows /\ cap \in Caps
    /\ battery \in {"full", "between", "empty"}
    /\ \A k \in KeySet :
         setpoint[k] \in {f[k] : f \in Found} \cup (-MaxPower .. MaxPower)
    /\ method \in Methods \cup {Default}
    /\ {saver, enabled, testing, manager, held, stale, wrote, beating, recent, kept, sent,
        spoiled, cancelled, cutShort} \subseteq BOOLEAN
    /\ after \in {None, "next", "settle", "handing", "restoring"}
    /\ test \in 0 .. Len(Tests) + 1 /\ Len(verdicts) <= Len(Tests)
    /\ \A i \in DOMAIN verdicts : verdicts[i] \in Verdicts
    /\ streak \in 0 .. Damping /\ frames \in 0 .. Settle

\* However a run ends, the manager commands again and its heartbeat is back, with no
\* second heartbeat left beating; unless its very clean-up was cancelled.
ReleasedInTheEnd ==
    pc = "idle" /\ ~cutShort => ~testing /\ ~beating /\ (enabled => manager)

\* Leave the inverter as found, whatever ended the run: whose clean-up had every write of
\* it accepted finds its setpoints and its battery saver again, and no method but the
\* default in force.
LeftAsFound ==
    [][pc # "idle" /\ pc' = "idle" /\ ~spoiled'
       => /\ setpoint' = before.setpoint /\ saver' = before.saver
          /\ method' = IF sent THEN Default ELSE before.method]_vars

\* Once it is asked to stop, a run commands nothing any more: it takes setpoints back to
\* 0 and to what it found, and the method to the default.
CancelIsObeyed ==
    [][cancelled /\ cancelled' /\ pc # "idle"
       => /\ \A k \in KeySet : setpoint'[k] \in {setpoint[k], 0, before.setpoint[k]}
          /\ method' \in {method, Default}]_vars

\* With nothing in the way a verdict says what the firmware does: a method that is
\* ignored is not reported followed, even where the power asked for flowed already, and
\* one that is obeyed is not reported not followed, where the settle time is long enough
\* for as many polls as that takes (at a poll every 30 s it is not).
VerdictsAreEarned ==
    faults = 0 => \A i \in DOMAIN verdicts :
        verdicts[i] \in Decisive =>
            /\ verdicts[i] = "followed" => Tests[i].method \in follows
            /\ Tests[i].method \in follows /\ Damping <= Settle => verdicts[i] = "followed"

\* A run ends, whatever is refused or lost.
RunsEnd == pc # "idle" ~> pc = "idle"
=============================================================================
