-------------------------- MODULE HeartbeatProofs --------------------------
(***************************************************************************)
(* Heartbeat for every value of its constants: the believed lease is       *)
(* always granted, one missed write keeps it, and the whole implements     *)
(* ControlLease.                                                           *)
(***************************************************************************)
EXTENDS Heartbeat, TLAPS

Inv == TypeOK /\ Consistent

(* Every delay the loop may sleep for is a natural number of seconds.      *)
LEMMA DelaysAreNaturals ==
    ASSUME NEW age \in Ages, NEW support \in {"untested", "yes", "no"},
           NEW d \in Delays(age, support)
    PROVE  d \in Nat
BY TimesAreNaturals DEF Delays, Larger, Ages

(* The type and consistency invariants hold at the start.                  *)
LEMMA InitInv == Init => Inv
<1> SUFFICES ASSUME Init PROVE Inv
  OBVIOUS
<1>1. reachable \in BOOLEAN /\ steady \in BOOLEAN
  BY DEF Init
<1>2. Window + 1 \in Ages /\ 0 \in Ages
  BY TimesAreNaturals DEF Ages
<1>3. TypeOK
  <2>1. windowAge \in Ages /\ beatAge \in Ages
    BY <1>2 DEF Init
  <2> QED
    BY <1>1, <2>1, TimesAreNaturals DEF Init, TypeOK
<1>4. Consistent
  BY <1>2, NamesAreDistinct, TimesAreNaturals DEF Init, Consistent, Ages
<1> QED
  BY <1>3, <1>4 DEF Inv

(* Whoever returns from a write leaves loop, rest and asking well typed,   *)
(* and no longer waits.                                                    *)
LEMMA ReturnFacts ==
    ASSUME Inv, NEW p \in Callers \cup {Loop}, Return(p),
           beatAge' \in Ages, supported' \in {"untested", "yes", "no"}
    PROVE  /\ loop' \in {"stopped", "resting", "writing"}
           /\ rest' \in Nat
           /\ asking' \subseteq Callers
           /\ p # Loop => loop' = loop /\ rest' = rest
           /\ p = Loop => /\ loop' = "resting" /\ asking' = asking
                          /\ rest' \in Delays(beatAge', supported')
BY DelaysAreNaturals DEF Return, Inv, TypeOK

(* Every step preserves them.                                              *)
LEMMA NextInv == Inv /\ [Next]_vars => Inv'
<1> SUFFICES ASSUME Inv, [Next]_vars PROVE Inv'
  OBVIOUS
<1> USE NamesAreDistinct, TimesAreNaturals DEF Inv
<1>1. CASE Start
  BY <1>1 DEF Start, TypeOK, Consistent, writing, history
<1>2. CASE Stop
  <2>1. steady' \in BOOLEAN /\ reachable' = reachable
    BY <1>2 DEF Stop
  <2>2. windowAge' \in Ages /\ windowAge' <= windowAge
    BY <1>2 DEF Stop, TypeOK, Ages
  <2>3. TypeOK'
    BY <1>2, <2>1, <2>2 DEF Stop, TypeOK, writing, Unlock
  <2>4. Consistent'
    BY <1>2, <2>2 DEF Stop, TypeOK, Consistent, writing, Unlock, Ages
  <2> QED
    BY <2>3, <2>4
<1>3. CASE Wake
  BY <1>3 DEF Wake, TypeOK, Consistent, writing, history
<1>4. ASSUME NEW c \in Callers, Ask(c) PROVE Inv'
  BY <1>4 DEF Ask, TypeOK, Consistent, writing, history
<1>5. ASSUME NEW p \in Callers \cup {Loop}, Lock(p) PROVE Inv'
  <2>1. CASE beatAge <= Reuse
    <3>1. Return(p) /\ UNCHANGED <<beatAge, windowAge, supported, reachable, history, writing>>
      BY <1>5, <2>1 DEF Lock
    <3>2. beatAge' \in Ages /\ supported' \in {"untested", "yes", "no"}
      BY <3>1 DEF TypeOK
    <3>3. holder = Free
      BY <1>5 DEF Lock
    <3> QED
      BY <3>1, <3>2, <3>3, ReturnFacts DEF TypeOK, Consistent, writing, history
  <2>2. CASE ~(beatAge <= Reuse)
    BY <1>5, <2>2 DEF Lock, Waiting, TypeOK, Consistent, history
  <2> QED
    BY <2>1, <2>2
<1>6. CASE Send
  BY <1>6 DEF Send, TypeOK, Consistent, history
<1>7. CASE GiveUp \/ Succeed \/ Fail \/ Refuse
  <2>1. holder \in Callers \cup {Loop} /\ Return(holder) /\ Unlock
    BY <1>7 DEF GiveUp, Succeed, Fail, Refuse, TypeOK, Consistent
  <2>2. beatAge' \in Ages /\ supported' \in {"untested", "yes", "no"}
    <3>1. Succeed => sentAge \in Ages
      <4>1. Retries * (RetryDelay + Timeout) \in Nat
        OBVIOUS
      <4> QED
        BY <4>1, AMissedWriteFits DEF TypeOK, Ages, WriteTime
    <3> QED
      BY <1>7, <3>1 DEF GiveUp, Succeed, Fail, Refuse, TypeOK
  <2>3. windowAge' = windowAge /\ windowAge <= beatAge'
    BY <1>7 DEF GiveUp, Succeed, Fail, Refuse, TypeOK, Consistent
  <2>4. missed' \in 0 .. 2 /\ steady' \in BOOLEAN /\ reachable' = reachable
    <3>1. reachable' = reachable
      BY <1>7 DEF GiveUp, Succeed, Fail, Refuse
    <3>2. steady' \in BOOLEAN
      <4>1. CASE Succeed
        BY <4>1 DEF Succeed
      <4>2. CASE GiveUp \/ Fail \/ Refuse
        BY <4>2 DEF GiveUp, Fail, Refuse, TypeOK, history
      <4> QED
        BY <1>7, <4>1, <4>2
    <3>3. missed' \in 0 .. 2
      <4>1. missed' \in {missed, 0, IF missed < 2 THEN missed + 1 ELSE 2}
        BY <1>7 DEF GiveUp, Succeed, Fail, Refuse, history
      <4> QED
        BY <4>1 DEF TypeOK
    <3> QED
      BY <3>1, <3>2, <3>3
  <2>5. TypeOK'
    BY <2>1, <2>2, <2>3, <2>4, ReturnFacts DEF TypeOK, Unlock
  <2>6. Consistent'
    BY <2>1, <2>3, ReturnFacts DEF Consistent, Unlock
  <2> QED
    BY <2>5, <2>6
<1>8. CASE Accept
  BY <1>8 DEF Accept, TypeOK, Consistent, history, Ages
<1>9. CASE Retry
  BY <1>9 DEF Retry, TypeOK, Consistent, history
<1>10. CASE LinkDown \/ LinkUp
  BY <1>10 DEF LinkDown, LinkUp, TypeOK, Consistent, writing, history
<1>11. CASE Tick
  <2>1. TypeOK'
    BY <1>11 DEF Tick, Due, TypeOK, history, Older, Ages
  <2>2. Consistent'
    BY <1>11 DEF Tick, Due, TypeOK, Consistent, history, Older, Ages
  <2> QED
    BY <2>1, <2>2
<1>12. CASE UNCHANGED vars
  BY <1>12 DEF vars, writing, history, TypeOK, Consistent
<1> QED
  BY <1>1, <1>2, <1>3, <1>4, <1>5, <1>6, <1>7, <1>8, <1>9, <1>10, <1>11, <1>12 DEF Next

(* Type correctness, and that a writer is where its lock and stage say.    *)
THEOREM SpecInv == Spec => [](TypeOK /\ Consistent)
BY InitInv, NextInv, PTL DEF Spec, Inv

(* The integration is never told that commands act when the inverter has   *)
(* already gone back to its app settings.                                  *)
THEOREM SpecInControlIsGranted == Spec => []InControlIsGranted
<1>1. Inv => InControlIsGranted
  BY TimesAreNaturals DEF Inv, TypeOK, Consistent, Ages, InControlIsGranted, InControl, DeviceObeys
<1> QED
  BY <1>1, SpecInv, PTL DEF Inv
-----------------------------------------------------------------------------
(* The arithmetic of one write: the attempts it has behind it cost no more *)
(* than its whole budget, and one more attempt costs one delay and one     *)
(* request more.                                                           *)
LEMMA AttemptArithmetic ==
    ASSUME NEW n \in 0 .. Retries
    PROVE  /\ n * (RetryDelay + Timeout) \in Nat
           /\ n * (RetryDelay + Timeout) <= Retries * (RetryDelay + Timeout)
           /\ (n + 1) * (RetryDelay + Timeout) = n * (RetryDelay + Timeout) + RetryDelay + Timeout
           /\ n = 0 => n * (RetryDelay + Timeout) = 0
<1>1. RetryDelay + Timeout \in Nat /\ n \in Nat /\ Retries - n \in Nat
  BY TimesAreNaturals
<1>2. \A d \in Nat : /\ n * d \in Nat
                     /\ (n + 1) * d = n * d + d
                     /\ Retries * d = n * d + (Retries - n) * d
                     /\ (Retries - n) * d \in Nat
                     /\ 0 * d = 0
  BY <1>1, TimesAreNaturals
<1> QED
  BY <1>1, <1>2, TimesAreNaturals

(* WriteTime and the bounds built from it are natural numbers.             *)
LEMMA BoundsAreNaturals ==
    /\ WriteTime \in Nat /\ WriteTime = Timeout + Retries * (RetryDelay + Timeout)
    /\ \A m \in 0 .. 2 : Latest(m) \in Nat /\ Interval + Jitter <= Latest(m)
    /\ Latest(0) = Interval + Jitter
    /\ Latest(1) = Interval + Jitter + WriteTime + MinGap + Jitter
<1>1. Retries * (RetryDelay + Timeout) \in Nat
  BY TimesAreNaturals
<1> QED
  BY <1>1, TimesAreNaturals DEF WriteTime, Latest

(* The loop is back at the register within the bound after a write that    *)
(* left its age and its failures as they are here.                         *)
LEMMA DelayBound ==
    ASSUME NEW age \in Ages, NEW support \in {"untested", "yes"},
           NEW d \in Delays(age, support)
    PROVE  age + d <= Larger(age + MinGap, Interval) + Jitter
BY TimesAreNaturals DEF Delays, Larger, Ages

(* The schedule's invariant holds at the start, where nothing is steady.   *)
LEMMA InitOnSchedule == Init => OnSchedule
BY DEF Init, OnSchedule

(* The bound's five parts, with the premise discharged.                    *)
Timely ==
    /\ loop # "stopped" /\ reachable /\ supported # "no"
    /\ loop = "resting" => beatAge + rest <= Latest(missed)
    /\ holder = Free => beatAge <= Latest(missed)
    /\ stage = "pause" =>
          beatAge + pause <= Latest(missed) + attempt * (RetryDelay + Timeout)
    /\ stage \in {"flight", "landed"} =>
          beatAge <= Latest(missed) + attempt * (RetryDelay + Timeout) + sentAge

(* Every step keeps the schedule: what it adds to the age of the last beat *)
(* it takes off what is left of the sleep, the delay or the request.       *)
LEMMA NextOnSchedule == Inv /\ Inv' /\ OnSchedule /\ [Next]_vars => OnSchedule'
<1> SUFFICES ASSUME Inv, Inv', OnSchedule, [Next]_vars, steady', missed' <= 1
             PROVE  Timely'
  BY DEF OnSchedule, Timely
<1> USE TimesAreNaturals, NamesAreDistinct
<1>t. TypeOK /\ Consistent /\ TypeOK' /\ Consistent'
  BY DEF Inv
<1>b. /\ attempt * (RetryDelay + Timeout) \in Nat
      /\ attempt * (RetryDelay + Timeout) <= Retries * (RetryDelay + Timeout)
      /\ (attempt + 1) * (RetryDelay + Timeout)
            = attempt * (RetryDelay + Timeout) + RetryDelay + Timeout
      /\ attempt = 0 => attempt * (RetryDelay + Timeout) = 0
  BY <1>t, AttemptArithmetic DEF TypeOK
<1>s. ASSUME UNCHANGED history PROVE Timely /\ missed' = missed /\ missed <= 1
  BY <1>s DEF OnSchedule, Timely, history
<1>1. CASE Start
  <2>1. Timely /\ missed' = missed
    BY <1>1, <1>s DEF Start
  <2> QED
    BY <1>1, <2>1 DEF Start, Timely
<1>2. CASE Stop
  BY <1>2 DEF Stop
<1>3. CASE Wake
  <2>1. Timely /\ missed' = missed
    BY <1>3, <1>s DEF Wake
  <2> QED
    BY <1>3, <2>1 DEF Wake, Timely, writing
<1>4. ASSUME NEW c \in Callers, Ask(c) PROVE Timely'
  <2>1. Timely /\ missed' = missed
    BY <1>4, <1>s DEF Ask
  <2> QED
    BY <1>4, <2>1 DEF Ask, Timely, writing
<1>5. ASSUME NEW p \in Callers \cup {Loop}, Lock(p) PROVE Timely'
  <2>1. Timely /\ missed' = missed /\ missed \in 0 .. 1
    BY <1>5, <1>s, <1>t DEF Lock, TypeOK
  <2>2. holder = Free /\ stage = "none" /\ attempt = 0 /\ pause = 0
    BY <1>5, <1>t DEF Lock, Consistent
  <2>3. CASE beatAge <= Reuse /\ p = Loop
    <3>1. /\ UNCHANGED <<beatAge, supported, reachable, holder, stage>>
          /\ loop' = "resting" /\ rest' \in Delays(beatAge', supported')
      BY <1>5, <2>3 DEF Lock, Return, writing
    <3>2. beatAge + rest' <= Larger(beatAge + MinGap, Interval) + Jitter
      BY <2>1, <3>1, <1>t, DelayBound DEF Timely, TypeOK
    <3>3. beatAge + rest' <= Latest(missed)
      <4>1. beatAge \in Nat /\ rest' \in Nat
        BY <1>t DEF TypeOK, Ages
      <4>2. Larger(beatAge + MinGap, Interval) = Interval
        BY <4>1, <2>3, AMissedWriteFits DEF Larger
      <4>3. Latest(missed) \in Nat /\ Interval + Jitter <= Latest(missed)
        BY <2>1, BoundsAreNaturals
      <4> QED
        BY <3>2, <4>1, <4>2, <4>3
    <3> QED
      BY <2>1, <2>2, <3>1, <3>3 DEF Timely
  <2>4. CASE beatAge <= Reuse /\ p # Loop
    BY <1>5, <2>1, <2>2, <2>4 DEF Lock, Return, Timely, writing
  <2>5. CASE ~(beatAge <= Reuse)
    BY <1>5, <1>b, <1>t, <2>1, <2>2, <2>5, BoundsAreNaturals DEF Lock, Timely, TypeOK, Ages
  <2> QED
    BY <2>3, <2>4, <2>5
<1>6. CASE Send
  <2>1. Timely /\ missed' = missed
    BY <1>6, <1>s DEF Send
  <2> QED
    BY <1>6, <1>b, <1>t, <2>1, BoundsAreNaturals DEF Send, Timely, TypeOK, Ages, Consistent
<1>7. CASE GiveUp
  <2>1. Timely
    BY <1>7, <1>s DEF GiveUp
  <2> QED
    BY <1>7, <2>1 DEF GiveUp, Timely
<1>8. CASE Accept
  <2>1. Timely /\ missed' = missed
    BY <1>8, <1>s DEF Accept
  <2> QED
    BY <1>8, <2>1 DEF Accept, Timely
<1>9. CASE Succeed
  <2>1. /\ beatAge' = sentAge /\ supported' = "yes" /\ missed' = 0
        /\ holder' = Free /\ stage' = "none"
    BY <1>9 DEF Succeed, Unlock
  <2>2. /\ reachable /\ reachable' = reachable /\ loop' # "stopped"
        /\ loop' = "resting" => sentAge + rest' <= Interval + Jitter
    BY <1>9 DEF Succeed
  <2>3. sentAge <= Interval + Jitter
    BY <1>t, AMissedWriteFits DEF TypeOK
  <2> QED
    BY <2>1, <2>2, <2>3, BoundsAreNaturals DEF Timely
<1>10. CASE Retry
  <2>1. Timely /\ missed' = missed /\ missed \in 0 .. 1
    BY <1>10, <1>s, <1>t DEF Retry, TypeOK
  <2>2. beatAge + RetryDelay
          <= Latest(missed) + attempt * (RetryDelay + Timeout) + RetryDelay + Timeout
    BY <1>10, <1>b, <1>t, <2>1, BoundsAreNaturals DEF Retry, Timely, TypeOK, Ages
  <2> QED
    <3>1. /\ UNCHANGED <<loop, rest, holder, beatAge, supported, reachable>>
          /\ stage' = "pause" /\ pause' = RetryDelay /\ holder # Free
          /\ attempt' * (RetryDelay + Timeout)
               = attempt * (RetryDelay + Timeout) + RetryDelay + Timeout
      BY <1>10, <1>b, <1>t DEF Retry, Consistent
    <3>2. Latest(missed) \in Nat
      BY <2>1, BoundsAreNaturals
    <3>3. beatAge' + pause' <= Latest(missed') + attempt' * (RetryDelay + Timeout)
      <4> DEFINE soFar == attempt * (RetryDelay + Timeout)
                 next  == attempt' * (RetryDelay + Timeout)
      <4>1. soFar \in Nat /\ next = soFar + RetryDelay + Timeout
        BY <1>b, <3>1
      <4>2. beatAge \in Nat /\ beatAge' = beatAge /\ pause' = RetryDelay /\ missed' = missed
        BY <1>t, <2>1, <3>1 DEF TypeOK, Ages
      <4>3. beatAge + RetryDelay <= Latest(missed) + soFar + RetryDelay + Timeout
        BY <2>2
      <4> HIDE DEF soFar, next
      <4>4. beatAge' + pause' <= Latest(missed) + next
        BY <3>2, <4>1, <4>2, <4>3
      <4> QED
        BY <4>2, <4>4 DEF next
    <3> QED
      BY <2>1, <3>1, <3>3 DEF Timely
<1>11. CASE Fail
  <2>1. steady /\ missed = 0 /\ missed' = 1
    BY <1>11, <1>t DEF Fail, TypeOK
  <2>2. Timely
    BY <2>1 DEF OnSchedule, Timely
  <2>3. beatAge <= Interval + Jitter + WriteTime
    BY <1>11, <1>b, <1>t, <2>1, <2>2, BoundsAreNaturals DEF Fail, Timely, TypeOK, Ages
  <2>4. /\ UNCHANGED <<beatAge, reachable, supported>> /\ Return(holder)
        /\ holder' = Free /\ stage' = "none"
    BY <1>11 DEF Fail, Unlock
  <2>5. CASE holder = Loop
    <3>1. loop' = "resting" /\ rest' \in Delays(beatAge', supported')
      BY <2>4, <2>5 DEF Return
    <3>2. beatAge + rest' <= Larger(beatAge + MinGap, Interval) + Jitter
      BY <2>2, <2>4, <3>1, <1>t, DelayBound DEF Timely, TypeOK
    <3>3. beatAge + rest' <= Latest(1)
      <4>1. beatAge \in Nat /\ rest' \in Nat
        BY <1>t DEF TypeOK, Ages
      <4>2. Larger(beatAge + MinGap, Interval) <= Interval + Jitter + WriteTime + MinGap
        BY <2>3, <4>1, BoundsAreNaturals DEF Larger
      <4>3. Larger(beatAge + MinGap, Interval) \in Nat
        BY <4>1 DEF Larger
      <4> QED
        BY <3>2, <4>1, <4>2, <4>3, BoundsAreNaturals
    <3> QED
      BY <2>1, <2>2, <2>3, <2>4, <3>1, <3>3, <1>t, BoundsAreNaturals DEF Timely, TypeOK, Ages
  <2>6. CASE holder # Loop
    <3>1. UNCHANGED <<loop, rest>>
      BY <2>4, <2>6 DEF Return
    <3> QED
      BY <2>1, <2>2, <2>3, <2>4, <3>1, <1>t, BoundsAreNaturals DEF Timely, TypeOK, Ages
  <2> QED
    BY <2>5, <2>6
<1>12. CASE Refuse \/ LinkDown
  BY <1>12 DEF Refuse, LinkDown
<1>13. CASE LinkUp
  <2>1. Timely
    BY <1>13, <1>s DEF LinkUp
  <2> QED
    BY <1>13, <2>1 DEF LinkUp, Timely
<1>14. CASE Tick
  <2>1. Timely /\ missed' = missed /\ missed \in 0 .. 1
    BY <1>14, <1>s, <1>t DEF Tick, TypeOK
  <2>2. beatAge' <= beatAge + 1
    BY <1>14, <1>t DEF Tick, Older, TypeOK, Ages
  <2>3. UNCHANGED <<loop, holder, stage, attempt, supported, reachable>>
    BY <1>14 DEF Tick
  <2>4. loop = "resting" => beatAge' + rest' <= Latest(missed)
    BY <1>14, <1>t, <2>1, <2>2, BoundsAreNaturals DEF Tick, Due, Timely, TypeOK, Ages
  <2>5. holder = Free => loop = "resting"
    BY <1>14, <1>t, <2>1 DEF Tick, Due, Waiting, Timely, TypeOK
  <2>6. holder = Free => beatAge' <= Latest(missed)
    BY <1>t, <2>1, <2>4, <2>5, BoundsAreNaturals DEF TypeOK, Ages
  <2>7. stage = "pause" => beatAge' + pause' <= Latest(missed) + attempt * (RetryDelay + Timeout)
    BY <1>14, <1>b, <1>t, <2>1, <2>2, BoundsAreNaturals DEF Tick, Due, Timely, TypeOK, Ages
  <2>8. stage \in {"flight", "landed"} =>
          beatAge' <= Latest(missed) + attempt * (RetryDelay + Timeout) + sentAge'
    BY <1>14, <1>b, <1>t, <2>1, <2>2, BoundsAreNaturals DEF Tick, Timely, TypeOK, Ages
  <2> QED
    BY <2>1, <2>3, <2>4, <2>6, <2>7, <2>8 DEF Timely
<1>15. CASE UNCHANGED vars
  <2>1. Timely /\ missed' = missed
    BY <1>15, <1>s DEF vars
  <2> QED
    BY <1>15, <2>1 DEF vars, writing, Timely
<1> QED
  BY <1>1, <1>2, <1>3, <1>4, <1>5, <1>6, <1>7, <1>8, <1>9, <1>10, <1>11, <1>12, <1>13,
     <1>14, <1>15 DEF Next

(* The schedule the loop keeps, for every value of the constants that fits *)
(* a missed write into the window.                                         *)
THEOREM SpecOnSchedule == Spec => []OnSchedule
BY InitOnSchedule, NextOnSchedule, SpecInv, PTL DEF Spec, Inv

(* A whole write that fails, with all its attempts, does not cost control: *)
(* the inverter is still ours when the next write goes out and while its   *)
(* first attempt is under way.                                             *)
THEOREM SpecAMissedWriteKeepsControl == Spec => []AMissedWriteKeepsControl
<1>1. ASSUME TypeOK, Consistent, OnSchedule PROVE AMissedWriteKeepsControl
  <2> SUFFICES ASSUME steady, missed = 0 \/ (missed = 1 /\ attempt = 0) PROVE InControl
    BY DEF AMissedWriteKeepsControl
  <2> USE TimesAreNaturals
  <2>1. Timely
    BY <1>1 DEF OnSchedule, Timely
  <2>2. /\ attempt * (RetryDelay + Timeout) \in Nat
        /\ attempt * (RetryDelay + Timeout) <= Retries * (RetryDelay + Timeout)
        /\ attempt = 0 => attempt * (RetryDelay + Timeout) = 0
    BY <1>1, AttemptArithmetic DEF TypeOK
  <2>3. beatAge <= Latest(missed) + attempt * (RetryDelay + Timeout) + Timeout
    BY <1>1, <2>1, <2>2, BoundsAreNaturals DEF Timely, TypeOK, Consistent, Ages
  <2> QED
    BY <1>1, <2>2, <2>3, BoundsAreNaturals, AMissedWriteFits DEF InControl, TypeOK, Ages
<1> QED
  BY <1>1, SpecInv, SpecOnSchedule, PTL

-----------------------------------------------------------------------------
(* A step maps to a step of the lease or changes neither side of it.       *)
LEMMA StepRefines == Inv /\ Inv' /\ [Next]_vars => [Lease!Next]_(Lease!lease)
<1> SUFFICES ASSUME Inv, Inv', [Next]_vars PROVE [Lease!Next]_(Lease!lease)
  OBVIOUS
<1> USE TimesAreNaturals
<1>t. TypeOK /\ Consistent /\ TypeOK' /\ Consistent'
  BY DEF Inv
<1>1. CASE UNCHANGED beatAge /\ windowAge' \in {windowAge, 0}
  <2>1. CASE windowAge' = windowAge
    BY <1>1, <2>1 DEF Lease!lease, InControl, DeviceObeys
  <2>2. CASE windowAge' = 0
    <3>1. DeviceObeys' = TRUE /\ InControl' = InControl
      BY <1>1, <2>2 DEF DeviceObeys, InControl
    <3> QED
      BY <3>1 DEF Lease!Next, Lease!Grant
  <2> QED
    BY <1>1, <2>1, <2>2
<1>2. CASE Succeed
  <2>1. windowAge' = windowAge /\ windowAge <= sentAge /\ beatAge' = sentAge
    BY <1>2, <1>t DEF Succeed, Consistent
  <2>2. sentAge <= Window
    <3>1. WriteTime \in Nat
      BY BoundsAreNaturals
    <3> QED
      BY <1>t, <3>1, AMissedWriteFits DEF TypeOK
  <2>3. DeviceObeys /\ InControl' = TRUE /\ DeviceObeys' = DeviceObeys
    BY <2>1, <2>2, <1>t DEF DeviceObeys, InControl, TypeOK, Ages
  <2> QED
    BY <2>3 DEF Lease!Next, Lease!Learn
<1>3. CASE Tick
  <2>1. beatAge' = Older(beatAge) /\ windowAge' = Older(windowAge)
    BY <1>3 DEF Tick
  <2>2. CASE InControl'
    <3>1. InControl = InControl' /\ DeviceObeys' = DeviceObeys
      BY <1>t, <2>1, <2>2 DEF Older, InControl, DeviceObeys, TypeOK, Consistent, Ages
    <3> QED
      BY <3>1 DEF Lease!lease
  <2>3. CASE ~InControl'
    <3>1. InControl' = FALSE
      BY <2>3 DEF InControl
    <3>2. DeviceObeys' \in {DeviceObeys, FALSE}
      <4>1. ~DeviceObeys => ~DeviceObeys'
        BY <1>t, <2>1 DEF Older, DeviceObeys, TypeOK, Ages
      <4>2. DeviceObeys \in BOOLEAN /\ DeviceObeys' \in BOOLEAN
        BY DEF DeviceObeys
      <4> QED
        BY <4>1, <4>2
    <3> QED
      BY <3>1, <3>2 DEF Lease!Next, Lease!Lapse
  <2> QED
    BY <2>2, <2>3
<1>4. CASE ~Succeed /\ ~Tick
  <2>1. UNCHANGED beatAge /\ windowAge' \in {windowAge, 0}
    BY <1>4 DEF Next, vars, writing, history, Start, Stop, Wake, Ask, Lock, Send, GiveUp,
                Accept, Retry, Fail, Refuse, LinkDown, LinkUp
  <2> QED
    BY <1>1, <2>1
<1> QED
  BY <1>2, <1>3, <1>4

(* The heartbeat keeps the lease's promise: authority is believed only     *)
(* after a grant and given up no later than the grant runs out.            *)
THEOREM SpecImplementsLease == Spec => ImplementsLease
<1>1. Init => Lease!Init
  BY TimesAreNaturals DEF Init, Lease!Init, InControl, DeviceObeys
<1> QED
  BY <1>1, StepRefines, SpecInv, PTL DEF Spec, Lease!Spec, ImplementsLease, Inv
=============================================================================
