------------------------- MODULE ControlTestProofs -------------------------
(***************************************************************************)
(* What a run of the control test promises of the inverter, for any tests, *)
(* setpoints and firmware, and any number of runs, failures and            *)
(* cancellations: it hands control back, it commands nothing once it is    *)
(* cancelled, and it leaves the inverter as it found it.                   *)
(***************************************************************************)
EXTENDS ControlTest, WellFoundedInduction, TLAPS

\* The awaits of a run after it has read what there is to put back.
Acts == {"take", "bit", "plan", "beat", "setpoint", "word", "landing", "watch", "settle",
         "fresh", "zeros", "originals", "bit11"}
Ends == {"restore", "release"}

Shape ==
    /\ pc \in {"idle", "begin", "first"} \cup Acts \cup Ends
    /\ enabled \in BOOLEAN /\ testing \in BOOLEAN /\ manager \in BOOLEAN
    /\ wrote \in BOOLEAN /\ beating \in BOOLEAN /\ sent \in BOOLEAN
    /\ spoiled \in BOOLEAN /\ cancelled \in BOOLEAN /\ cutShort \in BOOLEAN
    /\ setpoint = [k \in KeySet |-> setpoint[k]]
    /\ left \in Seq(KeySet)

\* While a run goes on the manager is out of the way, and what the run will put back is
\* what was there when it began.
Remembers ==
    /\ pc # "idle" => testing /\ saver = before.saver
    /\ pc \in {"begin", "first"} => ~wrote /\ ~sent
    /\ pc = "release" => ~wrote
    /\ pc \in Acts => wrote
    /\ wrote => /\ pc # "idle" /\ kept = before.saver
                /\ originals = before.setpoint /\ originals = [k \in KeySet |-> originals[k]]
    /\ pc # "idle" /\ ~sent => setpoint = before.setpoint /\ method = before.method
    /\ pc = "zeros" => sent \/ left = Keys
    /\ pc \in {"word", "originals", "bit11"} => sent

\* A cancelled run is on its way back.
Obeys ==
    cancelled /\ pc # "idle" =>
        pc \in Ends \/ (after = "restoring" /\ pc \in {"fresh", "zeros", "originals"})

Still(k) == \E i \in DOMAIN left : left[i] = k

AsFound == setpoint = before.setpoint /\ method = IF sent THEN Default ELSE before.method

\* How far a clean-up has come whose writes have been accepted so far.
Cleans ==
    /\ pc = "originals" => CleaningUp
    /\ ~spoiled =>
        /\ pc = "zeros" /\ CleaningUp => \A k \in KeySet : setpoint[k] = 0 \/ Still(k)
        /\ pc = "originals" =>
              /\ method = Default
              /\ \A k \in KeySet : setpoint[k] = originals[k] \/ (setpoint[k] = 0 /\ Still(k))
        /\ pc \in {"bit11", "release"} \/ (pc = "restore" /\ ~wrote) => AsFound

\* Whoever lets go has stopped its heartbeat.
Releases ==
    /\ pc = "release" => ~beating
    /\ ReleasedInTheEnd

IInv == Shape /\ Remembers /\ Obeys /\ Cleans /\ Releases

-----------------------------------------------------------------------------
LEMMA InitIInv == Init => IInv
<1> SUFFICES ASSUME Init PROVE IInv
  OBVIOUS
<1>1. setpoint \in [KeySet -> Int]
  BY TestsAreKnown DEF Init
<1>2. Shape
  <2>1. setpoint = [k \in KeySet |-> setpoint[k]]
    BY <1>1
  <2>2. left \in Seq(KeySet)
    BY DEF Init
  <2>3. pc = "idle"
    BY DEF Init
  <2>4. /\ enabled \in BOOLEAN /\ testing \in BOOLEAN /\ manager \in BOOLEAN
        /\ wrote \in BOOLEAN /\ beating \in BOOLEAN /\ sent \in BOOLEAN
        /\ spoiled \in BOOLEAN /\ cancelled \in BOOLEAN /\ cutShort \in BOOLEAN
    BY Zenon DEF Init
  <2> QED
    BY <2>1, <2>2, <2>3, <2>4 DEF Shape
<1>3. Remembers /\ Obeys /\ Cleans /\ Releases
  BY DEF Init, Remembers, Obeys, Cleans, Releases, ReleasedInTheEnd, Acts, Ends
<1> QED
  BY <1>2, <1>3 DEF IInv

\* What is left to write loses only its head.
LEMMA TailKeeps ==
    ASSUME NEW s \in Seq(KeySet), s # <<>>
    PROVE  /\ Tail(s) \in Seq(KeySet) /\ Head(s) \in KeySet
           /\ \A k : (\E i \in DOMAIN s : s[i] = k)
                 => k = Head(s) \/ \E i \in DOMAIN Tail(s) : Tail(s)[i] = k
<1>1. Tail(s) \in Seq(KeySet) /\ Head(s) \in KeySet /\ Head(s) = s[1]
  OBVIOUS
<1>2. ASSUME NEW k, NEW i \in DOMAIN s, s[i] = k, k # Head(s)
      PROVE  \E j \in DOMAIN Tail(s) : Tail(s)[j] = k
  <2>1. i \in 2 .. Len(s)
    BY <1>1, <1>2
  <2>2. i - 1 \in DOMAIN Tail(s) /\ Tail(s)[i - 1] = s[i]
    BY <2>1
  <2> QED
    BY <1>2, <2>2
<1> QED
  BY <1>1, <1>2

LEMMA KeysAreListed ==
    /\ Keys \in Seq(KeySet) /\ Keys # <<>>
    /\ \A k \in KeySet : \E i \in DOMAIN Keys : Keys[i] = k
BY TestsAreKnown DEF KeySet

\* What a cancelled write leaves behind is what was sent, and of that only setpoints.
LEMMA LandsIsShaped ==
    ASSUME Shape, Lands
    PROVE  setpoint' = [k \in KeySet |-> setpoint'[k]] /\ sent' \in BOOLEAN
<1>1. setpoint = [k \in KeySet |-> setpoint[k]] /\ sent \in BOOLEAN
  BY DEF Shape
<1>2. \A key, value : LET changed == [setpoint EXCEPT ![key] = value]
                     IN  changed = [k \in KeySet |-> changed[k]]
  BY <1>1
<1>3. setpoint' = setpoint \/ \E key, value : setpoint' = [setpoint EXCEPT ![key] = value]
  BY DEF Lands, Restored, registers
<1> QED
  BY <1>1, <1>2, <1>3 DEF Lands

\* Every variable keeps its shape.
LEMMA ShapeKept == IInv /\ [Next]_vars => Shape'
<1> SUFFICES ASSUME IInv, [Next]_vars PROVE Shape'
  OBVIOUS
<1> USE DEF IInv, Shape, Acts, Ends, site, registers, control, beat, found, watched, report, history, vars
<1>1. CASE ManagerSends
  BY <1>1 DEF ManagerSends
<1>2. CASE Windows
  BY <1>2 DEF Windows
<1>3. CASE Start
  BY <1>3 DEF Start
<1>4. CASE Begin
  BY <1>4 DEF Begin
<1>5. CASE First
  BY <1>5 DEF First
<1>6. CASE Take
  BY <1>6 DEF Take
<1>7. CASE SeeBit
  BY <1>7 DEF SeeBit
<1>8. CASE PlanStep
  BY <1>8 DEF PlanStep, GoOn
<1>9. CASE SendBeat
  BY <1>9 DEF SendBeat, Refreshes
<1>10. CASE SendSetpoint
  BY <1>10 DEF SendSetpoint, Refused
<1>11. CASE SendWord
  BY <1>11 DEF SendWord, Refused
<1>12. CASE LetItLand
  BY <1>12 DEF LetItLand
<1>13. CASE Watch
  BY <1>13 DEF Watch
<1>14. CASE ReturnBeat
  BY <1>14, KeysAreListed DEF ReturnBeat, Refreshes
<1>15. CASE WriteZero
  BY <1>15, TailKeeps DEF WriteZero
<1>16. CASE WriteDefault
  <2>1. left' \in Seq(KeySet)
    BY <1>16, KeysAreListed DEF WriteDefault
  <2>2. pc' \in {"plan", "fresh", "settle", "originals"}
    BY <1>16 DEF WriteDefault, GoOn
  <2>3. spoiled' \in BOOLEAN
    BY <1>16 DEF WriteDefault
  <2> QED
    BY <1>16, <2>1, <2>2, <2>3 DEF WriteDefault
<1>17. CASE LetItSettle
  BY <1>17 DEF LetItSettle, GoOn
<1>18. CASE WriteOriginal
  <2>1. left' \in Seq(KeySet)
    BY <1>18, TailKeeps DEF WriteOriginal
  <2>2. setpoint' = [k \in KeySet |-> setpoint'[k]]
    BY <1>18 DEF WriteOriginal, Restored
  <2> QED
    BY <1>18, <2>1, <2>2 DEF WriteOriginal
<1>19. CASE StopBeating
  BY <1>19 DEF StopBeating
<1>20. CASE HandedBack
  BY <1>20 DEF HandedBack
<1>21. CASE Restore
  BY <1>21 DEF Restore
<1>22. CASE Release
  BY <1>22 DEF Release, EndTest
<1>23. CASE Abort
  BY <1>23 DEF Abort
<1>24. CASE Cancel
  BY <1>24, LandsIsShaped DEF Cancel, Running
<1>25. CASE CancelRestoring
  BY <1>25, LandsIsShaped DEF CancelRestoring
<1>26. CASE UNCHANGED vars
  BY <1>26
<1> QED
  BY <1>1, <1>2, <1>3, <1>4, <1>5, <1>6, <1>7, <1>8, <1>9, <1>10, <1>11, <1>12, <1>13, <1>14, <1>15, <1>16, <1>17, <1>18, <1>19, <1>20, <1>21, <1>22, <1>23, <1>24, <1>25, <1>26 DEF Next, Step

\* A run knows what it has to put back.
LEMMA RemembersKept == IInv /\ [Next]_vars => Remembers'
<1> SUFFICES ASSUME IInv, [Next]_vars PROVE Remembers'
  OBVIOUS
<1> USE DEF IInv, Shape, Remembers, Acts, Ends, site, registers, control, beat, found, watched, report, history, vars
<1>1. CASE ManagerSends
  BY <1>1 DEF ManagerSends
<1>2. CASE Windows
  BY <1>2 DEF Windows
<1>3. CASE Start
  BY <1>3 DEF Start
<1>4. CASE Begin
  BY <1>4 DEF Begin
<1>5. CASE First
  BY <1>5 DEF First
<1>6. CASE Take
  BY <1>6 DEF Take
<1>7. CASE SeeBit
  BY <1>7 DEF SeeBit
<1>8. CASE PlanStep
  BY <1>8 DEF PlanStep, GoOn
<1>9. CASE SendBeat
  BY <1>9 DEF SendBeat, Refreshes
<1>10. CASE SendSetpoint
  BY <1>10 DEF SendSetpoint, Refused
<1>11. CASE SendWord
  BY <1>11 DEF SendWord, Refused
<1>12. CASE LetItLand
  BY <1>12 DEF LetItLand
<1>13. CASE Watch
  BY <1>13 DEF Watch
<1>14. CASE ReturnBeat
  BY <1>14 DEF ReturnBeat, Refreshes
<1>15. CASE WriteZero
  BY <1>15 DEF WriteZero
<1>16. CASE WriteDefault
  BY <1>16, KeysAreListed DEF WriteDefault, GoOn
<1>17. CASE LetItSettle
  BY <1>17 DEF LetItSettle, GoOn
<1>18. CASE WriteOriginal
  BY <1>18 DEF WriteOriginal
<1>19. CASE StopBeating
  BY <1>19 DEF StopBeating
<1>20. CASE HandedBack
  BY <1>20 DEF HandedBack
<1>21. CASE Restore
  BY <1>21 DEF Restore
<1>22. CASE Release
  BY <1>22 DEF Release, EndTest
<1>23. CASE Abort
  BY <1>23 DEF Abort
<1>24. CASE Cancel
  <2>1. /\ pc \in Acts \cup {"first"} /\ Lands /\ pc' = "restore"
        /\ UNCHANGED <<testing, wrote, found, before>>
    BY <1>24 DEF Cancel, Running
  <2>2. saver' = before'.saver
    BY <2>1 DEF Lands
  <2>3. ~sent' => ~sent /\ UNCHANGED <<setpoint, method>>
    <3>1. pc \in {"word", "originals"} => sent
      OBVIOUS
    <3>2. pc = "zeros" /\ left = <<>> => sent
      BY KeysAreListed
    <3> QED
      BY <2>1, <3>1, <3>2 DEF Lands
  <2> QED
    BY <2>1, <2>2, <2>3
<1>25. CASE CancelRestoring
  BY <1>25 DEF CancelRestoring, Lands
<1>26. CASE UNCHANGED vars
  BY <1>26
<1> QED
  BY <1>1, <1>2, <1>3, <1>4, <1>5, <1>6, <1>7, <1>8, <1>9, <1>10, <1>11, <1>12, <1>13, <1>14, <1>15, <1>16, <1>17, <1>18, <1>19, <1>20, <1>21, <1>22, <1>23, <1>24, <1>25, <1>26 DEF Next, Step

\* A cancelled run stays on its way back.
LEMMA ObeysKept == IInv /\ [Next]_vars => Obeys'
<1> SUFFICES ASSUME IInv, [Next]_vars PROVE Obeys'
  OBVIOUS
<1> USE DEF IInv, Shape, Obeys, Acts, Ends, site, registers, control, beat, found, watched, report, history, vars
<1>1. CASE ManagerSends
  BY <1>1 DEF ManagerSends
<1>2. CASE Windows
  BY <1>2 DEF Windows
<1>3. CASE Start
  BY <1>3 DEF Start
<1>4. CASE Begin
  BY <1>4 DEF Begin
<1>5. CASE First
  BY <1>5 DEF First
<1>6. CASE Take
  BY <1>6 DEF Take
<1>7. CASE SeeBit
  BY <1>7 DEF SeeBit
<1>8. CASE PlanStep
  BY <1>8 DEF PlanStep, GoOn
<1>9. CASE SendBeat
  BY <1>9 DEF SendBeat, Refreshes
<1>10. CASE SendSetpoint
  BY <1>10 DEF SendSetpoint, Refused
<1>11. CASE SendWord
  BY <1>11 DEF SendWord, Refused
<1>12. CASE LetItLand
  BY <1>12 DEF LetItLand
<1>13. CASE Watch
  BY <1>13 DEF Watch
<1>14. CASE ReturnBeat
  BY <1>14 DEF ReturnBeat, Refreshes
<1>15. CASE WriteZero
  BY <1>15 DEF WriteZero
<1>16. CASE WriteDefault
  BY <1>16 DEF WriteDefault, GoOn
<1>17. CASE LetItSettle
  BY <1>17 DEF LetItSettle, GoOn
<1>18. CASE WriteOriginal
  BY <1>18 DEF WriteOriginal
<1>19. CASE StopBeating
  BY <1>19 DEF StopBeating
<1>20. CASE HandedBack
  BY <1>20 DEF HandedBack
<1>21. CASE Restore
  BY <1>21 DEF Restore
<1>22. CASE Release
  BY <1>22 DEF Release, EndTest
<1>23. CASE Abort
  BY <1>23 DEF Abort
<1>24. CASE Cancel
  BY <1>24 DEF Cancel, Lands, Running
<1>25. CASE CancelRestoring
  BY <1>25 DEF CancelRestoring, Lands
<1>26. CASE UNCHANGED vars
  BY <1>26
<1> QED
  BY <1>1, <1>2, <1>3, <1>4, <1>5, <1>6, <1>7, <1>8, <1>9, <1>10, <1>11, <1>12, <1>13, <1>14, <1>15, <1>16, <1>17, <1>18, <1>19, <1>20, <1>21, <1>22, <1>23, <1>24, <1>25, <1>26 DEF Next, Step

\* Only a run that stopped its heartbeat ends, and it restarts the manager's.
LEMMA ReleasesKept == IInv /\ [Next]_vars => Releases'
<1> SUFFICES ASSUME IInv, [Next]_vars PROVE Releases'
  OBVIOUS
<1> USE DEF IInv, Shape, Releases, ReleasedInTheEnd, Acts, Ends, site, registers, control, beat, found, watched, report, history, vars
<1>1. CASE ManagerSends
  BY <1>1 DEF ManagerSends
<1>2. CASE Windows
  BY <1>2 DEF Windows
<1>3. CASE Start
  BY <1>3 DEF Start
<1>4. CASE Begin
  BY <1>4 DEF Begin
<1>5. CASE First
  BY <1>5 DEF First
<1>6. CASE Take
  BY <1>6 DEF Take
<1>7. CASE SeeBit
  BY <1>7 DEF SeeBit
<1>8. CASE PlanStep
  BY <1>8 DEF PlanStep, GoOn
<1>9. CASE SendBeat
  BY <1>9 DEF SendBeat, Refreshes
<1>10. CASE SendSetpoint
  BY <1>10 DEF SendSetpoint, Refused
<1>11. CASE SendWord
  BY <1>11 DEF SendWord, Refused
<1>12. CASE LetItLand
  BY <1>12 DEF LetItLand
<1>13. CASE Watch
  BY <1>13 DEF Watch
<1>14. CASE ReturnBeat
  BY <1>14 DEF ReturnBeat, Refreshes
<1>15. CASE WriteZero
  BY <1>15 DEF WriteZero
<1>16. CASE WriteDefault
  BY <1>16 DEF WriteDefault, GoOn
<1>17. CASE LetItSettle
  BY <1>17 DEF LetItSettle, GoOn
<1>18. CASE WriteOriginal
  BY <1>18 DEF WriteOriginal
<1>19. CASE StopBeating
  BY <1>19 DEF StopBeating
<1>20. CASE HandedBack
  BY <1>20 DEF HandedBack
<1>21. CASE Restore
  BY <1>21 DEF Restore
<1>22. CASE Release
  BY <1>22 DEF Release, EndTest
<1>23. CASE Abort
  BY <1>23 DEF Abort
<1>24. CASE Cancel
  BY <1>24 DEF Cancel, Lands, Running
<1>25. CASE CancelRestoring
  BY <1>25 DEF CancelRestoring, Lands
<1>26. CASE UNCHANGED vars
  BY <1>26
<1> QED
  BY <1>1, <1>2, <1>3, <1>4, <1>5, <1>6, <1>7, <1>8, <1>9, <1>10, <1>11, <1>12, <1>13, <1>14, <1>15, <1>16, <1>17, <1>18, <1>19, <1>20, <1>21, <1>22, <1>23, <1>24, <1>25, <1>26 DEF Next, Step

\* A clean-up gets on: first every setpoint to 0, then to what was found.
LEMMA CleansKept == IInv /\ [Next]_vars => Cleans'
<1> SUFFICES ASSUME IInv, [Next]_vars PROVE Cleans'
  OBVIOUS
<1> USE DEF IInv, Shape, Remembers, Cleans, AsFound, CleaningUp, Acts, Ends, site, registers, control, beat, found, watched, report, history, vars
<1>1. CASE ManagerSends
  <2>1. pc = "idle" /\ pc' = "idle"
    BY <1>1 DEF ManagerSends
  <2>2. pc' # "zeros" /\ pc' # "originals" /\ pc' # "bit11" /\ pc' # "release" /\ pc' # "restore"
    BY <2>1
  <2> HIDE DEF IInv, Shape, Remembers, AsFound, CleaningUp
  <2> QED
    BY <2>2 DEF Cleans
<1>2. CASE Windows
  <2>1. UNCHANGED <<registers, pc, after, left, wrote, originals, before, sent, spoiled>>
    BY <1>2 DEF Windows
  <2>2. \A k : Still(k)' = Still(k)
    BY <2>1 DEF Still
  <2> QED
    BY <2>1, <2>2
<1>3. CASE Start
  BY <1>3 DEF Start
<1>4. CASE Begin
  BY <1>4 DEF Begin
<1>5. CASE First
  BY <1>5 DEF First
<1>6. CASE Take
  BY <1>6 DEF Take
<1>7. CASE SeeBit
  BY <1>7 DEF SeeBit
<1>8. CASE PlanStep
  BY <1>8 DEF PlanStep, GoOn
<1>9. CASE SendBeat
  BY <1>9 DEF SendBeat, Refreshes
<1>10. CASE SendSetpoint
  BY <1>10 DEF SendSetpoint, Refused
<1>11. CASE SendWord
  BY <1>11 DEF SendWord, Refused
<1>12. CASE LetItLand
  BY <1>12 DEF LetItLand
<1>13. CASE Watch
  BY <1>13 DEF Watch
<1>14. CASE ReturnBeat
  <2>1. pc' = "zeros" /\ left' = Keys
    BY <1>14 DEF ReturnBeat
  <2>2. \A k \in KeySet : Still(k)'
    BY <2>1, KeysAreListed DEF Still
  <2> QED
    BY <2>1, <2>2
<1>15. CASE WriteZero
  <2>1. pc' = "zeros" /\ after' = after /\ pc = "zeros"
    BY <1>15 DEF WriteZero
  <2>2. ASSUME ~spoiled', CleaningUp, NEW k \in KeySet
        PROVE  setpoint'[k] = 0 \/ Still(k)'
    <3>1. setpoint' = [setpoint EXCEPT ![Head(left)] = 0] /\ ~spoiled /\ left # <<>>
      BY <1>15, <2>2 DEF WriteZero
    <3>2. setpoint[k] = 0 \/ Still(k)
      BY <1>15, <2>2, <3>1 DEF WriteZero
    <3>3. k = Head(left) => setpoint'[k] = 0
      BY <3>1
    <3>4. setpoint[k] = 0 => setpoint'[k] = 0
      BY <3>1
    <3>5. Still(k) => k = Head(left) \/ Still(k)'
      BY <1>15, <3>1, TailKeeps DEF Still, WriteZero
    <3> QED
      BY <3>2, <3>3, <3>4, <3>5
  <2> QED
    BY <2>1, <2>2
<1>16. CASE WriteDefault
  <2>1. CASE ~CleaningUp
    BY <1>16, <2>1 DEF WriteDefault, GoOn
  <2>2. CASE CleaningUp
    <3>1. pc' = "originals" /\ after' = after /\ left' = Keys /\ setpoint' = setpoint /\ left = <<>>
      BY <1>16, <2>2 DEF WriteDefault
    <3>2. ~spoiled' => method' = Default /\ ~spoiled
      BY <1>16 DEF WriteDefault
    <3>3. \A k \in KeySet : Still(k)'
      BY <3>1, KeysAreListed DEF Still
    <3>4. \A k \in KeySet : ~Still(k)
      BY <3>1 DEF Still
    <3>5. ~spoiled' => \A k \in KeySet : setpoint'[k] = 0
      BY <1>16, <2>2, <3>1, <3>2, <3>4 DEF WriteDefault
    <3> QED
      BY <2>2, <3>1, <3>2, <3>3, <3>5
  <2> QED
    BY <2>1, <2>2
<1>17. CASE LetItSettle
  BY <1>17 DEF LetItSettle, GoOn
<1>18. CASE WriteOriginal
  <2>1. pc' = "originals" /\ after' = after /\ pc = "originals" /\ left # <<>>
    BY <1>18 DEF WriteOriginal
  <2>2. ASSUME ~spoiled', NEW k \in KeySet
        PROVE  setpoint'[k] = originals'[k] \/ (setpoint'[k] = 0 /\ Still(k)')
    <3>1. setpoint' = Restored(Head(left)) /\ ~spoiled /\ originals' = originals
      BY <1>18, <2>2 DEF WriteOriginal
    <3>2. setpoint[k] = originals[k] \/ (setpoint[k] = 0 /\ Still(k))
      BY <1>18, <2>2, <3>1 DEF WriteOriginal
    <3>3. Still(k) => k = Head(left) \/ Still(k)'
      BY <1>18, TailKeeps DEF Still, WriteOriginal
    <3>4. k # Head(left) => setpoint'[k] = setpoint[k]
      BY <3>1 DEF Restored
    <3>5. k = Head(left) => setpoint'[k] = (IF originals[k] # 0 THEN originals[k] ELSE setpoint[k])
      BY <3>1 DEF Restored
    <3> QED
      BY <3>1, <3>2, <3>3, <3>4, <3>5
  <2>3. ~spoiled' => method' = Default
    BY <1>18 DEF WriteOriginal
  <2> QED
    BY <2>1, <2>2, <2>3
<1>19. CASE StopBeating
  <2>1. pc = "originals" /\ left = <<>> /\ pc' \in {"bit11", "release"}
    BY <1>19 DEF StopBeating
  <2>2. \A k \in KeySet : ~Still(k)
    BY <2>1 DEF Still
  <2>3. originals = before.setpoint /\ sent
    BY <2>1
  <2>4. ~spoiled => method = Default /\ \A k \in KeySet : setpoint[k] = originals[k]
    BY <2>1, <2>2
  <2>5. originals = [k \in KeySet |-> originals[k]]
    BY <2>1
  <2>6. ~spoiled => AsFound
    BY <2>3, <2>4, <2>5
  <2> QED
    BY <1>19, <2>1, <2>6 DEF StopBeating
<1>20. CASE HandedBack
  BY <1>20 DEF HandedBack
<1>21. CASE Restore
  BY <1>21 DEF Restore
<1>22. CASE Release
  BY <1>22 DEF Release, EndTest
<1>23. CASE Abort
  BY <1>23 DEF Abort
<1>24. CASE Cancel
  BY <1>24 DEF Cancel, Lands, Running
<1>25. CASE CancelRestoring
  BY <1>25 DEF CancelRestoring, Lands
<1>26. CASE UNCHANGED vars
  <2>1. \A k : Still(k)' = Still(k)
    BY <1>26 DEF Still
  <2> QED
    BY <1>26, <2>1
<1> QED
  BY <1>1, <1>2, <1>3, <1>4, <1>5, <1>6, <1>7, <1>8, <1>9, <1>10, <1>11, <1>12, <1>13, <1>14, <1>15, <1>16, <1>17, <1>18, <1>19, <1>20, <1>21, <1>22, <1>23, <1>24, <1>25, <1>26 DEF Next, Step

THEOREM SpecIInv == Spec => []IInv
<1>1. IInv /\ [Next]_vars => IInv'
  BY ShapeKept, RemembersKept, ObeysKept, ReleasesKept, CleansKept DEF IInv
<1> QED
  BY InitIInv, <1>1, PTL DEF Spec

-----------------------------------------------------------------------------
\* However a run ends, unless its clean-up was itself cancelled, the manager commands
\* again (control_test.py, release and end_test).
THEOREM SpecReleasedInTheEnd == Spec => []ReleasedInTheEnd
<1>1. IInv => ReleasedInTheEnd
  BY DEF IInv, Releases
<1> QED
  BY SpecIInv, <1>1, PTL

\* Once it is cancelled a run commands nothing: it writes setpoints back and the default
\* method, nothing else (control_test.py, the cancellation's way into _restore).
THEOREM SpecCancelIsObeyed == Spec => CancelIsObeyed
<1> DEFINE Commanding == \A k \in KeySet : setpoint'[k] \in {setpoint[k], 0, before.setpoint[k]}
<1> DEFINE Asked == cancelled /\ cancelled' /\ pc # "idle"
<1>1. ASSUME IInv, [Next]_vars, Asked
      PROVE  Commanding /\ method' \in {method, Default}
  <2> USE DEF IInv, Shape, Remembers, Obeys, Acts, Ends, site, registers, control, beat, found, watched, report, history, vars
  <2>1. testing /\ pc \in {"restore", "release", "fresh", "zeros", "originals"}
    BY <1>1
  <2>2. CASE WriteZero
    BY <1>1, <2>2, TailKeeps DEF WriteZero
  <2>3. CASE WriteDefault
    BY <1>1, <2>3 DEF WriteDefault
  <2>4. CASE WriteOriginal
    BY <1>1, <2>1, <2>4, TailKeeps DEF WriteOriginal, Restored
  <2>5. CASE ReturnBeat \/ StopBeating \/ Restore \/ Release
    BY <1>1, <2>5 DEF ReturnBeat, StopBeating, Restore, Release, EndTest
  <2>6. CASE Windows \/ Abort \/ UNCHANGED vars
    BY <1>1, <2>6 DEF Windows, Abort
  <2>7. CASE CancelRestoring
    <3>1. /\ wrote /\ kept = before.saver /\ originals = before.setpoint
          /\ pc \in {"fresh", "zeros", "originals"} /\ Lands
      BY <1>1, <2>7 DEF CancelRestoring
    <3>2. left # <<>> => Head(left) \in KeySet
      BY <1>1, TailKeeps
    <3>3. method' \in {method, Default}
      BY <3>1 DEF Lands
    <3>4. Commanding
      BY <1>1, <3>1, <3>2 DEF Lands, Restored
    <3> QED
      BY <3>3, <3>4
  <2>8. ~Cancel
    BY <1>1 DEF Cancel, Running
  <2>9. ~(ManagerSends \/ Start)
    BY <2>1 DEF ManagerSends, Start
  <2>10. ~(Begin \/ First \/ Take \/ SeeBit \/ PlanStep \/ SendBeat \/ SendSetpoint
          \/ SendWord \/ LetItLand \/ Watch \/ LetItSettle \/ HandedBack)
    BY <2>1 DEF Begin, First, Take, SeeBit, PlanStep, SendBeat, SendSetpoint, SendWord,
                LetItLand, Watch, LetItSettle, HandedBack
  <2> QED
    BY <1>1, <2>2, <2>3, <2>4, <2>5, <2>6, <2>7, <2>8, <2>9, <2>10 DEF Next, Step
<1>2. IInv /\ [Next]_vars
      => [cancelled /\ cancelled' /\ pc # "idle" => Commanding /\ method' \in {method, Default}]_vars
  BY <1>1
<1> QED
  BY SpecIInv, <1>2, PTL DEF Spec, CancelIsObeyed

\* A run whose clean-up had every write of it accepted leaves the setpoints, the battery
\* saver and the method it found, or the default one (control_test.py, _restore).
THEOREM SpecLeftAsFound == Spec => LeftAsFound
<1> DEFINE Left == /\ setpoint' = before.setpoint /\ saver' = before.saver
                   /\ method' = IF sent THEN Default ELSE before.method
<1>1. ASSUME IInv, [Next]_vars, pc # "idle", pc' = "idle", ~spoiled'
      PROVE  Left
  <2> USE DEF IInv, Shape, Remembers, Acts, Ends, site, registers, control, beat, found, watched, report, history, vars
  <2>1. Release
    <3>1. ~(ManagerSends \/ Windows \/ Start \/ Abort \/ Cancel \/ CancelRestoring \/ UNCHANGED vars)
      BY <1>1 DEF ManagerSends, Windows, Start, Abort, Cancel, CancelRestoring
    <3>2. ~(Begin \/ First \/ Take \/ SeeBit \/ PlanStep \/ SendBeat \/ SendSetpoint \/ SendWord
            \/ LetItLand \/ Watch)
      BY <1>1 DEF Begin, First, Take, SeeBit, PlanStep, GoOn, SendBeat, SendSetpoint, Refused,
                  SendWord, LetItLand, Watch
    <3>3. ~(ReturnBeat \/ WriteZero \/ WriteDefault \/ LetItSettle \/ WriteOriginal
            \/ StopBeating \/ HandedBack \/ Restore)
      BY <1>1 DEF ReturnBeat, WriteZero, WriteDefault, LetItSettle, GoOn, WriteOriginal,
                  StopBeating, HandedBack, Restore
    <3> QED
      BY <1>1, <3>1, <3>2, <3>3 DEF Next, Step
  <2>2. pc = "release" /\ ~spoiled /\ UNCHANGED <<setpoint, method, saver>>
    BY <1>1, <2>1 DEF Release
  <2>3. AsFound /\ saver = before.saver
    BY <1>1, <2>2 DEF Cleans
  <2> QED
    BY <2>2, <2>3 DEF AsFound
<1>2. IInv /\ [Next]_vars => [pc # "idle" /\ pc' = "idle" /\ ~spoiled' => Left]_vars
  BY <1>1
<1> QED
  BY SpecIInv, <1>2, PTL DEF Spec, LeftAsFound

-----------------------------------------------------------------------------
(* The verdicts.                                                           *)

\* Of some naturals there is a least.
LEMMA TheLeast ==
    ASSUME NEW S \in SUBSET Nat, S # {}
    PROVE  \E x \in S : \A y \in S : x <= y
<1> DEFINE R == OpToRel(<, Nat)
<1>1. IsWellFoundedOn(R, Nat)
  BY NatLessThanWellFounded
<1>2. \A y, x \in Nat : y < x => <<y, x>> \in R
  BY DEF OpToRel
<1> HIDE DEF R
<1>3. PICK x \in S : \A y \in S : ~(<<y, x>> \in R)
  BY <1>1, WFMin
<1>4. ASSUME NEW y \in S PROVE x <= y
  <2>1. x \in Nat /\ y \in Nat
    OBVIOUS
  <2>2. ~(y < x)
    BY <1>2, <1>3, <2>1, Zenon
  <2> QED
    BY <2>1, <2>2
<1> QED
  BY <1>4

\* A power is found: the nearest that is decisive, the lower of two.
LEMMA PickedIsAPower ==
    ASSUME NEW sign \in {-1, 1}, NEW power \in Nat, NEW baseline,
           NEW limit \in Nat \cup {None}
    PROVE  PickDecisive(sign, power, baseline, limit) \in Nat
<1> DEFINE ceiling == IF limit # None /\ limit < MaxPower THEN limit ELSE MaxPower
           decisive == {c \in MinPower .. ceiling : IsDecisive(sign, c, baseline)}
           far(c) == Distance(c, power)
<1>1. MinPower \in Nat /\ ceiling \in Nat
  BY TestsAreKnown
<1>2. decisive \in SUBSET Nat
  BY <1>1
<1>3. CASE decisive = {}
  BY <1>3 DEF PickDecisive
<1>4. CASE decisive # {}
  <2> HIDE DEF decisive
  <2>1. \A c \in decisive : far(c) \in Nat
    BY <1>2 DEF Distance
  <2> HIDE DEF far
  <2>2. PICK d \in {far(c) : c \in decisive} : \A e \in {far(c) : c \in decisive} : d <= e
    <3>1. {far(c) : c \in decisive} \in SUBSET Nat /\ {far(c) : c \in decisive} # {}
      BY <1>4, <2>1
    <3> QED
      BY <3>1, TheLeast
  <2> DEFINE near == {c \in decisive : far(c) = d}
  <2>3. PICK c \in near : \A e \in near : c <= e
    <3>1. near \in SUBSET Nat /\ near # {}
      BY <1>2, <2>2
    <3> QED
      BY <3>1, TheLeast
  <2>4. \A other \in decisive : far(c) < far(other) \/ (far(c) = far(other) /\ c <= other)
    <3> SUFFICES ASSUME NEW other \in decisive
                 PROVE  far(c) < far(other) \/ (far(c) = far(other) /\ c <= other)
      OBVIOUS
    <3>1. far(c) = d /\ d <= far(other) /\ d \in Nat /\ far(other) \in Nat
      BY <2>1, <2>2, <2>3
    <3>2. far(other) = d => c <= other
      BY <2>3
    <3> QED
      BY <3>1, <3>2
  <2>5. PickDecisive(sign, power, baseline, limit)
           = CHOOSE x \in decisive : \A other \in decisive :
                far(x) < far(other) \/ (far(x) = far(other) /\ x <= other)
    BY <1>4 DEF PickDecisive, decisive, far
  <2>6. PickDecisive(sign, power, baseline, limit) \in decisive
    BY <2>3, <2>4, <2>5
  <2> QED
    BY <1>2, <2>6
<1> QED
  BY <1>3, <1>4

Testing == {"beat", "setpoint", "word", "landing", "watch"}
Between == pc \in {"fresh", "zeros", "settle"} /\ after \in {"next", "settle"}

\* One verdict for each test so far.
Counts ==
    /\ faults \in Nat /\ verdicts \in Seq(Verdicts)
    /\ follows \subseteq Methods /\ flow \in [KeySet -> Int] /\ cap \in Nat \cup {None}
    /\ pc \in {"begin", "first", "take", "bit"} => verdicts = <<>> /\ test = 1
    /\ pc \in {"plan"} \cup Testing => test \in 1 .. Len(Tests) /\ Len(verdicts) = test - 1
    /\ Between => test \in 1 .. Len(Tests) /\ Len(verdicts) = test
    /\ pc = "settle" => after = "settle"

\* While nothing fails the command of the test at hand is in force, and only what follows
\* it shows it, where the plan is decisive.
InForce ==
    /\ pc \in {"bit", "plan"} \cup Testing \/ Between => beating /\ recent
    /\ pc \in Testing =>
          /\ plan.target \in Int
          /\ plan.decisive /\ Tests[test].method \notin follows
                => ~OnTarget(plan.target, flow[Tests[test].key])
    /\ pc \in {"word", "landing", "watch"} => setpoint[Tests[test].key] = plan.target
    /\ pc \in {"landing", "watch"} => method = Tests[test].method
    /\ pc = "watch" =>
          /\ frames \in 0 .. Settle /\ streak \in Nat
          /\ frames = Settle => Settle = 0
          /\ Tests[test].method \in follows => streak = frames
          /\ plan.decisive /\ Tests[test].method \notin follows => streak = 0

EarnInv == Counts /\ (faults = 0 => InForce) /\ VerdictsAreEarned

LEMMA InitEarnInv == Init => EarnInv
<1> SUFFICES ASSUME Init PROVE EarnInv
  OBVIOUS
<1>1. /\ faults = 0 /\ verdicts = <<>> /\ pc = "idle"
      /\ follows \in Firmwares /\ flow \in Flows /\ cap \in Caps
  BY DEF Init
<1>2. Counts
  BY <1>1, TestsAreKnown DEF Counts, Testing, Between
<1>3. InForce
  BY <1>1 DEF InForce, Testing, Between
<1>4. VerdictsAreEarned
  BY <1>1 DEF VerdictsAreEarned
<1> QED
  BY <1>2, <1>3, <1>4 DEF EarnInv

\* The test at hand.
LEMMA TheTest ==
    ASSUME NEW i \in 1 .. Len(Tests)
    PROVE  /\ Tests[i].key \in KeySet /\ Tests[i].sign \in {-1, 1}
           /\ Tests[i].method \in Methods
<1> DEFINE Kind == [method : Methods, key : KeySet, sign : {-1, 1}]
<1>1. Tests \in Seq(Kind)
  BY TestsAreKnown
<1> HIDE DEF Kind
<1>2. Tests[i] \in Kind
  BY <1>1
<1> QED
  BY <1>2 DEF Kind

\* What is planned is a power, and decisive is what it says.
LEMMA PlanIsSound ==
    ASSUME Counts, NEW sign \in {-1, 1}, NEW baseline
    PROVE  LET planned == PlanTest(sign, baseline)
           IN  /\ planned.target \in Int
               /\ baseline \in Int /\ planned.decisive => ~OnTarget(planned.target, baseline)
<1> DEFINE limit == Achievable(sign)
           power == IF limit # None /\ limit < Power THEN limit ELSE Power
           picked == IF baseline # None /\ ~IsDecisive(sign, power, baseline)
                     THEN PickDecisive(sign, power, baseline, limit) ELSE power
<1>1. limit \in Nat \cup {None} /\ power \in Nat /\ (baseline \in Int => baseline # None)
  BY TestsAreKnown DEF Achievable, Counts
<1>2. picked \in Nat
  BY <1>1, PickedIsAPower
<1>3. /\ PlanTest(sign, baseline).target = picked * sign
      /\ baseline \in Int /\ PlanTest(sign, baseline).decisive
            => IsDecisive(sign, picked, baseline)
  BY <1>1 DEF PlanTest, IsDecisive
<1> HIDE DEF limit, power, picked
<1>4. picked * sign \in Int
  BY <1>2
<1>5. ASSUME baseline \in Int, IsDecisive(sign, picked, baseline)
      PROVE  ~OnTarget(picked * sign, baseline)
  <2>1. Distance(picked * sign, baseline) \in Int /\ Tolerance \in Nat
    BY <1>4, <1>5, TestsAreKnown DEF Distance
  <2> QED
    BY <1>1, <1>5, <2>1 DEF IsDecisive, OnTarget
<1> QED
  BY <1>3, <1>4, <1>5

LEMMA TestsAreListed == Len(Tests) \in Nat /\ Len(Tests) > 0
BY TestsAreKnown

LEMMA AppendKeeps ==
    ASSUME NEW s \in Seq(Verdicts), NEW v \in Verdicts
    PROVE  Append(s, v) \in Seq(Verdicts) /\ Len(Append(s, v)) = Len(s) + 1
OBVIOUS

LEMMA AreVerdicts ==
    /\ "skipped" \in Verdicts /\ "write_refused" \in Verdicts
    /\ \A settled, decisive \in BOOLEAN : Judged(settled, decisive) \subseteq Verdicts
BY DEF Verdicts, Decisive, Judged

\* Every test gets one verdict.
LEMMA CountsKept == IInv /\ Counts /\ [Next]_vars => Counts'
<1> SUFFICES ASSUME IInv, Counts, [Next]_vars PROVE Counts'
  OBVIOUS
<1> USE DEF Counts, Testing, Between, NoFault, Fault, CleaningUp, site, registers, control, beat, found, watched, report, history, vars
<1>1. CASE ManagerSends
  BY <1>1 DEF ManagerSends
<1>2. CASE Windows
  BY <1>2 DEF Windows
<1>3. CASE Start
  BY <1>3, TestsAreListed DEF Start
<1>4. CASE Begin
  BY <1>4 DEF Begin
<1>5. CASE First
  BY <1>5 DEF First
<1>6. CASE Take
  BY <1>6 DEF Take
<1>7. CASE SeeBit
  BY <1>7, TestsAreListed DEF SeeBit
<1>8. CASE PlanStep
  <2>1. CASE Skips(Tests[test].sign)
    <3>1. /\ verdicts' = Append(verdicts, "skipped") /\ GoOn
          /\ UNCHANGED <<follows, flow, cap, faults>>
      BY <1>8, <2>1 DEF PlanStep
    <3>2. verdicts' \in Seq(Verdicts) /\ Len(verdicts') = test
      BY <1>8, <3>1, AppendKeeps, AreVerdicts DEF PlanStep
    <3> QED
      BY <1>8, <3>1, <3>2, TestsAreListed DEF PlanStep, GoOn
  <2>2. CASE ~Skips(Tests[test].sign)
    BY <1>8, <2>2 DEF PlanStep
  <2> QED
    BY <2>1, <2>2
<1>9. CASE SendBeat
  BY <1>9 DEF SendBeat, Refreshes
<1>10. CASE SendSetpoint
  <2>1. CASE pc' = "word" /\ UNCHANGED verdicts
    BY <1>10, <2>1 DEF SendSetpoint
  <2>2. CASE Refused
    BY <1>10, <2>2, AppendKeeps, AreVerdicts DEF SendSetpoint, Refused
  <2> QED
    BY <1>10, <2>1, <2>2 DEF SendSetpoint
<1>11. CASE SendWord
  <2>1. CASE pc' = "landing" /\ UNCHANGED verdicts
    BY <1>11, <2>1 DEF SendWord
  <2>2. CASE Refused
    BY <1>11, <2>2, AppendKeeps, AreVerdicts DEF SendWord, Refused
  <2> QED
    BY <1>11, <2>1, <2>2 DEF SendWord
<1>12. CASE LetItLand
  BY <1>12 DEF LetItLand
<1>13. CASE Watch
  <2>1. CASE WatchEnds(streak', frames')
    <3>1. PICK verdict \in Judged(streak' >= Damping, plan.decisive) :
              verdicts' = Append(verdicts, verdict)
      BY <1>13, <2>1 DEF Watch
    <3>2. verdict \in Verdicts
      BY <3>1 DEF Judged, Verdicts, Decisive
    <3> QED
      BY <1>13, <2>1, <3>1, <3>2, AppendKeeps DEF Watch
  <2>2. CASE ~WatchEnds(streak', frames')
    BY <1>13, <2>2 DEF Watch
  <2> QED
    BY <2>1, <2>2
<1>14. CASE ReturnBeat
  BY <1>14 DEF ReturnBeat, Refreshes
<1>15. CASE WriteZero
  BY <1>15 DEF WriteZero
<1>16. CASE WriteDefault
  <2>1. CASE after = "next" /\ GoOn
    BY <1>16, <2>1, TestsAreListed DEF WriteDefault, GoOn
  <2>2. CASE after = "settle" /\ pc' = "settle" /\ UNCHANGED <<test, after>>
    BY <1>16, <2>2 DEF WriteDefault
  <2>3. CASE pc' = "originals"
    BY <1>16, <2>3 DEF WriteDefault
  <2> QED
    BY <1>16, <2>1, <2>2, <2>3 DEF WriteDefault
<1>17. CASE LetItSettle
  BY <1>17, TestsAreListed DEF LetItSettle, GoOn
<1>18. CASE WriteOriginal
  BY <1>18 DEF WriteOriginal
<1>19. CASE StopBeating
  BY <1>19 DEF StopBeating
<1>20. CASE HandedBack
  BY <1>20 DEF HandedBack
<1>21. CASE Restore
  BY <1>21 DEF Restore
<1>22. CASE Release
  BY <1>22 DEF Release, EndTest
<1>23. CASE Abort
  BY <1>23 DEF Abort
<1>24. CASE Cancel
  BY <1>24 DEF Cancel, Lands, Running
<1>25. CASE CancelRestoring
  BY <1>25 DEF CancelRestoring, Lands
<1>26. CASE UNCHANGED vars
  BY <1>26 DEF vars
<1> QED
  BY <1>1, <1>2, <1>3, <1>4, <1>5, <1>6, <1>7, <1>8, <1>9, <1>10, <1>11, <1>12, <1>13, <1>14, <1>15, <1>16, <1>17, <1>18, <1>19, <1>20, <1>21, <1>22, <1>23, <1>24, <1>25, <1>26 DEF Next, Step

LEMMA FaultsAreCounted == [Next]_vars => UNCHANGED faults \/ Fault
BY DEF Next, Step, ManagerSends, Windows, Start, Begin, First, Take, SeeBit, PlanStep,
       SendBeat, Refreshes, SendSetpoint, SendWord, LetItLand, Watch, ReturnBeat,
       WriteZero, WriteDefault, LetItSettle, WriteOriginal, StopBeating, HandedBack,
       Restore, Release, Abort, Cancel, CancelRestoring, NoFault, vars

LEMMA SitesStay == [Next]_vars => UNCHANGED <<follows, flow, cap>>
BY DEF Next, Step, ManagerSends, Windows, Start, Begin, First, Take, SeeBit, PlanStep,
       SendBeat, SendSetpoint, SendWord, LetItLand, Watch, ReturnBeat,
       WriteZero, WriteDefault, LetItSettle, WriteOriginal, StopBeating, HandedBack,
       Restore, Release, Abort, Cancel, CancelRestoring, site, vars

\* Where the method is followed its command shows, and elsewhere what flows by itself.
LEMMA WhatIsMeasured ==
    ASSUME Counts, InForce, pc = "watch"
    PROVE  LET t == Tests[test]
               shows == OnTarget(plan.target, Measured(t))
           IN  /\ t.method \in follows => shows
               /\ plan.decisive /\ t.method \notin follows => ~shows
<1> DEFINE t == Tests[test]
<1>1. /\ recent /\ method = t.method /\ setpoint[t.key] = plan.target /\ plan.target \in Int
      /\ plan.decisive /\ t.method \notin follows => ~OnTarget(plan.target, flow[t.key])
  BY DEF InForce, Testing
<1>2. t.method \in follows => Measured(t) = plan.target
  BY <1>1 DEF Measured, Acting, Granted
<1>3. t.method \notin follows => Measured(t) = flow[t.key]
  BY DEF Measured, Acting
<1>4. OnTarget(plan.target, plan.target)
  BY <1>1, TestsAreKnown DEF OnTarget, Distance
<1> QED
  BY <1>1, <1>2, <1>3, <1>4

\* While nothing fails nothing but the test at hand is in force.
LEMMA InForceKept == IInv /\ EarnInv /\ [Next]_vars /\ faults' = 0 => InForce'
<1> SUFFICES ASSUME IInv, EarnInv, [Next]_vars, faults' = 0 PROVE InForce'
  OBVIOUS
<1>0. /\ faults = 0 /\ faults \in Nat /\ InForce /\ Counts
      /\ ~Fault /\ setpoint = [k \in KeySet |-> setpoint[k]]
      /\ pc # "idle" => testing
  <2>1. faults \in Nat /\ Counts
    BY DEF EarnInv, Counts
  <2>2. ~Fault
    BY <2>1 DEF Fault
  <2>3. faults = 0
    BY <2>2, FaultsAreCounted
  <2> QED
    BY <2>1, <2>2, <2>3 DEF EarnInv, IInv, Shape, Remembers
<1> USE <1>0 DEF InForce, Testing, Between, site, registers, control, beat, found, watched, report, history
<1>1. CASE ManagerSends
  BY <1>1 DEF ManagerSends
<1>2. CASE Windows
  BY <1>2 DEF Windows
<1>3. CASE Start
  BY <1>3 DEF Start
<1>4. CASE Begin
  BY <1>4 DEF Begin
<1>5. CASE First
  BY <1>5 DEF First
<1>6. CASE Take
  BY <1>6 DEF Take
<1>7. CASE SeeBit
  BY <1>7 DEF SeeBit
<1>8. CASE PlanStep
  <2>1. CASE Skips(Tests[test].sign)
    BY <1>8, <2>1 DEF PlanStep, GoOn
  <2>2. CASE ~Skips(Tests[test].sign)
    <3> DEFINE t == Tests[test]
               planned == PlanTest(t.sign, Measured(t))
    <3>1. /\ pc' = "beat" /\ plan' = planned /\ beating' /\ recent'
          /\ UNCHANGED <<follows, flow, test>>
      BY <1>8, <2>2 DEF PlanStep
    <3>2. t.key \in KeySet /\ t.sign \in {-1, 1}
      BY <1>8, TheTest DEF PlanStep, Counts
    <3>3. t.method \notin follows => Measured(t) = flow[t.key] /\ flow[t.key] \in Int
      BY <3>2 DEF Measured, Acting, Counts
    <3>4. /\ planned.target \in Int
          /\ Measured(t) \in Int /\ planned.decisive => ~OnTarget(planned.target, Measured(t))
      BY <3>2, PlanIsSound
    <3> HIDE DEF planned
    <3> QED
      BY <3>1, <3>3, <3>4
  <2> QED
    BY <2>1, <2>2
<1>9. CASE SendBeat
  BY <1>9 DEF SendBeat, Refreshes
<1>10. CASE SendSetpoint
  <2>1. Tests[test].key \in KeySet
    BY <1>10, TheTest DEF SendSetpoint, Counts
  <2> QED
    BY <1>10, <2>1 DEF SendSetpoint
<1>11. CASE SendWord
  BY <1>11 DEF SendWord
<1>12. CASE LetItLand
  BY <1>12, TestsAreKnown DEF LetItLand
<1>13. CASE Watch
  <2>1. CASE WatchEnds(streak', frames')
    BY <1>13, <2>1 DEF Watch
  <2>2. CASE ~WatchEnds(streak', frames')
    <3> DEFINE t == Tests[test]
               shows == OnTarget(plan.target, Measured(t))
    <3>1. /\ t.method \in follows => shows
          /\ plan.decisive /\ t.method \notin follows => ~shows
      BY <1>13, WhatIsMeasured DEF Watch
    <3>2. /\ pc = "watch" /\ pc' = "watch" /\ frames' # Settle
          /\ frames' = (IF frames < Settle THEN frames + 1 ELSE frames)
          /\ streak' = (IF shows THEN streak + 1 ELSE 0)
          /\ UNCHANGED <<beating, recent, plan, test, setpoint, method, follows, flow>>
      BY <1>13, <2>2 DEF Watch, WatchEnds
    <3>3. Settle \in Nat /\ frames \in 0 .. Settle /\ streak \in Nat
      BY <3>2, TestsAreKnown
    <3> HIDE DEF shows
    <3>4. /\ frames' \in 0 .. Settle /\ streak' \in Nat
          /\ t.method \in follows => streak' = frames'
          /\ plan.decisive /\ t.method \notin follows => streak' = 0
      BY <3>1, <3>2, <3>3
    <3> QED
      BY <3>2, <3>4
  <2> QED
    BY <2>1, <2>2
<1>14. CASE ReturnBeat
  BY <1>14 DEF ReturnBeat, Refreshes
<1>15. CASE WriteZero
  BY <1>15 DEF WriteZero
<1>16. CASE WriteDefault
  BY <1>16 DEF WriteDefault, GoOn, Counts
<1>17. CASE LetItSettle
  BY <1>17 DEF LetItSettle, GoOn, Counts
<1>18. CASE WriteOriginal
  BY <1>18 DEF WriteOriginal
<1>19. CASE StopBeating
  BY <1>19 DEF StopBeating
<1>20. CASE HandedBack
  BY <1>20 DEF HandedBack
<1>21. CASE Restore
  BY <1>21 DEF Restore
<1>22. CASE Release
  BY <1>22 DEF Release, EndTest
<1>23. CASE Abort
  BY <1>23 DEF Abort
<1>24. CASE Cancel
  BY <1>24 DEF Cancel
<1>25. CASE CancelRestoring
  BY <1>25 DEF CancelRestoring, Lands
<1>26. CASE UNCHANGED vars
  BY <1>26 DEF vars
<1> QED
  BY <1>1, <1>2, <1>3, <1>4, <1>5, <1>6, <1>7, <1>8, <1>9, <1>10, <1>11, <1>12, <1>13, <1>14, <1>15, <1>16, <1>17, <1>18, <1>19, <1>20, <1>21, <1>22, <1>23, <1>24, <1>25, <1>26 DEF Next, Step

\* What a test is judged to have shown is what the firmware did.
LEMMA VerdictsKept == IInv /\ EarnInv /\ [Next]_vars => VerdictsAreEarned'
<1> SUFFICES ASSUME IInv, EarnInv, [Next]_vars, faults' = 0, NEW i \in DOMAIN verdicts',
                    verdicts'[i] \in Decisive
             PROVE  /\ verdicts'[i] = "followed" => Tests[i].method \in follows'
                    /\ Tests[i].method \in follows' /\ Damping <= Settle => verdicts'[i] = "followed"
  BY DEF VerdictsAreEarned
<1>0. faults = 0 /\ InForce /\ Counts /\ VerdictsAreEarned /\ ~Fault /\ UNCHANGED follows
  <2>1. faults \in Nat /\ Counts
    BY DEF EarnInv, Counts
  <2>2. ~Fault
    BY <2>1 DEF Fault
  <2>3. UNCHANGED faults \/ Fault
    BY FaultsAreCounted
  <2> QED
    BY <2>1, <2>2, <2>3, SitesStay DEF EarnInv
<1>1. CASE i \in DOMAIN verdicts /\ verdicts'[i] = verdicts[i]
  BY <1>0, <1>1 DEF VerdictsAreEarned
<1>2. ASSUME NEW v, verdicts' = Append(verdicts, v), v = "skipped" 
      PROVE  i \in DOMAIN verdicts /\ verdicts'[i] = verdicts[i]
  <2>1. verdicts \in Seq(Verdicts) /\ v \notin Decisive
    BY <1>0, <1>2 DEF Counts, Decisive
  <2> QED
    BY <1>2, <2>1
<1>3. CASE PlanStep
  <2>1. UNCHANGED verdicts \/ verdicts' = Append(verdicts, "skipped")
    BY <1>3 DEF PlanStep
  <2> QED
    BY <1>1, <1>2, <2>1
<1>4. CASE Watch
  <2>1. CASE UNCHANGED verdicts
    BY <1>1, <2>1
  <2>2. CASE ~UNCHANGED verdicts
    <3> DEFINE t == Tests[test]
               shows == OnTarget(plan.target, Measured(t))
    <3>1. /\ pc = "watch" /\ WatchEnds(streak', frames')
          /\ frames' = (IF frames < Settle THEN frames + 1 ELSE frames)
          /\ streak' = (IF shows THEN streak + 1 ELSE 0)
          /\ \E verdict \in Judged(streak' >= Damping, plan.decisive) :
                verdicts' = Append(verdicts, verdict)
      BY <1>4, <2>2 DEF Watch
    <3>2. PICK verdict \in Judged(streak' >= Damping, plan.decisive) :
              verdicts' = Append(verdicts, verdict)
      BY <3>1
    <3>3. CASE i = test
      <4>1. verdicts'[i] = verdict
        BY <1>0, <3>1, <3>2, <3>3 DEF Counts, Testing
      <4>2. /\ t.method \in follows => shows /\ streak = frames
            /\ plan.decisive /\ t.method \notin follows => ~shows
            /\ frames \in 0 .. Settle /\ (frames = Settle => Settle = 0)
        BY <1>0, <3>1, WhatIsMeasured DEF InForce
      <4>3. Settle \in Nat /\ Damping \in Nat /\ Damping > 0
        BY TestsAreKnown
      <4>4. plan.decisive /\ t.method \notin follows => ~(streak' >= Damping)
        BY <3>1, <4>2, <4>3
      <4>5. t.method \in follows /\ Damping <= Settle => streak' >= Damping
        BY <3>1, <4>2, <4>3 DEF WatchEnds
      <4>6. verdict \in Decisive
        BY <4>1
      <4>7. verdict = "followed" => streak' >= Damping /\ plan.decisive
        BY <3>2 DEF Judged
      <4>8. streak' >= Damping => verdict \in {"followed", "inconclusive"}
        BY <3>2 DEF Judged
      <4> QED
        BY <1>0, <3>3, <4>1, <4>4, <4>5, <4>6, <4>7, <4>8 DEF Decisive
    <3>4. CASE i # test
      <4>1. i \in DOMAIN verdicts /\ verdicts'[i] = verdicts[i]
        BY <1>0, <3>1, <3>2, <3>4 DEF Counts, Testing
      <4> QED
        BY <1>1, <4>1
    <3> QED
      BY <3>3, <3>4
  <2> QED
    BY <2>1, <2>2
<1>5. CASE Start
  BY <1>5 DEF Start
<1>6. CASE ~(PlanStep \/ Watch \/ Start)
  <2>1. UNCHANGED verdicts
    BY <1>0, <1>6 DEF Next, Step, ManagerSends, Windows, Begin, First, Take, SeeBit,
           SendBeat, SendSetpoint, SendWord, LetItLand, ReturnBeat,
           WriteZero, WriteDefault, LetItSettle, WriteOriginal, StopBeating, HandedBack,
           Restore, Release, Abort, Cancel, CancelRestoring, vars, report
  <2> QED
    BY <1>1, <2>1
<1> QED
  BY <1>3, <1>4, <1>5, <1>6

\* With nothing in the way every verdict is earned, for any tests, firmware and flows.
THEOREM SpecVerdictsAreEarned == Spec => []VerdictsAreEarned
<1>1. IInv /\ EarnInv /\ [Next]_vars => EarnInv'
  BY CountsKept, InForceKept, VerdictsKept DEF EarnInv
<1>2. EarnInv => VerdictsAreEarned
  BY DEF EarnInv
<1> QED
  BY InitEarnInv, SpecIInv, <1>1, <1>2, PTL DEF Spec

============================================================================
