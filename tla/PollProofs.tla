----------------------------- MODULE PollProofs -----------------------------
(***************************************************************************)
(* What a poll may rely on, in three parts with a specification each.      *)
(* Connection: for any number of inverters and writers the verdict on the  *)
(* serial is what is enforced, an unloaded link stays down, and on a link  *)
(* of its own an entry shows only its own inverter.  ReadingChecks: for    *)
(* any readings and any bounds, what is shown, since when, and what is     *)
(* announced of it are what the last polls failed.  ReadPlan: for any      *)
(* registers, listeners and device, what is read is what is asked for and  *)
(* was not given up for cause.                                             *)
(***************************************************************************)
EXTENDS Connection, ReadingChecks, ReadPlan, FiniteSetTheorems, TLAPS

-----------------------------------------------------------------------------
(* Connection.                                                             *)

(* A link that only a poll opens is, once the serial is verified, up to    *)
(* the expected inverter until it drops, and then it stays down until the  *)
(* next poll; all that a poll has read so far came over it.                *)
OwnLink ==
    /\ poll \notin {"idle", "blocks"} => sources = {}
    /\ poll = "dialling" => link = None
    /\ poll = "blocks" => verified
    /\ poll \in {"idle", "first", "blocks"} /\ verified /\ link # None /\ Expected # None
          => link = Expected
    /\ poll = "blocks" /\ Expected # None => sources \subseteq {Expected}
    /\ poll = "blocks" /\ sources # {} /\ Expected = None
          => \E i \in Inverters : sources = {i} /\ link \in {i, None}

(* The serial that becomes the key is the one that was expected already.   *)
KeyIsPinned == configured # None /\ pinned # None => pinned = configured

IInv ==
    /\ TypeOK
    /\ KeyIsPinned
    /\ VerdictIsEnforced
    /\ ClosedStaysClosed
    /\ ~shared => OwnLink

-----------------------------------------------------------------------------
LEMMA InitIInv == Init => IInv
<1> SUFFICES ASSUME Init PROVE IInv
  OBVIOUS
<1>1. TypeOK
  BY EntryIsKnown DEF Init, TypeOK, Stages
<1>2. VerdictIsEnforced /\ ClosedStaysClosed /\ OwnLink /\ KeyIsPinned
  BY EntryIsKnown DEF Init, VerdictIsEnforced, ClosedStaysClosed, OwnLink, KeyIsPinned
<1>3. QED
  BY <1>1, <1>2 DEF IInv

(* What a check of the serial makes of the verdict.                        *)
LEMMA CheckKeeps ==
    ASSUME IInv, NEW serial \in Inverters \cup {None}, NEW again \in BOOLEAN,
           CheckIdentity(serial, again), UNCHANGED entry
    PROVE  /\ verified' \in BOOLEAN /\ mismatch' \in BOOLEAN
           /\ block' \in {"none", "unverified", "mismatch"}
           /\ pinned' \in Inverters \cup {None}
           /\ VerdictIsEnforced' /\ KeyIsPinned'
           /\ verified' /\ Expected' # None => serial = Expected'
<1> USE DEF IInv, TypeOK, VerdictIsEnforced, KeyIsPinned, CheckIdentity, Verify, Unverify,
            Expected, entry
<1>1. CASE serial = None
  BY <1>1
<1>2. CASE serial # None /\ Expected # None /\ serial # Expected
  BY <1>2
<1>3. CASE serial # None /\ ~(Expected # None /\ serial # Expected)
  BY <1>3
<1>4. QED
  BY <1>1, <1>2, <1>3

LEMMA IdentifyKeeps ==
    ASSUME IInv, NEW serial \in {Reached, None}, Identify(serial)
    PROVE  IInv'
<1>1. serial \in Inverters \cup {None} /\ Reached \in Inverters \cup {None}
  BY DEF IInv, TypeOK, Reached
<1>2. (poll = "info") \in BOOLEAN
  OBVIOUS
<1>3. CheckIdentity(serial, poll = "info")
      /\ poll \in {"setup", "info", "info again"} /\ link' = Reached
      /\ poll' = (IF poll = "setup" THEN "first"
                  ELSE IF verified' THEN "blocks"
                  ELSE IF poll = "info" THEN "info again" ELSE "idle")
      /\ UNCHANGED <<entry, answers, closed, sources, shown, writing>>
  BY DEF Identify
<1>4. /\ verified' \in BOOLEAN /\ mismatch' \in BOOLEAN
      /\ block' \in {"none", "unverified", "mismatch"}
      /\ pinned' \in Inverters \cup {None}
      /\ VerdictIsEnforced' /\ KeyIsPinned'
      /\ verified' /\ Expected' # None => serial = Expected'
  BY <1>1, <1>2, <1>3, CheckKeeps
<1>a. configured' = configured /\ shared' = shared /\ starting' = starting
  BY <1>3 DEF entry
<1>5. TypeOK'
  BY <1>1, <1>3, <1>4, <1>a DEF IInv, TypeOK, Stages
<1>6. ClosedStaysClosed'
  BY <1>3, <1>a DEF IInv, ClosedStaysClosed, Reached
<1>7. ASSUME ~shared PROVE OwnLink'
  <2>1. OwnLink /\ sources = {} /\ sources' = {}
    BY <1>3, <1>7 DEF IInv, OwnLink
  <2>2. verified' /\ Expected' # None => link' = Expected'
    BY <1>3, <1>4
  <2>3. poll' # "dialling" /\ (poll' = "blocks" => verified')
    BY <1>3
  <2>4. QED
    BY <2>1, <2>2, <2>3 DEF OwnLink
<1>8. QED
  BY <1>4, <1>5, <1>6, <1>7, <1>a DEF IInv

(* The steps that leave the poll and the verdict alone, and at most drop   *)
(* the link, or use it.                                                    *)
LEMMA LinkUsed ==
    ASSUME IInv, TypeOK', UNCHANGED <<entry, identity, poll, sources, closed>>,
           link' \in {link, None} \/ shared,
           ClosedStaysClosed'
    PROVE  IInv'
<1>1. VerdictIsEnforced' /\ KeyIsPinned'
  BY DEF IInv, VerdictIsEnforced, KeyIsPinned, identity, entry
<1>2. ASSUME ~shared PROVE OwnLink'
  BY <1>2 DEF IInv, OwnLink, identity, Expected, entry
<1>3. QED
  BY <1>1, <1>2 DEF IInv, entry

(* Only the first data of a setup changes how the entry is keyed.          *)
LEMMA EntryStays ==
    ASSUME IInv, [Next]_vars, ~Publish
    PROVE  configured' = configured /\ shared' = shared /\ starting' \in BOOLEAN
BY DEF IInv, TypeOK, Next, Polls, vars, entry, PollDue, Dial, AlreadyUp, DialFails, Settled,
       ReadInfo, InfoFails, Identify, ReadBlock, ReadFails, BeginWrite, Write, WriteFails,
       Drop, Move, OthersConnect, Unload, Setup, SetupFails, Shutdown, MoveEntry, Reconfigure,
       AddAgain

LEMMA PublishIInv == IInv /\ Publish => IInv'
<1> SUFFICES ASSUME IInv, Publish PROVE IInv'
  OBVIOUS
<1>1. /\ configured' \in {configured, pinned} /\ (configured' = None => configured = None)
      /\ (configured' # configured => pinned # None)
      /\ shared' = shared /\ starting' = FALSE
  BY DEF Publish, Claim
<1>2. Expected' = Expected /\ KeyIsPinned'
  BY <1>1 DEF IInv, KeyIsPinned, Expected, Publish, identity
<1>3. TypeOK'
  BY <1>1 DEF IInv, Publish, TypeOK, identity, Stages
<1>4. VerdictIsEnforced' /\ ClosedStaysClosed'
  BY <1>1 DEF IInv, Publish, VerdictIsEnforced, ClosedStaysClosed, KeyIsPinned, identity
<1>5. ASSUME ~shared PROVE OwnLink'
  BY <1>1, <1>2, <1>5 DEF IInv, Publish, OwnLink, identity
<1>6. QED
  BY <1>1, <1>2, <1>3, <1>4, <1>5 DEF IInv

LEMMA NextIInv == IInv /\ [Next]_vars => IInv'
<1> SUFFICES ASSUME IInv, [Next]_vars, ~Publish PROVE IInv'
  BY PublishIInv
<1> USE DEF IInv
<1>b. configured' = configured /\ shared' = shared /\ starting' \in BOOLEAN
  BY EntryStays
<1> USE <1>b
<1>c. KeyIsPinned' <=> (configured # None /\ pinned' # None => pinned' = configured)
  BY DEF KeyIsPinned
<1>a. Reached \in Inverters \cup {None} /\ (~shared => Reached = link)
  BY DEF TypeOK, Reached
<1>d. answers' \in Inverters \cup {None}
  BY DEF Next, Polls, vars, TypeOK, PollDue, Dial, AlreadyUp, DialFails, Settled,
         ReadInfo, InfoFails, Identify, ReadBlock, ReadFails, BeginWrite, Write, WriteFails,
         Drop, Move, OthersConnect, Unload, Setup, SetupFails, MoveEntry, Reconfigure, AddAgain
<1>1. CASE PollDue
  <2>1. TypeOK'
    BY <1>1 DEF PollDue, IsDue, TypeOK, Unverify, identity, Stages
  <2>2. VerdictIsEnforced' /\ ClosedStaysClosed' /\ KeyIsPinned'
    BY <1>1 DEF PollDue, VerdictIsEnforced, ClosedStaysClosed, KeyIsPinned, Unverify, identity
  <2>3. ASSUME ~shared PROVE OwnLink'
    BY <1>1, <2>3 DEF PollDue, IsDue, OwnLink, Unverify, identity, Expected
  <2>4. QED
    BY <2>1, <2>2, <2>3
<1>2. CASE Dial
  <2>1. TypeOK'
    BY <1>2 DEF Dial, TypeOK, identity, Stages
  <2>2. VerdictIsEnforced' /\ ClosedStaysClosed' /\ KeyIsPinned'
    BY <1>2 DEF Dial, VerdictIsEnforced, ClosedStaysClosed, KeyIsPinned, identity
  <2>3. ASSUME ~shared PROVE OwnLink'
    BY <1>2, <2>3 DEF Dial, OwnLink
  <2>4. QED
    BY <2>1, <2>2, <2>3
<1>3. CASE AlreadyUp \/ Settled
  <2>1. TypeOK'
    BY <1>3 DEF AlreadyUp, Settled, TypeOK, Unverify, Stages
  <2>2. VerdictIsEnforced' /\ ClosedStaysClosed' /\ KeyIsPinned'
    BY <1>3 DEF AlreadyUp, Settled, VerdictIsEnforced, ClosedStaysClosed, KeyIsPinned, Unverify
  <2>3. ASSUME ~shared PROVE OwnLink'
    BY <1>3, <2>3 DEF AlreadyUp, Settled, OwnLink, Unverify
  <2>4. QED
    BY <2>1, <2>2, <2>3
<1>4. CASE DialFails
  <2>1. TypeOK'
    BY <1>4 DEF DialFails, TypeOK, identity, Stages
  <2>2. VerdictIsEnforced' /\ ClosedStaysClosed' /\ KeyIsPinned'
    BY <1>4 DEF DialFails, VerdictIsEnforced, ClosedStaysClosed, KeyIsPinned, identity
  <2>3. ASSUME ~shared PROVE OwnLink'
    BY <1>4, <2>3 DEF DialFails, OwnLink
  <2>4. QED
    BY <2>1, <2>2, <2>3
<1>5. CASE ReadInfo \/ InfoFails
  BY <1>5, IdentifyKeeps DEF ReadInfo, InfoFails
<1>6. CASE ReadBlock
  <2>1. TypeOK'
    BY <1>6, <1>a DEF ReadBlock, TypeOK, identity
  <2>2. VerdictIsEnforced' /\ ClosedStaysClosed' /\ KeyIsPinned'
    BY <1>6, <1>a DEF ReadBlock, VerdictIsEnforced, ClosedStaysClosed, KeyIsPinned, identity
  <2>3. ASSUME ~shared PROVE OwnLink'
    <3>1. OwnLink /\ link # None /\ link \in Inverters /\ poll = "blocks" /\ verified
      BY <1>6, <1>a, <2>3 DEF ReadBlock, OwnLink, TypeOK
    <3>2. link' = link /\ sources' = sources \cup {link} /\ poll' = poll
          /\ verified' = verified /\ Expected' = Expected
      BY <1>6, <1>a, <2>3 DEF ReadBlock, identity, Expected
    <3>3. Expected = None => sources' = {link}
      BY <3>1, <3>2 DEF OwnLink
    <3>4. Expected # None => link = Expected /\ sources' \subseteq {Expected}
      BY <3>1, <3>2 DEF OwnLink
    <3>5. QED
      BY <3>1, <3>2, <3>3, <3>4 DEF OwnLink
  <2>4. QED
    BY <2>1, <2>2, <2>3
<1>8. CASE ReadFails
  <2>1. TypeOK'
    BY <1>8 DEF ReadFails, TypeOK, Unverify, Stages
  <2>2. VerdictIsEnforced' /\ ClosedStaysClosed' /\ KeyIsPinned'
    BY <1>8 DEF ReadFails, VerdictIsEnforced, ClosedStaysClosed, KeyIsPinned, Unverify
  <2>3. ASSUME ~shared PROVE OwnLink'
    BY <1>8, <2>3 DEF ReadFails, OwnLink, Unverify
  <2>4. QED
    BY <2>1, <2>2, <2>3
<1>9. ASSUME NEW w \in Writers, BeginWrite(w) \/ Write(w) \/ WriteFails(w) PROVE IInv'
  <2>1. TypeOK'
    BY <1>9, <1>a DEF BeginWrite, Write, WriteFails, TypeOK, identity
  <2>2. ClosedStaysClosed'
    BY <1>9, <1>a DEF BeginWrite, Write, WriteFails, ClosedStaysClosed
  <2>3. QED
    BY <1>9, <1>a, <2>1, <2>2, LinkUsed DEF BeginWrite, Write, WriteFails, identity
<1>10. CASE Drop \/ Move \/ OthersConnect
  <2>1. TypeOK'
    BY <1>10 DEF Drop, Move, OthersConnect, TypeOK, identity
  <2>2. ClosedStaysClosed'
    BY <1>10 DEF Drop, Move, OthersConnect, ClosedStaysClosed
  <2>3. QED
    BY <1>10, <2>1, <2>2, LinkUsed DEF Drop, Move, OthersConnect
<1>11. CASE Shutdown
  <2>1. TypeOK'
    BY <1>11, <1>d DEF Shutdown, TypeOK, identity
  <2>2. VerdictIsEnforced' /\ ClosedStaysClosed' /\ KeyIsPinned'
    BY <1>11 DEF Shutdown, VerdictIsEnforced, ClosedStaysClosed, KeyIsPinned, identity
  <2>3. ASSUME ~shared PROVE OwnLink'
    BY <1>11, <2>3 DEF Shutdown, OwnLink, identity, Expected
  <2>4. QED
    BY <2>1, <2>2, <2>3
<1>12. CASE Setup
  <2>1. TypeOK'
    BY <1>12 DEF Setup, TypeOK, Stages
  <2>2. VerdictIsEnforced' /\ ClosedStaysClosed' /\ OwnLink' /\ KeyIsPinned'
    BY <1>12 DEF Setup, VerdictIsEnforced, ClosedStaysClosed, OwnLink, KeyIsPinned
  <2>3. QED
    BY <2>1, <2>2
<1>13. CASE UNCHANGED vars
  <2>1. TypeOK' /\ ClosedStaysClosed'
    BY <1>13 DEF vars, TypeOK, ClosedStaysClosed, identity
  <2>2. QED
    BY <1>13, <2>1, LinkUsed DEF vars
<1>14. QED
  BY <1>1, <1>2, <1>3, <1>4, <1>5, <1>6, <1>8, <1>9, <1>10, <1>11, <1>12, <1>13
     DEF Next, Polls, Unload, SetupFails, Reconfigure, AddAgain, MoveEntry

(* The inductive invariant holds in every reachable state.                 *)
THEOREM SpecIInv == Spec => []IInv
  BY InitIInv, NextIInv, PTL DEF Spec

(* VerdictIsEnforced: the client lets writes through exactly while the     *)
(* coordinator has verified the serial.                                    *)
THEOREM SpecVerdictIsEnforced == Spec => []VerdictIsEnforced
<1>1. IInv => VerdictIsEnforced
  BY DEF IInv
<1>2. QED
  BY <1>1, SpecIInv, PTL

(* ClosedStaysClosed: no reconnect in flight reopens an unloaded link.     *)
THEOREM SpecClosedStaysClosed == Spec => []ClosedStaysClosed
<1>1. IInv => ClosedStaysClosed
  BY DEF IInv
<1>2. QED
  BY <1>1, SpecIInv, PTL

(* ShownIsTheConfigured: on a link of its own, what an entry shows was     *)
(* read from its own inverter, whoever else has had the address meanwhile. *)
THEOREM SpecShownIsTheConfigured == Spec => ShownIsTheConfigured
<1>1. IInv /\ [Next]_vars => (Publish /\ ~shared => OneInverter(sources))
  <2> SUFFICES ASSUME IInv, Publish, ~shared PROVE OneInverter(sources)
    OBVIOUS
  <2>1. OwnLink /\ poll = "blocks" /\ sources # {}
    BY DEF IInv, Publish
  <2>2. CASE Expected # None
    BY <2>1, <2>2 DEF OwnLink, OneInverter
  <2>3. CASE Expected = None
    <3>1. PICK i \in Inverters : sources = {i}
      BY <2>1, <2>3 DEF OwnLink
    <3>2. Cardinality({i}) = 1
      BY FS_Singleton
    <3>3. QED
      BY <2>3, <3>1, <3>2 DEF OneInverter
  <2>4. QED
    BY <2>2, <2>3
<1>2. QED
  BY <1>1, SpecIInv, PTL DEF Spec, ShownIsTheConfigured

-----------------------------------------------------------------------------
(* ReadingChecks.                                                          *)

(* What is counted is what the last polls faulty, and what holds is the    *)
(* first check that faulty them all.                                       *)
ChecksTypes ==
    /\ now \in Nat /\ grid_seen \in BOOLEAN /\ bms_seen \in BOOLEAN
    /\ last_believed \in Int \cup {Nothing} /\ level \in Int \cup {Nothing}
    /\ unmoved \in Nat \cup {Nothing}
    /\ polls \in [Checks -> 0 .. Damping] /\ since \in [Checks -> Nat \cup {Nothing}]
    /\ active \in Findings \cup {Nothing}
    /\ window \in Seq(SUBSET Checks) /\ Len(window) <= Damping
    /\ quiet \in [Checks -> Nat] /\ dark \in 0 .. Damping
    /\ stored \in [grid : BOOLEAN, bms : BOOLEAN]
    /\ announced \in Statuses \cup {Nothing} /\ current \in BOOLEAN

Enough == {c \in Checks : polls[c] >= Damping}

PollsCount(c) ==
    /\ polls[c] <= Len(window)
    /\ \A i \in 1 .. Len(window) : i > Len(window) - polls[c] => c \in window[i]
    /\ polls[c] < Len(window) => c \notin window[Len(window) - polls[c]]

FirstHolds ==
    IF Enough = {} THEN active = Nothing
    ELSE /\ active # Nothing
         /\ active.check = First(Enough) /\ active.status = Status[active.check]

(* Failures begin after the last poll without one of their status.         *)
BeganAfter(c, t) ==
    /\ t <= now
    /\ Status[c] = "inconsistent_readings" \/ t > quiet[c]

Times ==
    /\ unmoved # Nothing => unmoved <= now
    /\ \A c \in Checks : quiet[c] <= now
    /\ \A c, d \in Checks : Status[c] = Status[d] => quiet[c] = quiet[d]
    /\ \A c \in Checks : since[c] # Nothing => BeganAfter(c, since[c])
    /\ active # Nothing => BeganAfter(active.check, active.since)

(* What is learned and believed.                                           *)
Learned ==
    /\ stored.grid => grid_seen
    /\ grid_seen => polls["grid_voltage"] >= dark
    /\ level # Nothing /\ level > 2 * Margin => last_believed = level

Announced == told = announced /\ (current => announced = StatusOf(active))

ChecksInv ==
    /\ ChecksTypes
    /\ \A c \in Checks : PollsCount(c)
    /\ FirstHolds /\ Times /\ Learned /\ Announced
    /\ ADropToZeroIsDistrusted

-----------------------------------------------------------------------------
LEMMA TheChecks ==
    /\ Checks = {"off_grid", "grid_voltage", "bms", "battery_soc", "frozen"}
    /\ DOMAIN CHECKS = 1 .. 5
    /\ Statuses = {"off_grid", "battery_disconnected", "inconsistent_readings"}
    /\ \A c \in Checks : Status[c] \in Statuses
    /\ DOMAIN Status = Checks
<1>1. DOMAIN CHECKS = 1 .. 5
  BY DEF CHECKS
<1>2. Checks = {"off_grid", "grid_voltage", "bms", "battery_soc", "frozen"}
  BY <1>1 DEF Checks, CHECKS
<1> QED
  BY <1>1, <1>2 DEF Statuses, Status

LEMMA FirstOfChecks ==
    ASSUME NEW S \in SUBSET Checks
    PROVE  /\ S = {} => First(S) = Nothing
           /\ S # {} => First(S) \in S
           /\ "grid_voltage" \in S => First(S) \in {"off_grid", "grid_voltage"}
<1> DEFINE places == {i \in DOMAIN CHECKS : CHECKS[i] \in S}
<1>0. places \subseteq 1 .. 5
  BY TheChecks
<1>1. places = {} <=> S = {}
  BY DEF Checks
<1>2. places # {} => \E i \in places : \A j \in places : i <= j
  <2>1. CASE 1 \in places
    BY <1>0, <2>1
  <2>2. CASE 1 \notin places /\ 2 \in places
    BY <1>0, <2>2
  <2>3. CASE 1 \notin places /\ 2 \notin places /\ 3 \in places
    BY <1>0, <2>3
  <2>4. CASE 1 \notin places /\ 2 \notin places /\ 3 \notin places
    BY <1>0, <2>4
  <2> QED
    BY <2>1, <2>2, <2>3, <2>4
<1>3. S # {} => \E i \in places : First(S) = CHECKS[i] /\ \A j \in places : i <= j
  <2> SUFFICES ASSUME S # {} PROVE \E i \in places : First(S) = CHECKS[i] /\ \A j \in places : i <= j
    OBVIOUS
  <2> DEFINE i == CHOOSE i \in places : \A j \in places : i <= j
  <2>1. i \in places /\ \A j \in places : i <= j
    BY <1>1, <1>2
  <2>2. First(S) = CHECKS[i]
    BY <1>1 DEF First
  <2> QED
    BY <2>1, <2>2
<1>4. "grid_voltage" \in S => 2 \in places
  BY <1>0, TheChecks DEF CHECKS
<1>5. "grid_voltage" \in S => First(S) \in {"off_grid", "grid_voltage"}
  <2> SUFFICES ASSUME "grid_voltage" \in S PROVE First(S) \in {"off_grid", "grid_voltage"}
    OBVIOUS
  <2>1. PICK i \in places : First(S) = CHECKS[i] /\ i <= 2
    BY <1>0, <1>3, <1>4
  <2>2. i = 1 \/ i = 2
    BY <1>0, <2>1
  <2> QED
    BY <2>1, <2>2 DEF CHECKS
<1> QED
  BY <1>1, <1>3, <1>5 DEF First

(* The listener hears what it is told, in the order it is told.            *)
LEMMA OneAfterAnother ==
    ASSUME NEW x, NEW y
    PROVE  /\ <<x>> \o <<y>> # <<>> /\ Len(<<x>> \o <<y>>) = 2
           /\ (<<x>> \o <<y>>)[1] = x /\ (<<x>> \o <<y>>)[2] = y
<1> DEFINE T == {x, y}
<1>1. <<x>> \in Seq(T) /\ <<y>> \in Seq(T)
  OBVIOUS
<1>2. <<x>> \o <<y>> \in Seq(T) /\ Len(<<x>> \o <<y>>) = 2
  BY <1>1
<1>3. (<<x>> \o <<y>>)[1] = x /\ (<<x>> \o <<y>>)[2] = y
  BY <1>1
<1> QED
  BY <1>2, <1>3

LEMMA ListenerFollows ==
    ASSUME announced \in Statuses \cup {Nothing}, told = announced,
           NEW s \in Statuses \cup {Nothing}
    PROVE  Heard(told, Fires(s)) = s
<1>1. Nothing \notin Statuses /\ "confused" \notin Statuses /\ Nothing # "confused"
  BY ChecksConstants, TheChecks
<1> DEFINE cleared == [event |-> "cleared", status |-> announced]
           faulty == [event |-> "failed", status |-> s]
<1>2. CASE s = announced
  BY <1>2 DEF Fires, Heard
<1>3. CASE s # announced /\ announced = Nothing
  <2>1. Fires(s) = <<faulty>>
    BY <1>3 DEF Fires
  <2>2. Heard(told, <<faulty>>) = Hears(told, faulty)
    BY DEF Heard
  <2> QED
    BY <1>3, <2>1, <2>2 DEF Hears
<1>4. CASE s # announced /\ announced # Nothing /\ s = Nothing
  <2>1. Fires(s) = <<cleared>>
    BY <1>4 DEF Fires
  <2>2. Heard(told, <<cleared>>) = Hears(told, cleared)
    BY DEF Heard
  <2> QED
    BY <1>4, <2>1, <2>2 DEF Hears
<1>5. CASE s # announced /\ announced # Nothing /\ s # Nothing
  <2>1. Fires(s) = <<cleared>> \o <<faulty>>
    BY <1>5 DEF Fires
  <2>2. Heard(told, <<cleared>> \o <<faulty>>) = Hears(Hears(told, cleared), faulty)
    BY OneAfterAnother DEF Heard
  <2> QED
    BY <1>1, <1>5, <2>1, <2>2 DEF Hears
<1> QED
  BY <1>2, <1>3, <1>4, <1>5

-----------------------------------------------------------------------------
(* The parts of Run.                                                       *)
Longer(faulty) ==
    LET longer == Append(window, faulty)
    IN  IF Len(longer) > Damping THEN Tail(longer) ELSE longer

LEMMA CountsAreKept ==
    ASSUME ChecksTypes, \A c \in Checks : PollsCount(c), NEW faulty \in SUBSET Checks,
           polls' = Counted(faulty), window' = Longer(faulty)
    PROVE  /\ polls' \in [Checks -> 0 .. Damping]
           /\ window' \in Seq(SUBSET Checks) /\ Len(window') <= Damping
           /\ \A c \in Checks : PollsCount(c)'
<1>0. /\ Damping \in Nat /\ Damping > 0 /\ window \in Seq(SUBSET Checks) /\ Len(window) \in Nat
      /\ Len(window) <= Damping /\ \A c \in Checks : polls[c] \in 0 .. Damping
  BY ChecksConstants DEF ChecksTypes
<1>1. /\ \A c \in Checks : polls'[c] = IF c \notin faulty THEN 0
                                       ELSE IF polls[c] < Damping THEN polls[c] + 1 ELSE polls[c]
      /\ polls' \in [Checks -> 0 .. Damping]
  BY <1>0 DEF Counted
<1> DEFINE longer == Append(window, faulty)
<1>2. /\ longer \in Seq(SUBSET Checks) /\ Len(longer) = Len(window) + 1
      /\ \A i \in 1 .. Len(window) : longer[i] = window[i]
      /\ longer[Len(window) + 1] = faulty
  BY <1>0
<1>3. CASE Len(window) < Damping
  <2>1. window' = longer /\ Len(window') = Len(window) + 1
    BY <1>0, <1>2, <1>3 DEF Longer
  <2>2. ASSUME NEW c \in Checks PROVE PollsCount(c)'
    <3>1. PollsCount(c) /\ polls[c] \in 0 .. Damping
      BY <1>0
    <3>2. CASE c \notin faulty
      BY <1>0, <1>1, <1>2, <1>3, <2>1, <3>2 DEF PollsCount
    <3>3. CASE c \in faulty
      <4>1. polls'[c] = polls[c] + 1 /\ polls'[c] <= Len(window')
        BY <1>0, <1>1, <1>3, <2>1, <3>1, <3>3 DEF PollsCount
      <4>2. \A i \in 1 .. Len(window') : i > Len(window') - polls'[c] => c \in window'[i]
        BY <1>0, <1>2, <2>1, <3>1, <3>3, <4>1 DEF PollsCount
      <4>3. polls'[c] < Len(window') => c \notin window'[Len(window') - polls'[c]]
        <5>1. polls'[c] < Len(window') => Len(window') - polls'[c] \in 1 .. Len(window)
                                         /\ Len(window') - polls'[c] = Len(window) - polls[c]
          BY <1>0, <2>1, <3>1, <4>1
        <5> QED
          BY <1>0, <1>2, <2>1, <3>1, <4>1, <5>1 DEF PollsCount
      <4> QED
        BY <4>1, <4>2, <4>3 DEF PollsCount
    <3> QED
      BY <3>2, <3>3
  <2> QED
    BY <1>0, <1>1, <1>2, <1>3, <2>1, <2>2
<1>4. CASE Len(window) = Damping
  <2>1. /\ window' = Tail(longer) /\ window' \in Seq(SUBSET Checks) /\ Len(window') = Len(window)
        /\ \A i \in 1 .. Len(window) : window'[i] = longer[i + 1]
    <3>1. window' = Tail(longer) /\ longer # <<>>
      BY <1>0, <1>2, <1>4 DEF Longer
    <3> HIDE DEF longer
    <3> QED
      BY <1>0, <1>2, <3>1
  <2>2. /\ \A i \in 1 .. Len(window) - 1 : window'[i] = window[i + 1]
        /\ window'[Len(window)] = faulty
    BY <1>0, <1>2, <1>4, <2>1
  <2>3. ASSUME NEW c \in Checks PROVE PollsCount(c)'
    <3>1. PollsCount(c) /\ polls[c] \in 0 .. Damping
      BY <1>0
    <3>2. CASE c \notin faulty
      BY <1>0, <1>1, <1>4, <2>1, <2>2, <3>2 DEF PollsCount
    <3>3. CASE c \in faulty
      <4>1. polls'[c] <= Len(window')
        BY <1>0, <1>1, <1>4, <2>1, <3>1
      <4>2. \A i \in 1 .. Len(window') : i > Len(window') - polls'[c] => c \in window'[i]
        <5>1. ASSUME NEW i \in 1 .. Len(window) - 1, i > Len(window) - polls'[c]
              PROVE  c \in window'[i]
          BY <1>0, <1>1, <1>4, <2>1, <2>2, <3>1, <3>3, <5>1 DEF PollsCount
        <5> QED
          BY <1>0, <1>4, <2>1, <2>2, <3>3, <5>1
      <4>3. polls'[c] < Len(window') => c \notin window'[Len(window') - polls'[c]]
        <5>1. polls'[c] < Len(window')
                => /\ polls'[c] = polls[c] + 1 /\ polls[c] < Len(window)
                   /\ Len(window') - polls'[c] \in 1 .. Len(window) - 1
                   /\ Len(window') - polls'[c] + 1 = Len(window) - polls[c]
          <6> SUFFICES ASSUME polls'[c] < Len(window')
                       PROVE  /\ polls'[c] = polls[c] + 1 /\ polls[c] < Len(window)
                              /\ Len(window') - polls'[c] \in 1 .. Len(window) - 1
                              /\ Len(window') - polls'[c] + 1 = Len(window) - polls[c]
            OBVIOUS
          <6>1. polls'[c] < Damping /\ Len(window') = Damping
            BY <1>4, <2>1
          <6>2. polls[c] < Damping /\ polls'[c] = polls[c] + 1
            BY <1>0, <1>1, <3>1, <3>3, <6>1
          <6> QED
            BY <1>0, <1>4, <3>1, <6>1, <6>2
        <5> QED
          BY <2>1, <2>2, <3>1, <5>1 DEF PollsCount
      <4> QED
        BY <4>1, <4>2, <4>3 DEF PollsCount
    <3> QED
      BY <3>2, <3>3
  <2> QED
    BY <1>0, <1>1, <1>4, <2>1, <2>3
<1> QED
  BY <1>0, <1>3, <1>4

(* The failures and what is found, with their times.                       *)
LEMMA FindingIsKept ==
    ASSUME ChecksTypes, FirstHolds, Times, NEW faulty \in SUBSET Checks, now' = now + 1,
           polls' = Counted(faulty), polls' \in [Checks -> 0 .. Damping],
           since' = Since(faulty, now + 1), active' = Finding(Held(faulty, polls'), since'),
           quiet' = [c \in Checks |->
                        IF \E other \in faulty : Status[other] = Status[c] THEN quiet[c]
                        ELSE now + 1]
    PROVE  /\ since' \in [Checks -> Nat \cup {Nothing}] /\ active' \in Findings \cup {Nothing}
           /\ quiet' \in [Checks -> Nat]
           /\ FirstHolds'
           /\ \A c \in Checks : quiet'[c] <= now'
           /\ \A c, d \in Checks : Status[c] = Status[d] => quiet'[c] = quiet'[d]
           /\ \A c \in Checks : since'[c] # Nothing => BeganAfter(c, since[c])'
           /\ active' # Nothing => BeganAfter(active.check, active.since)'
           /\ active # Nothing /\ active' # Nothing /\ active'.status = active.status
                 => active'.since = active.since
<1>0. /\ now \in Nat /\ Damping \in Nat /\ Damping > 0 /\ Nothing \notin Nat /\ Nothing \notin Checks
      /\ Nothing \notin Findings /\ unmoved \in Nat \cup {Nothing}
      /\ (unmoved # Nothing => unmoved <= now)
      /\ \A c \in Checks : since[c] \in Nat \cup {Nothing} /\ quiet[c] \in Nat /\ quiet[c] <= now
      /\ active \in Findings \cup {Nothing}
  BY ChecksConstants DEF ChecksTypes, Times
<1>1. /\ \A c \in Checks : quiet'[c] = IF \E other \in faulty : Status[other] = Status[c]
                                       THEN quiet[c] ELSE now + 1
      /\ quiet' \in [Checks -> Nat] /\ \A c \in Checks : quiet'[c] <= now'
  BY <1>0
<1>2. \A c, d \in Checks : Status[c] = Status[d] => quiet'[c] = quiet'[d]
  BY <1>1 DEF Times
<1>3. \A c \in Checks : since'[c] = IF c \notin faulty THEN Nothing
                                   ELSE IF since[c] = Nothing THEN Onset(c, now + 1) ELSE since[c]
  BY DEF Since
<1>4. \A c \in Checks : Onset(c, now + 1) \in Nat /\ Onset(c, now + 1) <= now'
                        /\ (c # "frozen" => Onset(c, now + 1) = now + 1)
  BY <1>0 DEF Onset
<1>5. /\ since' \in [Checks -> Nat \cup {Nothing}]
      /\ \A c \in faulty : since'[c] \in Nat
  <2>1. \A c \in Checks : since'[c] \in Nat \cup {Nothing}
    BY <1>0, <1>3, <1>4
  <2>2. \A c \in faulty : since'[c] \in Nat
    BY <1>0, <1>3, <1>4
  <2> QED
    BY <2>1, <2>2 DEF Since
<1>6. ASSUME NEW c \in Checks, since'[c] # Nothing
      PROVE  BeganAfter(c, since[c])'
  <2>1. c \in faulty /\ quiet'[c] = quiet[c]
    BY <1>1, <1>3, <1>6
  <2>2. CASE since[c] = Nothing
    <3>1. since'[c] = Onset(c, now + 1)
      BY <1>3, <2>1, <2>2
    <3>2. c = "frozen" => Status[c] = "inconsistent_readings"
      BY DEF Status
    <3> QED
      BY <1>0, <1>4, <2>1, <3>1, <3>2 DEF BeganAfter
  <2>3. CASE since[c] # Nothing
    BY <1>0, <1>3, <2>1, <2>3 DEF BeganAfter, Times
  <2> QED
    BY <2>2, <2>3
<1> DEFINE held == Held(faulty, polls')
<1>7. Enough' = {c \in faulty : polls'[c] >= Damping}
  <2>1. \A c \in Checks : c \notin faulty => polls'[c] = 0
    BY DEF Counted
  <2> QED
    BY <1>0, <2>1 DEF Enough
<1>8. held = First(Enough') /\ Enough' \in SUBSET Checks /\ Enough' \subseteq faulty
  BY <1>7 DEF Held
<1>9. CASE Enough' = {}
  <2>1. held = Nothing /\ active' = Nothing
    BY <1>8, <1>9, FirstOfChecks DEF Finding
  <2> QED
    BY <1>1, <1>2, <1>5, <1>6, <1>9, <2>1 DEF FirstHolds
<1>10. CASE Enough' # {}
  <2>1. held \in faulty /\ held \in Checks /\ held # Nothing
    BY <1>0, <1>8, <1>10, FirstOfChecks
  <2>2. Status[held] \in Statuses /\ since'[held] \in Nat
    BY <1>5, <2>1, TheChecks
  <2>3. quiet'[held] = quiet[held]
    BY <1>1, <2>1
  <2>4. CASE active = Nothing \/ active.status # Status[held]
    <3>1. active' = [status |-> Status[held], check |-> held, since |-> since'[held]]
      BY <2>1, <2>4 DEF Finding
    <3>2. active' \in Findings /\ active' # Nothing
      BY <1>0, <2>1, <2>2, <3>1 DEF Findings
    <3>3. FirstHolds'
      BY <1>8, <1>10, <3>1, <3>2 DEF FirstHolds
    <3>4. BeganAfter(active.check, active.since)'
      BY <1>0, <1>6, <2>1, <2>2, <3>1 DEF BeganAfter
    <3> QED
      BY <1>1, <1>2, <1>5, <1>6, <2>4, <3>1, <3>2, <3>3, <3>4
  <2>5. CASE active # Nothing /\ active.status = Status[held]
    <3>1. /\ active' = [active EXCEPT !.check = held]
          /\ active \in Findings /\ active.check \in Checks /\ active.since \in Nat
      BY <1>0, <2>1, <2>5 DEF Finding, Findings
    <3>2. /\ active' \in Findings /\ active' # Nothing /\ active'.check = held
          /\ active'.status = active.status /\ active'.since = active.since
      BY <1>0, <2>1, <3>1 DEF Findings
    <3>3. FirstHolds'
      BY <1>8, <1>10, <2>5, <3>2 DEF FirstHolds
    <3>4. quiet[held] = quiet[active.check] /\ Status[active.check] = Status[held]
      BY <2>1, <2>5, <3>1 DEF Times, FirstHolds
    <3>5. BeganAfter(active.check, active.since)'
      BY <1>0, <2>3, <2>5, <3>1, <3>2, <3>4 DEF BeganAfter, Times
    <3> QED
      BY <1>1, <1>2, <1>5, <1>6, <3>2, <3>3, <3>5
  <2> QED
    BY <2>4, <2>5
<1> QED
  BY <1>9, <1>10

(* What a poll learns, and what it takes for a level.                      *)
LEMMA LearnedIsKept ==
    ASSUME ChecksTypes, Learned, NEW f \in Frames, NEW faulty, now' = now + 1,
           faulty = {c \in Checks : Fails(c, f, now + 1)},
           polls' = Counted(faulty), Remember(f, faulty, now + 1),
           level' = IF f.soc # Nothing /\ f.soc > 0 THEN f.soc ELSE level,
           dark' = IF f.grid # "absent" THEN 0
                   ELSE IF dark < Damping THEN dark + 1 ELSE dark,
           stored' = stored,
           unmoved # Nothing => unmoved <= now
    PROVE  /\ grid_seen' \in BOOLEAN /\ bms_seen' \in BOOLEAN
           /\ last_believed' \in Int \cup {Nothing} /\ level' \in Int \cup {Nothing}
           /\ unmoved' \in Nat \cup {Nothing} /\ (unmoved' # Nothing => unmoved' <= now')
           /\ dark' \in 0 .. Damping
           /\ Learned'
           /\ level' # Nothing /\ level' > 2 * Margin /\ f.soc = 0 => "battery_soc" \in faulty
<1>0. /\ Damping \in Nat /\ Margin \in Nat /\ Damping > 0 /\ f.soc \in Int \cup {Nothing}
      /\ Nothing \notin Int /\ now \in Nat
      /\ last_believed \in Int \cup {Nothing} /\ level \in Int \cup {Nothing}
      /\ grid_seen \in BOOLEAN /\ bms_seen \in BOOLEAN /\ dark \in 0 .. Damping
      /\ \A c \in Checks : polls[c] \in 0 .. Damping
      /\ unmoved \in Nat \cup {Nothing}
  BY ChecksConstants DEF ChecksTypes
<1>1. "grid_voltage" \in Checks /\ "battery_soc" \in Checks
  BY TheChecks
<1>2. /\ grid_seen' = (grid_seen \/ f.grid = "present")
      /\ bms_seen' = (bms_seen \/ Report(f).bms_connected)
      /\ last_believed' = IF f.soc = Nothing \/ "battery_soc" \in faulty THEN last_believed ELSE f.soc
  BY DEF Remember, Believed
<1>3. unmoved' \in Nat \cup {Nothing} /\ (unmoved' # Nothing => unmoved' <= now')
  BY <1>0 DEF Remember
<1>4. /\ "grid_voltage" \in faulty <=> grid_seen /\ f.grid = "absent"
      /\ "battery_soc" \in faulty <=> f.soc # Nothing /\ f.soc <= 0 /\ Implausible(f)
  BY <1>1 DEF Fails
<1>5. grid_seen' => polls'["grid_voltage"] >= dark'
  <2>1. CASE f.grid # "absent"
    BY <1>0, <1>1, <2>1 DEF Counted
  <2>2. CASE f.grid = "absent"
    <3> SUFFICES ASSUME grid_seen' PROVE polls'["grid_voltage"] >= dark'
      OBVIOUS
    <3>1. grid_seen /\ "grid_voltage" \in faulty
      BY <1>2, <1>4, <2>2
    <3>2. polls["grid_voltage"] >= dark /\ polls["grid_voltage"] \in 0 .. Damping
      BY <1>0, <1>1, <3>1 DEF Learned
    <3>3. polls'["grid_voltage"] = IF polls["grid_voltage"] < Damping THEN polls["grid_voltage"] + 1
                                   ELSE polls["grid_voltage"]
      BY <1>1, <3>1 DEF Counted
    <3>4. dark' = IF dark < Damping THEN dark + 1 ELSE dark
      BY <2>2
    <3> QED
      BY <1>0, <3>2, <3>3, <3>4
  <2> QED
    BY <2>1, <2>2
<1>6. /\ last_believed' \in Int \cup {Nothing} /\ level' \in Int \cup {Nothing}
      /\ (level' # Nothing /\ level' > 2 * Margin => last_believed' = level')
      /\ (level' # Nothing /\ level' > 2 * Margin /\ f.soc = 0 => "battery_soc" \in faulty)
  <2>1. CASE f.soc # Nothing /\ f.soc > 0
    BY <1>0, <1>2, <1>4, <2>1
  <2>2. CASE f.soc = Nothing
    BY <1>0, <1>2, <2>2 DEF Learned
  <2>3. CASE f.soc # Nothing /\ ~(f.soc > 0)
    <3>1. level' = level /\ f.soc <= 0
      BY <1>0, <2>3
    <3>2. CASE level # Nothing /\ level > 2 * Margin
      <4>1. last_believed = level /\ Implausible(f)
        BY <3>2 DEF Learned, Implausible
      <4>2. "battery_soc" \in faulty
        BY <1>4, <2>3, <3>1, <4>1
      <4> QED
        BY <1>0, <1>2, <3>1, <4>1, <4>2
    <3>3. CASE ~(level # Nothing /\ level > 2 * Margin)
      BY <1>0, <1>2, <3>1, <3>3
    <3> QED
      BY <3>2, <3>3
  <2> QED
    BY <2>1, <2>2, <2>3
<1> QED
  BY <1>0, <1>2, <1>3, <1>5, <1>6 DEF Learned, Report, NoReport

-----------------------------------------------------------------------------
LEMMA ChecksInitInv == ChecksInit => ChecksInv
<1> SUFFICES ASSUME ChecksInit PROVE ChecksInv
  OBVIOUS
<1>0. Damping \in Nat /\ Damping > 0 /\ Margin \in Nat
  BY ChecksConstants
<1>1. ChecksTypes
  <2>1. /\ polls \in [Checks -> 0 .. Damping] /\ since \in [Checks -> Nat \cup {Nothing}]
        /\ quiet \in [Checks -> Nat] /\ stored \in [grid : BOOLEAN, bms : BOOLEAN]
    BY <1>0 DEF ChecksInit
  <2>2. window \in Seq(SUBSET Checks) /\ Len(window) <= Damping
    BY <1>0 DEF ChecksInit
  <2>3. /\ now = 0 /\ dark = 0 /\ ~grid_seen /\ ~bms_seen /\ current
        /\ grid_seen \in BOOLEAN /\ bms_seen \in BOOLEAN /\ current \in BOOLEAN
        /\ last_believed = Nothing /\ level = Nothing /\ unmoved = Nothing
        /\ active = Nothing /\ announced = Nothing
    BY DEF ChecksInit
  <2> QED
    BY <1>0, <2>1, <2>2, <2>3 DEF ChecksTypes
<1>2. \A c \in Checks : PollsCount(c)
  BY <1>0 DEF ChecksInit, PollsCount
<1>3. Enough = {}
  BY <1>0 DEF ChecksInit, Enough
<1>4. FirstHolds /\ Times /\ Learned /\ Announced /\ ADropToZeroIsDistrusted
  BY <1>0, <1>3, TheChecks DEF ChecksInit, FirstHolds, Times, Learned, Announced, StatusOf,
                               ADropToZeroIsDistrusted
<1> QED
  BY <1>1, <1>2, <1>4 DEF ChecksInv

LEMMA PollKeeps ==
    ASSUME ChecksInv, NEW f \in Frames, Poll(f)
    PROVE  /\ ChecksInv'
           /\ active # Nothing /\ active' # Nothing /\ active'.status = active.status
                 => active'.since = active.since
<1>0. ChecksTypes /\ FirstHolds /\ Times /\ Learned /\ Announced
  BY DEF ChecksInv
<1> DEFINE faulty == {c \in Checks : Fails(c, f, now + 1)}
<1>1. /\ now' = now + 1 /\ now' \in Nat
      /\ frame' = f /\ failing' = faulty /\ stored' = stored
      /\ polls' = Counted(faulty) /\ since' = Since(faulty, now + 1)
      /\ active' = Finding(Held(faulty, polls'), since')
      /\ Remember(f, faulty, now + 1)
      /\ window' = Longer(faulty)
      /\ quiet' = [c \in Checks |->
                      IF \E other \in faulty : Status[other] = Status[c] THEN quiet[c]
                      ELSE now + 1]
      /\ level' = (IF f.soc # Nothing /\ f.soc > 0 THEN f.soc ELSE level)
      /\ dark' = (IF f.grid # "absent" THEN 0
                  ELSE IF dark < Damping THEN dark + 1 ELSE dark)
  BY <1>0 DEF Poll, Run, Tick, Longer, ChecksTypes
<1>2. faulty \in SUBSET Checks
  OBVIOUS
<1>3. PICK x : x = faulty
  OBVIOUS
<1> HIDE DEF faulty
<1>4. /\ polls' \in [Checks -> 0 .. Damping]
      /\ window' \in Seq(SUBSET Checks) /\ Len(window') <= Damping
      /\ \A c \in Checks : PollsCount(c)'
  BY <1>0, <1>1, <1>2, CountsAreKept DEF ChecksInv
<1>5. /\ since' \in [Checks -> Nat \cup {Nothing}] /\ active' \in Findings \cup {Nothing}
      /\ quiet' \in [Checks -> Nat]
      /\ FirstHolds'
      /\ \A c \in Checks : quiet'[c] <= now'
      /\ \A c, d \in Checks : Status[c] = Status[d] => quiet'[c] = quiet'[d]
      /\ \A c \in Checks : since'[c] # Nothing => BeganAfter(c, since[c])'
      /\ active' # Nothing => BeganAfter(active.check, active.since)'
      /\ active # Nothing /\ active' # Nothing /\ active'.status = active.status
            => active'.since = active.since
  BY <1>0, <1>1, <1>2, <1>4, FindingIsKept
<1>6. /\ grid_seen' \in BOOLEAN /\ bms_seen' \in BOOLEAN
      /\ last_believed' \in Int \cup {Nothing} /\ level' \in Int \cup {Nothing}
      /\ unmoved' \in Nat \cup {Nothing} /\ (unmoved' # Nothing => unmoved' <= now')
      /\ dark' \in 0 .. Damping
      /\ Learned'
      /\ level' # Nothing /\ level' > 2 * Margin /\ f.soc = 0 => "battery_soc" \in faulty
  BY <1>0, <1>1, LearnedIsKept DEF faulty, Times
<1>7. announced' \in Statuses \cup {Nothing} /\ current' \in BOOLEAN /\ Announced'
  <2>1. StatusOf(active') \in Statuses \cup {Nothing}
    BY <1>5 DEF StatusOf, Findings
  <2>2. CASE Track(active')
    <3>1. announced' = StatusOf(active') /\ told' = Heard(told, Fires(StatusOf(active')))
          /\ current' = TRUE
      BY <2>2 DEF Track
    <3>2. told' = StatusOf(active')
      BY <1>0, <2>1, <3>1, ListenerFollows DEF ChecksTypes, Announced
    <3> QED
      BY <2>1, <3>1, <3>2 DEF Announced, StatusOf
  <2>3. CASE UNCHANGED <<announced, told>> /\ current' = FALSE
    BY <1>0, <2>3 DEF ChecksTypes, Announced
  <2> QED
    BY <2>2, <2>3 DEF Poll
<1>8. ChecksTypes'
  BY <1>0, <1>1, <1>4, <1>5, <1>6, <1>7 DEF ChecksTypes
<1>9. Times' /\ ADropToZeroIsDistrusted'
  BY <1>1, <1>5, <1>6 DEF Times, ADropToZeroIsDistrusted
<1> QED
  BY <1>4, <1>5, <1>6, <1>7, <1>8, <1>9 DEF ChecksInv

LEMMA OthersKeep ==
    ASSUME ChecksInv, MissPoll \/ Save \/ Restart \/ UNCHANGED checksVars
    PROVE  /\ ChecksInv'
           /\ active # Nothing /\ active' # Nothing => active' = active
<1>0. ChecksTypes /\ FirstHolds /\ Times /\ Learned /\ Announced /\ ADropToZeroIsDistrusted
      /\ \A c \in Checks : PollsCount(c)
  BY DEF ChecksInv
<1>1. CASE UNCHANGED <<learned, memory, counted, announced, told, current, history>>
           /\ now' \in Nat /\ now <= now'
           /\ stored' \in {stored, [grid |-> grid_seen, bms |-> bms_seen]}
  <2>1. UNCHANGED <<grid_seen, bms_seen, last_believed, last, unmoved, polls, since, active, failing,
                    announced, told, current, frame, window, level, quiet, dark>>
    BY <1>1 DEF learned, memory, counted, history
  <2>2. ChecksTypes'
    BY <1>0, <1>1, <2>1 DEF ChecksTypes
  <2>3. (\A c \in Checks : PollsCount(c)') /\ FirstHolds' /\ Announced' /\ ADropToZeroIsDistrusted'
    BY <1>0, <2>1 DEF PollsCount, FirstHolds, Enough, Announced, ADropToZeroIsDistrusted, StatusOf
  <2>4. Learned'
    BY <1>0, <1>1, <2>1 DEF Learned
  <2>5. Times'
    <3>1. now \in Nat /\ \A c \in Checks : quiet[c] \in Nat
      BY <1>0 DEF ChecksTypes
    <3>2. /\ unmoved # Nothing => unmoved \in Nat
          /\ \A c \in Checks : since[c] # Nothing => since[c] \in Nat
          /\ active # Nothing => active.since \in Nat
      BY <1>0 DEF ChecksTypes, Findings
    <3> QED
      BY <1>0, <1>1, <2>1, <3>1, <3>2 DEF Times, BeganAfter
  <2> QED
    BY <2>1, <2>2, <2>3, <2>4, <2>5 DEF ChecksInv
<1>2. CASE Restart
  <2>0. Damping \in Nat /\ Damping > 0 /\ Margin \in Nat
    BY ChecksConstants
  <2>1. /\ now' = now /\ stored' = stored /\ grid_seen' = stored.grid /\ bms_seen' = stored.bms
        /\ last_believed' = Nothing /\ unmoved' = Nothing /\ active' = Nothing
        /\ polls' = [c \in Checks |-> 0] /\ since' = [c \in Checks |-> Nothing]
        /\ announced' = Nothing /\ told' = Nothing /\ current' = TRUE
        /\ window' = <<>> /\ level' = Nothing /\ quiet' = [c \in Checks |-> now] /\ dark' = 0
    BY <1>2 DEF Restart, Load
  <2>2. ChecksTypes'
    BY <1>0, <2>0, <2>1 DEF ChecksTypes
  <2>3. \A c \in Checks : PollsCount(c)'
    BY <2>1 DEF PollsCount
  <2>4. Enough' = {}
    BY <2>0, <2>1 DEF Enough
  <2>5. FirstHolds' /\ Times' /\ Learned' /\ Announced' /\ ADropToZeroIsDistrusted'
    BY <1>0, <2>0, <2>1, <2>4, TheChecks
       DEF FirstHolds, Times, Learned, Announced, StatusOf, ADropToZeroIsDistrusted, ChecksTypes
  <2> QED
    BY <2>1, <2>2, <2>3, <2>5 DEF ChecksInv
<1>3. CASE MissPoll
  BY <1>0, <1>1, <1>3 DEF MissPoll, Tick, ChecksTypes
<1>4. CASE Save
  BY <1>0, <1>1, <1>4 DEF Save, ChecksTypes
<1>5. CASE UNCHANGED checksVars
  BY <1>0, <1>1, <1>5 DEF checksVars, ChecksTypes
<1> QED
  BY <1>2, <1>3, <1>4, <1>5

LEMMA ChecksNextInv ==
    ASSUME ChecksInv, [ChecksNext]_checksVars
    PROVE  /\ ChecksInv'
           /\ active # Nothing /\ active' # Nothing /\ active'.status = active.status
                 => active'.since = active.since
BY PollKeeps, OthersKeep DEF ChecksNext

THEOREM ChecksAlways == ChecksSpec => []ChecksInv
BY ChecksInitInv, ChecksNextInv, PTL DEF ChecksSpec

(* The counts of the five checks are what the last polls faulty, so what   *)
(* is shown is the first check that faulty in all of them, whichever       *)
(* fail, recover and mask one another in between.                          *)
THEOREM HeldIsShown == ChecksSpec => []TheHeldFailureIsShown
<1>1. ChecksInv => TheHeldFailureIsShown
  <2> SUFFICES ASSUME ChecksInv PROVE FailedThroughout = Enough
    BY DEF ChecksInv, FirstHolds, TheHeldFailureIsShown
  <2>0. /\ Damping \in Nat /\ Damping > 0 /\ Len(window) \in Nat /\ Len(window) <= Damping
        /\ DOMAIN window = 1 .. Len(window)
        /\ \A c \in Checks : polls[c] \in 0 .. Damping
    BY ChecksConstants DEF ChecksInv, ChecksTypes
  <2>1. ASSUME NEW c \in Checks, polls[c] >= Damping
        PROVE  Len(window) = Damping /\ \A i \in DOMAIN window : c \in window[i]
    <3>1. PollsCount(c)
      BY DEF ChecksInv
    <3>2. polls[c] <= Len(window) /\ polls[c] \in 0 .. Damping
      BY <2>0, <3>1 DEF PollsCount
    <3>3. polls[c] = Damping /\ Len(window) = Damping
      <4>1. /\ Damping \in Nat /\ Len(window) \in Nat /\ polls[c] \in Nat
            /\ Damping <= polls[c] /\ polls[c] <= Damping
            /\ polls[c] <= Len(window) /\ Len(window) <= Damping
        BY <2>0, <2>1, <3>2
      <4> QED
        BY ONLY <4>1
    <3>4. ASSUME NEW i \in 1 .. Len(window) PROVE c \in window[i]
      <4>1. i > Len(window) - polls[c]
        BY <2>0, <3>3
      <4> QED
        BY <3>1, <3>4, <4>1 DEF PollsCount
    <3> QED
      BY <2>0, <3>3, <3>4
  <2>2. ASSUME NEW c \in Checks, Len(window) = Damping, \A i \in DOMAIN window : c \in window[i]
        PROVE  polls[c] >= Damping
    <3> SUFFICES ASSUME polls[c] < Len(window) PROVE FALSE
      BY <2>0, <2>2
    <3>1. Len(window) - polls[c] \in DOMAIN window /\ polls[c] \in 0 .. Damping
      BY <2>0
    <3>2. c \notin window[Len(window) - polls[c]]
      BY DEF ChecksInv, PollsCount
    <3> QED
      BY <2>2, <3>1, <3>2
  <2> QED
    BY <2>1, <2>2 DEF FailedThroughout, Enough
<1> QED
  BY <1>1, ChecksAlways, PTL

(* The time shown with a failure is no later than now and later than the   *)
(* last poll without a failure of its status, and it stays while the       *)
(* status does, whichever check stands for it.                             *)
THEOREM ShownSinceItBegan == ChecksSpec => SinceItBegan
<1>1. ChecksInv => (active # Nothing =>
             /\ active.since <= now
             /\ \/ active.status = "inconsistent_readings"
                \/ active.since > quiet[active.check])
  BY DEF ChecksInv, Times, BeganAfter, FirstHolds
<1>2. ChecksInv /\ [ChecksNext]_checksVars
        => [active # Nothing /\ active' # Nothing /\ active'.status = active.status
               => active'.since = active.since]_checksVars
  BY ChecksNextInv
<1> QED
  BY <1>1, <1>2, ChecksAlways, PTL DEF ChecksSpec, SinceItBegan

(* A listener that only hears the events knows what has faulty after each  *)
(* poll that went through, also when polls between fail once their checks  *)
(* have run: no event contradicts the ones before.                         *)
THEOREM EventsAreAlwaysTrue == ChecksSpec => []EventsAreTrue
<1>1. ChecksInv => EventsAreTrue
  BY ChecksConstants, TheChecks DEF ChecksInv, ChecksTypes, Announced, EventsAreTrue
<1> QED
  BY <1>1, ChecksAlways, PTL

(* Once a level no battery empties from has been read, a level of 0 is     *)
(* distrusted for as long as it is read: distrusting it keeps the level    *)
(* that was believed before.                                               *)
THEOREM DropsAreDistrusted == ChecksSpec => []ADropToZeroIsDistrusted
<1>1. ChecksInv => ADropToZeroIsDistrusted
  BY DEF ChecksInv
<1> QED
  BY <1>1, ChecksAlways, PTL

(* What was saved of a model that reports its grid voltage is enough to    *)
(* tell an outage after a restart, however early the crash came.           *)
THEOREM OutagesOutlastRestarts == ChecksSpec => []AnOutageOutlastsARestart
<1>1. ChecksInv => AnOutageOutlastsARestart
  <2> SUFFICES ASSUME ChecksInv, stored.grid, dark >= Damping
               PROVE  active # Nothing /\ active.status = "off_grid"
    BY DEF AnOutageOutlastsARestart
  <2>0. /\ Damping \in Nat /\ dark \in 0 .. Damping /\ "grid_voltage" \in Checks
        /\ polls["grid_voltage"] \in 0 .. Damping
    BY ChecksConstants, TheChecks DEF ChecksInv, ChecksTypes
  <2>1. polls["grid_voltage"] >= dark
    BY DEF ChecksInv, Learned
  <2>2. "grid_voltage" \in Enough /\ Enough \in SUBSET Checks
    BY <2>0, <2>1 DEF Enough
  <2>3. First(Enough) \in {"off_grid", "grid_voltage"}
    BY <2>2, FirstOfChecks
  <2> QED
    BY <2>2, <2>3 DEF ChecksInv, FirstHolds, Status
<1> QED
  BY <1>1, ChecksAlways, PTL

-----------------------------------------------------------------------------
(* ReadPlan.                                                               *)

(* Of some numbers there is a least.                                       *)
LEMMA LeastNumber ==
    ASSUME NEW S \in SUBSET Nat, S # {}
    PROVE  \E x \in S : \A y \in S : x <= y
<1> DEFINE R == OpToRel(<, Nat)
<1>1. IsWellFoundedOn(R, Nat)
  BY NatLessThanWellFounded
<1>2. \A y, x \in Nat : y < x => <<y, x>> \in R
  BY DEF OpToRel
<1> HIDE DEF R
<1>3. PICK x \in S : \A y \in S : ~(<<y, x>> \in R)
  BY <1>1, WFMin
<1>4. ASSUME NEW y \in S PROVE x <= y
  <2>1. x \in Nat /\ y \in Nat
    OBVIOUS
  <2>2. ~(y < x)
    BY <1>2, <1>3, <2>1, Zenon
  <2>3. QED
    BY <2>1, <2>2
<1>5. QED
  BY <1>4

(* So what holds of 0, and of each number after one of which it does, up   *)
(* to a bound, holds of all of them.                                       *)
LEMMA UpTo ==
    ASSUME NEW n \in Nat, NEW T, 0 \in T,
           \A i \in 1 .. n : i - 1 \in T => i \in T
    PROVE  \A i \in 0 .. n : i \in T
<1>1. SUFFICES ASSUME ~(\A i \in 0 .. n : i \in T) PROVE FALSE
  OBVIOUS
<1> DEFINE S == {i \in 0 .. n : i \notin T}
<1>2. PICK i \in S : \A j \in S : i <= j
  <2>1. S \in SUBSET Nat /\ S # {}
    BY <1>1
  <2> HIDE DEF S
  <2>2. QED
    BY <2>1, LeastNumber
<1>3. i \in 1 .. n /\ i - 1 \in 0 .. n /\ i - 1 \notin S
  BY <1>2
<1>4. i - 1 \in T
  BY <1>3
<1>5. i \in T
  BY <1>3, <1>4
<1>6. QED
  BY <1>2, <1>5

(* Of some numbers up to a bound, Max is the largest.                      *)
LEMMA LargestIsMax ==
    ASSUME NEW n \in Nat, NEW s \in SUBSET (1 .. n), s # {}
    PROVE  Max(s) \in s /\ \A y \in s : Max(s) >= y
<1> DEFINE S == {n - x : x \in s}
<1>1. PICK d \in S : \A e \in S : d <= e
  <2>1. ASSUME NEW x \in s PROVE n - x \in Nat
    <3>1. x \in 1 .. n
      OBVIOUS
    <3>2. QED
      BY <3>1
  <2>2. S \in SUBSET Nat /\ S # {}
    BY <2>1
  <2>3. QED
    BY <2>2, LeastNumber
<1>2. PICK x \in s : d = n - x
  OBVIOUS
<1>3. \A y \in s : x >= y
  <2>1. ASSUME NEW y \in s PROVE x >= y
    <3>1. d <= n - y /\ x \in 1 .. n /\ y \in 1 .. n
      BY <1>1
    <3>2. QED
      BY <1>2, <3>1
  <2>2. QED
    BY <2>1
<1>4. QED
  BY <1>3 DEF Max

N == Len(Registers)

\* What the fold of Group adds for the ith register.
Added(blocks, keys, i) ==
    IF Registers[i] \in keys THEN With[Registers[i]][blocks] ELSE blocks

(* The fold of Group, as the recursive function it is defined by.          *)
Folding(iter, keys, n) ==
    iter = [s \in SUBSET (1 .. n) |->
              IF s = {} THEN <<>> ELSE Added(iter[s \ {Max(s)}], keys, Max(s))]

(* The registers, numbered.                                                *)
LEMMA RegistersAreFinite == N \in Nat /\ DOMAIN Registers = 1 .. N
BY RegistersAreInOrder DEF N

(* Group is that function, of all the registers,                           *)
LEMMA GroupIsAFold ==
    ASSUME NEW keys \in SUBSET Keys PROVE Group[keys] = (CHOOSE iter : Folding(iter, keys, N))[1 .. N]
<1>1. Group[keys] = (CHOOSE iter :
         iter = [s \in SUBSET (DOMAIN Registers) |->
              IF s = {} THEN <<>> ELSE Added(iter[s \ {Max(s)}], keys, Max(s))])[DOMAIN Registers]
  BY DEF Group, FoldLeft, MapThenFoldSet, Added
<1>2. QED
  BY <1>1, RegistersAreFinite DEF Folding

(* which exists, being defined up to each number of them.                  *)
LEMMA FoldingExists == ASSUME NEW keys PROVE \E iter : Folding(iter, keys, N)
<1> DEFINE T == {n \in 0 .. N : \E iter : Folding(iter, keys, n)}
<1>1. N \in Nat
  BY RegistersAreFinite
<1>2. 0 \in T
  <2> DEFINE g == [s \in SUBSET (1 .. 0) |-> <<>>]
  <2>1. \A s \in SUBSET (1 .. 0) : s = {}
    OBVIOUS
  <2>2. Folding(g, keys, 0)
    BY <2>1 DEF Folding
  <2>3. QED
    BY <1>1, <2>2
<1>3. ASSUME NEW n \in 1 .. N, n - 1 \in T PROVE n \in T
  <2>1. PICK g : Folding(g, keys, n - 1)
    BY <1>3
  <2> DEFINE h == [s \in SUBSET (1 .. n) |->
                     IF n \in s THEN Added(g[s \ {n}], keys, n) ELSE g[s]]
  <2>2. ASSUME NEW s \in SUBSET (1 .. n)
        PROVE  h[s] = IF s = {} THEN <<>> ELSE Added(h[s \ {Max(s)}], keys, Max(s))
    <3>1. CASE n \in s
      <4>1. n \in Nat /\ \A y \in s : y <= n
        BY <1>1
      <4>2. Max(s) = n
        <5>1. Max(s) \in s /\ \A y \in s : Max(s) >= y
          BY <3>1, <4>1, LargestIsMax
        <5>2. Max(s) \in 1 .. n /\ Max(s) >= n
          BY <3>1, <5>1
        <5>3. QED
          BY <4>1, <5>2
      <4>3. s \ {n} \in SUBSET (1 .. n) /\ n \notin s \ {n}
        OBVIOUS
      <4>4. h[s \ {n}] = g[s \ {n}]
        BY <4>3
      <4>5. QED
        BY <3>1, <4>2, <4>4
    <3>2. CASE n \notin s /\ s # {}
      <4>1. s \in SUBSET (1 .. n - 1) /\ n - 1 \in Nat
        BY <1>1, <3>2
      <4>2. Max(s) \in s
        BY <3>2, <4>1, LargestIsMax
      <4>3. s \ {Max(s)} \in SUBSET (1 .. n) /\ n \notin s \ {Max(s)}
        BY <3>2
      <4>4. h[s] = g[s] /\ h[s \ {Max(s)}] = g[s \ {Max(s)}]
        BY <3>2, <4>3
      <4>5. g[s] = Added(g[s \ {Max(s)}], keys, Max(s))
        BY <2>1, <3>2, <4>1, Zenon DEF Folding
      <4>6. QED
        BY <3>2, <4>4, <4>5
    <3>3. CASE s = {}
      <4>1. s \in SUBSET (1 .. n - 1) /\ h[s] = g[s]
        BY <3>3
      <4>2. g[s] = <<>>
        BY <2>1, <3>3, <4>1, Zenon DEF Folding
      <4>3. QED
        BY <3>3, <4>1, <4>2
    <3>4. QED
      BY <3>1, <3>2, <3>3
  <2>3. h = [s \in SUBSET (1 .. n) |-> h[s]]
    OBVIOUS
  <2> HIDE DEF h
  <2>4. Folding(h, keys, n)
    BY <2>2, <2>3, Zenon DEF Folding
  <2>5. QED
    BY <1>1, <2>4
<1>4. N \in T
  <2> HIDE DEF T
  <2>1. \A i \in 1 .. N : i - 1 \in T => i \in T
    BY <1>3
  <2>2. QED
    BY <1>1, <1>2, <2>1, UpTo
<1>5. QED
  BY <1>4

(* Grouping takes up one register after the other.                         *)
LEMMA GroupBySteps ==
    ASSUME NEW keys \in SUBSET Keys
    PROVE  \E f : /\ f[0] = <<>> /\ Group[keys] = f[N]
                  /\ \A i \in 1 .. N : f[i] = Added(f[i - 1], keys, i)
<1> DEFINE iter == CHOOSE g : Folding(g, keys, N)
           f == [i \in 0 .. N |-> iter[1 .. i]]
<1>1. Folding(iter, keys, N)
  BY FoldingExists, Zenon
<1>2. Group[keys] = iter[1 .. N]
  BY GroupIsAFold, Zenon
<1> HIDE DEF iter
<1>3. N \in Nat
  BY RegistersAreFinite
<1>4. f[0] = <<>>
  <2>1. f[0] = iter[1 .. 0] /\ 1 .. 0 \in SUBSET (1 .. N) /\ 1 .. 0 = {}
    BY <1>3
  <2>2. QED
    BY <1>1, <2>1, Zenon DEF Folding
<1>5. ASSUME NEW i \in 1 .. N PROVE f[i] = Added(f[i - 1], keys, i)
  <2>1. f[i] = iter[1 .. i] /\ f[i - 1] = iter[1 .. i - 1] /\ 1 .. i \in SUBSET (1 .. N)
    BY <1>3
  <2>2. 1 .. i # {} /\ (1 .. i) \ {i} = 1 .. i - 1
    BY <1>3
  <2>3. Max(1 .. i) = i
    <3>1. Max(1 .. i) \in 1 .. i /\ \A y \in 1 .. i : Max(1 .. i) >= y
      <4>1. i \in Nat /\ 1 .. i \in SUBSET (1 .. i)
        BY <1>3
      <4>2. QED
        BY <2>2, <4>1, LargestIsMax
    <3>2. QED
      BY <1>3, <3>1
  <2>4. iter[1 .. i] = Added(iter[(1 .. i) \ {Max(1 .. i)}], keys, Max(1 .. i))
    BY <1>1, <2>1, <2>2, Zenon DEF Folding
  <2>5. QED
    BY <2>1, <2>2, <2>3, <2>4
<1>6. f[N] = iter[1 .. N]
  BY <1>3
<1>7. QED
  BY <1>2, <1>4, <1>5, <1>6

(* Registers do not overlap.                                               *)
LEMMA KeyFacts ==
    ASSUME NEW k \in Keys
    PROVE  /\ Address(k) \in Nat /\ Size(k) \in Nat \ {0} /\ Size(k) <= MaxSpan
           /\ End(k) \in Nat /\ Address(k) < End(k) /\ End(k) = Address(k) + Size(k)
BY RegistersAreInOrder, BoundsAreNatural DEF End

LEMMA KeysAreRegisters ==
    /\ \A i \in 1 .. N : Registers[i] \in Keys
    /\ \A k \in Keys : \E i \in 1 .. N : k = Registers[i]
BY RegistersAreFinite DEF Keys, Range

LEMMA KeysAreApart ==
    ASSUME NEW k \in Keys, NEW j \in Keys
    PROVE  /\ Address(k) = Address(j) => k = j
           /\ Address(k) < Address(j) => End(k) <= Address(j)
<1>1. PICK p, q \in 1 .. N : k = Registers[p] /\ j = Registers[q]
  BY KeysAreRegisters
<1>2. p < q => End(k) <= Address(j)
  BY <1>1, RegistersAreFinite, RegistersAreInOrder DEF End
<1>3. q < p => End(j) <= Address(k)
  BY <1>1, RegistersAreFinite, RegistersAreInOrder DEF End
<1>4. p < q \/ q < p \/ p = q
  BY RegistersAreFinite
<1>5. QED
  BY <1>1, <1>2, <1>3, <1>4, KeyFacts

(* They are in order of address.                                           *)
LEMMA EarlierRegisters ==
    ASSUME NEW i \in 1 .. N, NEW j \in 1 .. N, j < i
    PROVE  Address(Registers[j]) < Address(Registers[i])
<1>1. End(Registers[j]) <= Address(Registers[i])
  BY RegistersAreFinite, RegistersAreInOrder DEF End
<1>2. QED
  BY <1>1, KeysAreRegisters, KeyFacts

(* A block has a first and a last register,                                *)
LEMMA FirstIsLeast ==
    ASSUME NEW group \in SUBSET Keys, group # {}
    PROVE  /\ FirstOf(group) \in group
           /\ \A j \in group : Address(FirstOf(group)) <= Address(j)
<1> DEFINE S == {Address(k) : k \in group}
<1>1. PICK x \in S : \A y \in S : x <= y
  <2>1. S \in SUBSET Nat /\ S # {}
    BY KeyFacts
  <2> HIDE DEF S
  <2>2. QED
    BY <2>1, LeastNumber
<1>2. PICK k \in group : x = Address(k)
  OBVIOUS
<1>3. \A j \in group : Address(k) <= Address(j)
  BY <1>1, <1>2
<1>4. QED
  BY <1>2, <1>3, Zenon DEF FirstOf

LEMMA LastIsGreatest ==
    ASSUME NEW group \in SUBSET Keys, group # {}
    PROVE  /\ LastOf(group) \in group
           /\ \A j \in group : Address(j) <= Address(LastOf(group))
<1> DEFINE s == {i \in 1 .. N : Registers[i] \in group}
<1>1. Max(s) \in s /\ \A y \in s : Max(s) >= y
  <2>1. s \in SUBSET (1 .. N) /\ s # {} /\ N \in Nat
    BY KeysAreRegisters, RegistersAreFinite
  <2> HIDE DEF s
  <2>2. QED
    BY <2>1, LargestIsMax
<1> DEFINE k == Registers[Max(s)]
<1>2. k \in group /\ Max(s) \in 1 .. N
  BY <1>1
<1>3. ASSUME NEW j \in group PROVE Address(j) <= Address(k)
  <2>1. PICK q \in 1 .. N : j = Registers[q]
    BY KeysAreRegisters
  <2>2. q \in s
    BY <2>1
  <2>3. Max(s) >= q
    BY <1>1, <2>2
  <2> HIDE DEF s
  <2>4. CASE q = Max(s)
    BY <1>2, <2>1, <2>4, KeyFacts
  <2>5. CASE q < Max(s)
    BY <1>2, <2>1, <2>5, EarlierRegisters, KeyFacts
  <2>6. QED
    BY <1>2, <2>3, <2>4, <2>5, RegistersAreFinite
<1>4. QED
  BY <1>2, <1>3, Zenon DEF LastOf

(* between which it lies.                                                  *)
LEMMA EndsAt ==
    ASSUME NEW group \in SUBSET Keys, NEW k \in group
    PROVE  /\ StartOf(group) \in Nat /\ EndOf(group) \in Nat
           /\ StartOf(group) <= Address(k) /\ End(k) <= EndOf(group)
           /\ (\A j \in group : Address(k) <= Address(j)) => FirstOf(group) = k
           /\ (\A j \in group : Address(j) <= Address(k)) => LastOf(group) = k
<1>1. FirstOf(group) \in group /\ \A j \in group : Address(FirstOf(group)) <= Address(j)
  BY FirstIsLeast
<1>2. LastOf(group) \in group /\ \A j \in group : Address(j) <= Address(LastOf(group))
  BY LastIsGreatest
<1>3. FirstOf(group) \in Keys /\ LastOf(group) \in Keys /\ k \in Keys
  BY <1>1, <1>2
<1>4. StartOf(group) \in Nat /\ EndOf(group) \in Nat /\ StartOf(group) <= Address(k)
  BY <1>1, <1>3, KeyFacts DEF StartOf, EndOf
<1>5. End(k) <= EndOf(group)
  BY <1>2, <1>3, KeyFacts, KeysAreApart DEF EndOf
<1>6. (\A j \in group : Address(k) <= Address(j)) => FirstOf(group) = k
  BY <1>1, <1>3, KeyFacts, KeysAreApart
<1>7. (\A j \in group : Address(j) <= Address(k)) => LastOf(group) = k
  BY <1>2, <1>3, KeyFacts, KeysAreApart
<1>8. QED
  BY <1>4, <1>5, <1>6, <1>7

\* A plan, and the keys it reads.
Blocks == Seq((SUBSET Keys) \ {{}})
Members(blocks) == UNION {blocks[i] : i \in DOMAIN blocks}

\* Each register of a block follows on those before it.
Before(k, group) == {j \in group : Address(j) < Address(k)}
Tight(group) == \A k \in group : Before(k, group) # {} => Joins(k, Before(k, group))

\* It fits a response and keeps off the heartbeat register.
InOneRead(group) ==
    /\ EndOf(group) - StartOf(group) <= MaxSpan
    /\ Avoid \cap (StartOf(group) .. EndOf(group) - 1) = {}

\* The keys grouped by address, as _group does.
Grouped(blocks, keys) ==
    /\ blocks \in Blocks /\ Members(blocks) = keys
    /\ \A i \in DOMAIN blocks : Tight(blocks[i])
    /\ \A i, j \in DOMAIN blocks : i < j =>
           \A a \in blocks[i], b \in blocks[j] : Address(a) < Address(b)

(* A gap or a span that is too wide, or an address to avoid, would end it. *)
LEMMA TightIsOneRead ==
    ASSUME NEW group \in SUBSET Keys, group # {}, Tight(group)
    PROVE  InOneRead(group)
<1> DEFINE first == FirstOf(group)
           ends == LastOf(group)
<1>1. /\ first \in group /\ ends \in group
      /\ \A j \in group : Address(first) <= Address(j) /\ Address(j) <= Address(ends)
  BY FirstIsLeast, LastIsGreatest
<1>2. /\ first \in Keys /\ ends \in Keys
      /\ StartOf(group) = Address(first) /\ EndOf(group) = End(ends)
  BY <1>1 DEF StartOf, EndOf
<1> HIDE DEF first, ends
<1>3. EndOf(group) - StartOf(group) <= MaxSpan
  <2>1. CASE Address(first) < Address(ends)
    <3>1. first \in Before(ends, group) /\ Before(ends, group) \in SUBSET Keys
      BY <1>1, <2>1 DEF Before
    <3>2. \A j \in Before(ends, group) : Address(first) <= Address(j)
      BY <1>1 DEF Before
    <3>3. StartOf(Before(ends, group)) = Address(first)
      BY <3>1, <3>2, EndsAt DEF StartOf
    <3>4. Joins(ends, Before(ends, group))
      BY <1>1, <3>1 DEF Tight
    <3>5. QED
      BY <1>2, <3>3, <3>4 DEF Joins
  <2>2. CASE ~(Address(first) < Address(ends))
    <3>1. first = ends
      BY <1>1, <1>2, <2>2, KeyFacts, KeysAreApart
    <3>2. QED
      BY <1>2, <3>1, KeyFacts, BoundsAreNatural
  <2>3. QED
    BY <2>1, <2>2
<1>4. ASSUME NEW a \in Avoid, a \in StartOf(group) .. EndOf(group) - 1 PROVE FALSE
  <2> DEFINE S == {k \in group : a < End(k)}
  <2>1. a \in Nat /\ Address(first) <= a /\ a < End(ends)
    BY <1>2, <1>4, KeyFacts, BoundsAreNatural
  <2>2. S \in SUBSET Keys /\ S # {}
    BY <1>1, <2>1
  <2>3. PICK k \in S : \A j \in S : Address(k) <= Address(j)
    <3> HIDE DEF S
    <3>1. QED
      BY <2>2, FirstIsLeast
  <2>4. k \in group /\ k \in Keys /\ a < End(k)
    OBVIOUS
  <2>5. a < Address(k)
    <3>1. a \notin Address(k) .. Address(k) + Size(k) - 1
      BY <2>4, RegistersAreInOrder
    <3>2. QED
      BY <2>1, <2>4, <3>1, KeyFacts
  <2>6. first \in Before(k, group) /\ Before(k, group) \in SUBSET Keys
    BY <1>1, <1>2, <2>1, <2>4, <2>5, KeyFacts DEF Before
  <2>7. Joins(k, Before(k, group))
    BY <2>4, <2>6 DEF Tight
  <2> DEFINE m == LastOf(Before(k, group))
  <2>8. m \in Before(k, group)
    BY <2>6, LastIsGreatest
  <2>9. End(m) <= a
    <3>1. m \in group /\ m \in Keys /\ Address(m) < Address(k)
      BY <2>8 DEF Before
    <3>2. m \notin S
      BY <2>3, <2>4, <3>1, KeyFacts
    <3>3. QED
      BY <2>1, <3>1, <3>2, KeyFacts
  <2>10. a \notin End(m) .. Address(k) - 1
    BY <2>7 DEF Joins, EndOf
  <2>11. m \in Keys
    BY <2>6, <2>8
  <2> HIDE DEF m
  <2>12. QED
    BY <2>1, <2>4, <2>5, <2>9, <2>10, <2>11, KeyFacts
<1>5. QED
  BY <1>3, <1>4 DEF InOneRead

(* A sequence with an element more, or with another in its place.          *)
LEMMA OneMore ==
    ASSUME NEW S, NEW s \in Seq(S), NEW e \in S
    PROVE  /\ Append(s, e) \in Seq(S) /\ DOMAIN Append(s, e) = 1 .. Len(s) + 1
           /\ \A i \in 1 .. Len(s) : Append(s, e)[i] = s[i]
           /\ Append(s, e)[Len(s) + 1] = e
OBVIOUS

LEMMA OneChanged ==
    ASSUME NEW S, NEW s \in Seq(S), NEW e \in S, NEW n \in 1 .. Len(s)
    PROVE  /\ [s EXCEPT ![n] = e] \in Seq(S) /\ DOMAIN [s EXCEPT ![n] = e] = 1 .. Len(s)
           /\ \A i \in 1 .. Len(s) : [s EXCEPT ![n] = e][i] = IF i = n THEN e ELSE s[i]
OBVIOUS

(* The next register by address is added to what is grouped,               *)
LEMMA WithGroups ==
    ASSUME NEW keys \in SUBSET Keys, NEW blocks, Grouped(blocks, keys), NEW k \in Keys,
           \A j \in keys : Address(j) < Address(k)
    PROVE  Grouped(With[k][blocks], keys \cup {k})
<1> DEFINE new == With[k][blocks]
           n == Len(blocks)
<1>1. /\ blocks \in Blocks /\ blocks \in Seq(SUBSET Keys) /\ n \in Nat
      /\ DOMAIN blocks = 1 .. n
      /\ \A i \in 1 .. n : blocks[i] \in SUBSET Keys /\ blocks[i] # {}
                           /\ blocks[i] \subseteq keys
  BY DEF Grouped, Blocks, Members
<1>2. new = IF blocks # <<>> /\ Joins(k, blocks[n])
            THEN [blocks EXCEPT ![n] = blocks[n] \cup {k}] ELSE Append(blocks, {k})
  <2>1. new = IF blocks # <<>> /\ Joins(k, Last(blocks))
              THEN [blocks EXCEPT ![Len(blocks)] = @ \cup {k}] ELSE Append(blocks, {k})
    <3>1. blocks \in Seq(SUBSET Keys) /\ k \in Keys
      BY <1>1
    <3>2. QED
      BY <3>1, Zenon DEF With
  <2>2. QED
    BY <2>1 DEF Last
<1> HIDE DEF new
<1>3. CASE blocks # <<>> /\ Joins(k, blocks[n])
  <2>1. n \in 1 .. n /\ new = [blocks EXCEPT ![n] = blocks[n] \cup {k}]
    <3>1. n # 0
      BY <1>1, <1>3
    <3>2. QED
      BY <1>1, <1>2, <1>3, <3>1
  <2>2. /\ new \in Blocks /\ DOMAIN new = 1 .. n
        /\ \A i \in 1 .. n : new[i] = IF i = n THEN blocks[n] \cup {k} ELSE blocks[i]
    <3>1. blocks[n] \cup {k} \in (SUBSET Keys) \ {{}}
      BY <1>1, <2>1
    <3>2. QED
      BY <1>1, <2>1, <3>1, OneChanged DEF Blocks
  <2>3. Members(new) = keys \cup {k}
    <3>1. Members(blocks) = keys
      BY DEF Grouped
    <3>2. QED
      BY <1>1, <2>1, <2>2, <3>1 DEF Members
  <2>4. ASSUME NEW i \in 1 .. n PROVE Tight(new[i])
    <3>1. Tight(blocks[i])
      BY <1>1 DEF Grouped
    <3>2. CASE i = n
      <4>1. new[i] = blocks[n] \cup {k}
        BY <2>2, <3>2
      <4>2. \A j \in blocks[n] : Address(j) < Address(k)
        BY <1>1, <2>1
      <4>3. ASSUME NEW j \in blocks[n], Before(j, new[i]) # {}
            PROVE  Joins(j, Before(j, new[i]))
        <5>1. j \in Keys
          BY <1>1, <2>1
        <5>2. Before(j, new[i]) = Before(j, blocks[n])
          BY <4>1, <4>2, <5>1, KeyFacts DEF Before
        <5>3. QED
          BY <3>1, <3>2, <4>3, <5>2 DEF Tight
      <4>4. Joins(k, Before(k, new[i]))
        <5>1. Before(k, new[i]) = blocks[n]
          BY <4>1, <4>2, KeyFacts DEF Before
        <5>2. QED
          BY <1>3, <5>1
      <4>5. QED
        BY <4>1, <4>3, <4>4 DEF Tight
    <3>3. CASE i # n
      BY <2>2, <3>1, <3>3
    <3>4. QED
      BY <3>2, <3>3
  <2>5. ASSUME NEW i \in 1 .. n, NEW j \in 1 .. n, i < j,
               NEW a \in new[i], NEW b \in new[j]
        PROVE  Address(a) < Address(b)
    <3>1. i # n /\ a \in blocks[i] /\ a \in keys
      <4>1. i # n
        <5>1. n \in Nat
          BY <1>1
        <5>2. QED
          BY <2>5, <5>1
      <4>2. a \in blocks[i] /\ blocks[i] \subseteq keys
        BY <1>1, <2>2, <2>5, <4>1
      <4>3. QED
        BY <4>1, <4>2
    <3>2. CASE b = k
      BY <3>1, <3>2
    <3>3. CASE b # k
      <4>1. b \in blocks[j]
        BY <2>2, <3>3
      <4>2. QED
        BY <1>1, <2>5, <3>1, <4>1 DEF Grouped
    <3>4. QED
      BY <3>2, <3>3
  <2>6. Grouped(new, keys \cup {k})
    BY <2>2, <2>3, <2>4, <2>5 DEF Grouped
  <2>7. QED
    BY <2>6 DEF new
<1>4. CASE ~(blocks # <<>> /\ Joins(k, blocks[n]))
  <2>1. new = Append(blocks, {k})
    BY <1>2, <1>4
  <2>2. /\ new \in Blocks /\ DOMAIN new = 1 .. n + 1
        /\ \A i \in 1 .. n : new[i] = blocks[i]
        /\ new[n + 1] = {k}
    <3>1. {k} \in (SUBSET Keys) \ {{}}
      OBVIOUS
    <3>2. QED
      BY <1>1, <2>1, <3>1, OneMore DEF Blocks
  <2>3. Members(new) = keys \cup {k}
    <3>1. Members(blocks) = keys
      BY DEF Grouped
    <3>2. \A i \in 1 .. n + 1 : i = n + 1 \/ i \in 1 .. n
      BY <1>1
    <3>3. 1 .. n \subseteq 1 .. n + 1 /\ n + 1 \in 1 .. n + 1
      BY <1>1
    <3>4. QED
      BY <1>1, <2>2, <3>1, <3>2, <3>3 DEF Members
  <2>4. ASSUME NEW i \in 1 .. n + 1 PROVE Tight(new[i])
    <3>1. CASE i = n + 1
      <4>1. new[i] = {k}
        BY <2>2, <3>1
      <4>2. Before(k, {k}) = {}
        BY KeyFacts DEF Before
      <4>3. QED
        BY <4>1, <4>2 DEF Tight
    <3>2. CASE i # n + 1
      <4>1. i \in 1 .. n
        BY <1>1, <3>2
      <4>2. QED
        BY <1>1, <2>2, <4>1 DEF Grouped
    <3>3. QED
      BY <3>1, <3>2
  <2>5. ASSUME NEW i \in 1 .. n + 1, NEW j \in 1 .. n + 1, i < j,
               NEW a \in new[i], NEW b \in new[j]
        PROVE  Address(a) < Address(b)
    <3>1. i \in 1 .. n /\ a \in blocks[i] /\ a \in keys
      <4>1. i \in 1 .. n
        BY <1>1, <2>5
      <4>2. a \in blocks[i] /\ blocks[i] \subseteq keys /\ i # n + 1
        BY <1>1, <2>2, <2>5, <4>1
      <4>3. QED
        BY <4>1, <4>2
    <3>2. CASE j = n + 1
      <4>1. b = k
        BY <2>2, <3>2
      <4>2. QED
        BY <3>1, <4>1
    <3>3. CASE j # n + 1
      <4>1. j \in 1 .. n
        BY <1>1, <3>3
      <4>2. b \in blocks[j]
        BY <2>2, <4>1
      <4>3. QED
        BY <1>1, <2>5, <3>1, <4>1, <4>2 DEF Grouped
    <3>4. QED
      BY <3>2, <3>3
  <2>6. Grouped(new, keys \cup {k})
    BY <2>2, <2>3, <2>4, <2>5 DEF Grouped
  <2>7. QED
    BY <2>6 DEF new
<1>5. QED
  BY <1>3, <1>4

(* so that all of them are.                                                *)
LEMMA GroupIsGrouped ==
    ASSUME NEW keys \in SUBSET Keys PROVE Grouped(Group[keys], keys)
<1> DEFINE Upto(i) == {Registers[j] : j \in 1 .. i}
<1>1. N \in Nat
  BY RegistersAreFinite
<1>2. PICK f : /\ f[0] = <<>> /\ Group[keys] = f[N]
               /\ \A i \in 1 .. N : f[i] = Added(f[i - 1], keys, i)
  BY GroupBySteps
<1> DEFINE T == {i \in 0 .. N : Grouped(f[i], keys \cap Upto(i))}
<1>3. 0 \in T
  <2>1. Upto(0) = {} /\ 0 \in 0 .. N
    BY <1>1
  <2>2. Grouped(<<>>, {})
    BY DEF Grouped, Blocks, Members
  <2>3. QED
    BY <1>2, <2>1, <2>2
<1>4. ASSUME NEW i \in 1 .. N, i - 1 \in T PROVE i \in T
  <2> DEFINE k == Registers[i]
             yet == keys \cap Upto(i - 1)
  <2>1. k \in Keys /\ i \in 0 .. N /\ f[i] = Added(f[i - 1], keys, i)
    BY <1>1, <1>2, KeysAreRegisters
  <2>2. Upto(i) = Upto(i - 1) \cup {k}
    BY <1>1
  <2>3. \A j \in yet : Address(j) < Address(k)
    <3>1. ASSUME NEW j \in yet PROVE Address(j) < Address(k)
      <4>1. PICK q \in 1 .. i - 1 : j = Registers[q]
        OBVIOUS
      <4>2. q \in 1 .. N /\ q < i
        BY <1>1
      <4>3. QED
        BY <4>1, <4>2, EarlierRegisters
    <3>2. QED
      BY <3>1
  <2>4. yet \in SUBSET Keys /\ Grouped(f[i - 1], yet)
    BY <1>4
  <2>5. CASE k \in keys
    <3>1. f[i] = With[k][f[i - 1]] /\ keys \cap Upto(i) = yet \cup {k}
      BY <2>1, <2>2, <2>5 DEF Added
    <3> HIDE DEF k, yet
    <3>2. Grouped(With[k][f[i - 1]], yet \cup {k})
      BY <2>1, <2>3, <2>4, WithGroups
    <3>3. QED
      BY <2>1, <3>1, <3>2
  <2>6. CASE k \notin keys
    <3>1. f[i] = f[i - 1] /\ keys \cap Upto(i) = yet
      BY <2>1, <2>2, <2>6 DEF Added
    <3>2. QED
      BY <2>1, <2>4, <3>1
  <2>7. QED
    BY <2>5, <2>6
<1>5. N \in T
  <2> HIDE DEF T
  <2>1. \A i \in 1 .. N : i - 1 \in T => i \in T
    BY <1>4
  <2>2. QED
    BY <1>1, <1>3, <2>1, UpTo
<1>6. keys \cap Upto(N) = keys
  BY KeysAreRegisters
<1>7. QED
  BY <1>2, <1>5, <1>6

(* What is one block of a grouping is one block of its own.                *)
LEMMA TightIsOneGroup ==
    ASSUME NEW group \in SUBSET Keys, group # {}, Tight(group)
    PROVE  Group[group] = <<group>>
<1> DEFINE Upto(i) == {Registers[j] : j \in 1 .. i}
<1>1. N \in Nat
  BY RegistersAreFinite
<1>2. PICK f : /\ f[0] = <<>> /\ Group[group] = f[N]
               /\ \A i \in 1 .. N : f[i] = Added(f[i - 1], group, i)
  BY GroupBySteps
<1> DEFINE T == {i \in 0 .. N :
                   f[i] = IF group \cap Upto(i) = {} THEN <<>> ELSE <<group \cap Upto(i)>>}
<1>3. 0 \in T
  BY <1>1, <1>2
<1>4. ASSUME NEW i \in 1 .. N, i - 1 \in T PROVE i \in T
  <2> DEFINE k == Registers[i]
             yet == group \cap Upto(i - 1)
  <2>1. k \in Keys /\ i \in 0 .. N /\ f[i] = Added(f[i - 1], group, i)
    BY <1>1, <1>2, KeysAreRegisters
  <2>2. Upto(i) = Upto(i - 1) \cup {k}
    BY <1>1
  <2>3. f[i - 1] = IF yet = {} THEN <<>> ELSE <<yet>>
    BY <1>4
  <2>4. CASE k \in group
    <3>1. f[i] = With[k][f[i - 1]] /\ group \cap Upto(i) = yet \cup {k}
      BY <2>1, <2>2, <2>4 DEF Added
    <3>2. yet = Before(k, group)
      <4>1. ASSUME NEW j \in yet PROVE j \in Before(k, group)
        <5>1. PICK q \in 1 .. i - 1 : j = Registers[q]
          OBVIOUS
        <5>2. q \in 1 .. N /\ q < i
          BY <1>1
        <5>3. QED
          BY <5>1, <5>2, EarlierRegisters DEF Before
      <4>2. ASSUME NEW j \in Before(k, group) PROVE j \in yet
        <5>1. PICK q \in 1 .. N : j = Registers[q]
          BY KeysAreRegisters DEF Before
        <5>2. Address(j) < Address(k) /\ j \in Keys /\ k \in Keys
          BY <2>1 DEF Before
        <5>3. ~(i < q) /\ i # q
          BY <5>1, <5>2, EarlierRegisters, KeyFacts
        <5>4. q \in 1 .. i - 1
          BY <1>1, <5>3
        <5>5. QED
          BY <5>1, <5>4 DEF Before
      <4>3. QED
        BY <4>1, <4>2
    <3>3. yet # {} => Joins(k, yet)
      BY <2>4, <3>2 DEF Tight
    <3>4. yet \in SUBSET Keys /\ f[i - 1] \in Seq(SUBSET Keys)
      <4>1. yet \in SUBSET Keys
        OBVIOUS
      <4> HIDE DEF yet
      <4>2. <<>> \in Seq(SUBSET Keys) /\ <<yet>> \in Seq(SUBSET Keys)
        BY <4>1
      <4>3. QED
        BY <2>3, <4>1, <4>2
    <3> HIDE DEF k, yet
    <3>5. With[k][f[i - 1]] = IF f[i - 1] # <<>> /\ Joins(k, Last(f[i - 1]))
              THEN [f[i - 1] EXCEPT ![Len(f[i - 1])] = @ \cup {k}]
              ELSE Append(f[i - 1], {k})
      BY <2>1, <3>4, Zenon DEF With
    <3>6. With[k][f[i - 1]] = <<yet \cup {k}>>
      <4>1. CASE yet = {}
        BY <2>3, <3>5, <4>1
      <4>2. CASE yet # {}
        <5>1. f[i - 1] = <<yet>> /\ Last(<<yet>>) = yet /\ <<yet>> # <<>> /\ Len(<<yet>>) = 1
          BY <2>3, <4>2 DEF Last
        <5>2. With[k][f[i - 1]] = [<<yet>> EXCEPT ![1] = @ \cup {k}]
          BY <3>3, <3>5, <4>2, <5>1
        <5>3. QED
          BY <5>2
      <4>3. QED
        BY <4>1, <4>2
    <3>7. yet \cup {k} # {}
      OBVIOUS
    <3>8. QED
      BY <2>1, <3>1, <3>6, <3>7
  <2>5. CASE k \notin group
    <3>1. f[i] = f[i - 1] /\ group \cap Upto(i) = yet
      BY <2>1, <2>2, <2>5 DEF Added
    <3>2. QED
      BY <2>1, <2>3, <3>1
  <2>6. QED
    BY <2>4, <2>5
<1>5. N \in T
  <2> HIDE DEF T
  <2>1. \A i \in 1 .. N : i - 1 \in T => i \in T
    BY <1>4
  <2>2. QED
    BY <1>1, <1>3, <2>1, UpTo
<1>6. group \cap Upto(N) = group
  BY KeysAreRegisters
<1>7. QED
  BY <1>2, <1>5, <1>6

\* Each read holds what is asked for, and what plan_blocks promises of it.
GoodPlan(blocks, keys) ==
    /\ blocks \in Blocks /\ Members(blocks) = keys
    /\ \A i \in DOMAIN blocks :
        /\ InOneRead(blocks[i])
        /\ IsOptional(blocks[i]) => Tight(blocks[i])
        /\ IsOptional(blocks[i]) \/
               /\ StartOf(blocks[i]) = StartOf(blocks[i] \cap Required)
               /\ EndOf(blocks[i]) = EndOf(blocks[i] \cap Required)
    /\ \A i, j \in DOMAIN blocks : i < j =>
        /\ blocks[i] \cap blocks[j] = {}
        /\ IsOptional(blocks[i]) => IsOptional(blocks[j])

(* Of a grouping, what a plan needs.                                       *)
LEMMA GroupedFacts ==
    ASSUME NEW keys \in SUBSET Keys, NEW blocks, Grouped(blocks, keys)
    PROVE  /\ blocks \in Blocks /\ Members(blocks) = keys
           /\ \A i \in DOMAIN blocks :
                  /\ blocks[i] \in SUBSET keys /\ blocks[i] # {}
                  /\ Tight(blocks[i]) /\ InOneRead(blocks[i])
           /\ \A i, j \in DOMAIN blocks : i < j => blocks[i] \cap blocks[j] = {}
<1>1. /\ blocks \in Blocks /\ Members(blocks) = keys
      /\ \A i \in DOMAIN blocks : blocks[i] \in SUBSET keys /\ blocks[i] # {}
  BY DEF Grouped, Blocks, Members
<1>2. ASSUME NEW i \in DOMAIN blocks PROVE Tight(blocks[i]) /\ InOneRead(blocks[i])
  <2>1. Tight(blocks[i]) /\ blocks[i] \in SUBSET Keys /\ blocks[i] # {}
    BY <1>1 DEF Grouped
  <2>2. QED
    BY <2>1, TightIsOneRead
<1>3. ASSUME NEW i \in DOMAIN blocks, NEW j \in DOMAIN blocks, i < j,
             NEW k \in blocks[i], k \in blocks[j]
      PROVE  FALSE
  <2>1. Address(k) < Address(k) /\ k \in Keys
    BY <1>1, <1>3 DEF Grouped
  <2>2. QED
    BY <2>1, KeyFacts
<1>4. QED
  BY <1>1, <1>2, <1>3

(* Keys that are all optional, or all required, are grouped into a plan.   *)
LEMMA GroupIsGood ==
    ASSUME NEW keys \in SUBSET Keys, keys \cap Required = {} \/ keys \cap Optional = {}
    PROVE  GoodPlan(Group[keys], keys)
<1> DEFINE blocks == Group[keys]
<1>1. /\ blocks \in Blocks /\ Members(blocks) = keys
      /\ \A i \in DOMAIN blocks :
             /\ blocks[i] \in SUBSET keys /\ blocks[i] # {}
             /\ Tight(blocks[i]) /\ InOneRead(blocks[i])
      /\ \A i, j \in DOMAIN blocks : i < j => blocks[i] \cap blocks[j] = {}
  BY GroupIsGrouped, GroupedFacts
<1> HIDE DEF blocks
<1>2. CASE keys \cap Required = {}
  <2>1. \A i \in DOMAIN blocks : IsOptional(blocks[i])
    BY <1>1, <1>2 DEF IsOptional, Required
  <2>2. GoodPlan(blocks, keys)
    BY <1>1, <2>1 DEF GoodPlan
  <2>3. QED
    BY <2>2 DEF blocks
<1>3. CASE keys \cap Optional = {}
  <2>1. \A i \in DOMAIN blocks :
            ~IsOptional(blocks[i]) /\ blocks[i] \cap Required = blocks[i]
    BY <1>1, <1>3 DEF IsOptional, Required
  <2>2. GoodPlan(blocks, keys)
    BY <1>1, <2>1 DEF GoodPlan
  <2>3. QED
    BY <2>2 DEF blocks
<1>4. QED
  BY <1>2, <1>3

(* An optional register a read covers does not make it wider.              *)
LEMMA CoveredIsNoWider ==
    ASSUME NEW group \in SUBSET Keys, group # {}, NEW more \in SUBSET Keys,
           \A k \in more : Covers(group, k)
    PROVE  StartOf(group \cup more) = StartOf(group) /\ EndOf(group \cup more) = EndOf(group)
<1> DEFINE first == FirstOf(group)
           ends == LastOf(group)
<1>1. /\ first \in group /\ ends \in group
      /\ \A j \in group : Address(first) <= Address(j) /\ Address(j) <= Address(ends)
      /\ StartOf(group) = Address(first) /\ EndOf(group) = End(ends)
  BY FirstIsLeast, LastIsGreatest DEF StartOf, EndOf
<1> HIDE DEF first, ends
<1>2. \A j \in group \cup more : Address(first) <= Address(j)
  BY <1>1 DEF Covers
<1>3. \A j \in group \cup more : Address(j) <= Address(ends)
  <2>1. ASSUME NEW j \in more PROVE Address(j) <= Address(ends)
    <3>1. End(j) <= End(ends) /\ j \in Keys /\ ends \in Keys
      BY <1>1 DEF Covers
    <3>2. QED
      BY <3>1, KeyFacts, KeysAreApart
  <2>2. QED
    BY <1>1, <2>1
<1>4. FirstOf(group \cup more) = first /\ LastOf(group \cup more) = ends
  <2>1. group \cup more \in SUBSET Keys /\ first \in group \cup more
        /\ ends \in group \cup more
    BY <1>1
  <2>2. QED
    BY <1>2, <1>3, <2>1, EndsAt
<1>5. QED
  BY <1>1, <1>4 DEF StartOf, EndOf

(* Required keys and the optional ones they cover make a plan              *)
LEMMA JoinedIsGood ==
    ASSUME NEW keys \in SUBSET Required, NEW optional \in SUBSET Optional
    PROVE  LET joined == Joined[optional][Group[keys]]
           IN  /\ \A i \in DOMAIN joined : ~IsOptional(joined[i])
               /\ GoodPlan(joined, Members(joined))
               /\ keys \subseteq Members(joined) /\ Members(joined) \subseteq keys \cup optional
<1> DEFINE blocks == Group[keys]
           more(i) == {k \in optional : ~isolate /\ Covers(blocks[i], k)}
           joined == Joined[optional][blocks]
<1>1. keys \in SUBSET Keys /\ optional \in SUBSET Keys
  BY RegistersAreInOrder DEF Required
<1>2. /\ Grouped(blocks, keys) /\ blocks \in Blocks /\ Members(blocks) = keys
      /\ \A i \in DOMAIN blocks :
             /\ blocks[i] \in SUBSET keys /\ blocks[i] # {}
             /\ Tight(blocks[i]) /\ InOneRead(blocks[i])
  BY <1>1, GroupIsGrouped, GroupedFacts
<1> HIDE DEF blocks
<1>3. blocks \in Seq(SUBSET Keys) /\ blocks \in Seq((SUBSET Keys) \ {{}})
  BY <1>2 DEF Blocks
<1>4. joined = [i \in DOMAIN blocks |-> blocks[i] \cup more(i)]
  BY <1>1, <1>3, Zenon DEF Joined
<1> HIDE DEF joined
<1>5. \A i \in DOMAIN blocks : joined[i] = blocks[i] \cup more(i) /\ more(i) \in SUBSET optional
  BY <1>4
<1>6. joined \in Blocks /\ DOMAIN joined = DOMAIN blocks
  <2>1. \A i \in DOMAIN blocks : joined[i] \in (SUBSET Keys) \ {{}}
    BY <1>1, <1>2, <1>5
  <2>2. DOMAIN blocks = 1 .. Len(blocks) /\ Len(blocks) \in Nat
    BY <1>3
  <2>3. QED
    BY <1>4, <2>1, <2>2 DEF Blocks
<1>7. ASSUME NEW i \in DOMAIN blocks
      PROVE  /\ ~IsOptional(joined[i]) /\ InOneRead(joined[i])
             /\ joined[i] \cap Required = blocks[i]
             /\ StartOf(joined[i]) = StartOf(blocks[i]) /\ EndOf(joined[i]) = EndOf(blocks[i])
  <2>1. joined[i] \cap Required = blocks[i] /\ ~IsOptional(joined[i])
    BY <1>2, <1>5 DEF Required, IsOptional
  <2>2. blocks[i] \in SUBSET Keys /\ blocks[i] # {} /\ more(i) \in SUBSET Keys
        /\ \A k \in more(i) : Covers(blocks[i], k)
    BY <1>1, <1>2
  <2>3. StartOf(joined[i]) = StartOf(blocks[i]) /\ EndOf(joined[i]) = EndOf(blocks[i])
    <3> HIDE DEF more
    <3>1. QED
      BY <1>5, <2>2, CoveredIsNoWider
  <2>4. InOneRead(joined[i])
    BY <1>2, <2>3 DEF InOneRead
  <2>5. QED
    BY <2>1, <2>3, <2>4
<1>8. ASSUME NEW i \in DOMAIN blocks, NEW j \in DOMAIN blocks, i < j,
             NEW k \in joined[i], k \in joined[j]
      PROVE  FALSE
  <2>1. CASE k \in Required
    <3>1. k \in blocks[i] /\ k \in blocks[j]
      BY <1>7, <1>8, <2>1
    <3>2. Address(k) < Address(k) /\ k \in Keys
      BY <1>1, <1>2, <1>8, <3>1 DEF Grouped
    <3>3. QED
      BY <3>2, KeyFacts
  <2>2. CASE k \notin Required
    <3>1. k \in Keys /\ Covers(blocks[i], k) /\ Covers(blocks[j], k)
      BY <1>1, <1>2, <1>5, <1>7, <1>8, <2>2
    <3> DEFINE ends == LastOf(blocks[i])
               first == FirstOf(blocks[j])
    <3>2. ends \in blocks[i] /\ first \in blocks[j] /\ ends \in Keys /\ first \in Keys
      BY <1>1, <1>2, FirstIsLeast, LastIsGreatest
    <3>3. Address(ends) < Address(first)
      BY <1>2, <1>8, <3>2 DEF Grouped
    <3>4. End(k) <= End(ends) /\ Address(first) <= Address(k)
      BY <3>1 DEF Covers, StartOf, EndOf
    <3> HIDE DEF ends, first
    <3>5. End(ends) <= Address(first)
      BY <3>2, <3>3, KeysAreApart
    <3>6. QED
      BY <3>1, <3>2, <3>4, <3>5, KeyFacts
  <2>3. QED
    BY <2>1, <2>2
<1>9. keys \subseteq Members(joined) /\ Members(joined) \subseteq keys \cup optional
  BY <1>2, <1>5, <1>6 DEF Members
<1>10. \A i \in DOMAIN joined : ~IsOptional(joined[i])
  BY <1>6, <1>7
<1>11. GoodPlan(joined, Members(joined))
  BY <1>6, <1>7, <1>8 DEF GoodPlan
<1>12. QED
  BY <1>9, <1>10, <1>11 DEF joined, blocks

(* One sequence after another.                                             *)
LEMMA Together ==
    ASSUME NEW S, NEW s \in Seq(S), NEW t \in Seq(S)
    PROVE  /\ s \o t \in Seq(S) /\ DOMAIN (s \o t) = 1 .. Len(s) + Len(t)
           /\ \A i \in 1 .. Len(s) : (s \o t)[i] = s[i]
           /\ \A i \in 1 .. Len(t) : (s \o t)[Len(s) + i] = t[i]
OBVIOUS

(* and so do they with the groups of the other optional ones behind.       *)
LEMMA PlanIsGood ==
    ASSUME NEW keys \in SUBSET Keys
    PROVE  GoodPlan(PlanBlocks[keys], keys)
<1> DEFINE required == keys \cap Required
           optional == keys \cap Optional
           joined == Joined[optional][Group[required]]
           apart == optional \ UNION Range(joined)
           rest == Group[apart]
           n == Len(joined)
           m == Len(rest)
           all == joined \o rest
<1>1. PlanBlocks[keys] = IF required = {} \/ optional = {} THEN Group[keys] ELSE all
  BY Zenon DEF PlanBlocks
<1>2. CASE required = {} \/ optional = {}
  BY <1>1, <1>2, GroupIsGood
<1>3. CASE ~(required = {} \/ optional = {})
  <2>1. required \in SUBSET Required /\ optional \in SUBSET Optional
        /\ keys = required \cup optional
    BY DEF Required
  <2> HIDE DEF required, optional
  <2>2. /\ \A i \in DOMAIN joined : ~IsOptional(joined[i])
        /\ GoodPlan(joined, Members(joined))
        /\ required \subseteq Members(joined) /\ Members(joined) \subseteq keys
    BY <2>1, JoinedIsGood
  <2> HIDE DEF joined
  <2>3. UNION Range(joined) = Members(joined)
    BY DEF Range, Members
  <2>4. apart = optional \ Members(joined) /\ apart \in SUBSET Optional /\ apart \in SUBSET Keys
    BY <2>1, <2>3, RegistersAreInOrder
  <2> HIDE DEF apart
  <2>5. GoodPlan(rest, apart)
    BY <2>4, GroupIsGood DEF Required
  <2> HIDE DEF rest
  <2>6. /\ joined \in Blocks /\ rest \in Blocks /\ Members(rest) = apart
        /\ n \in Nat /\ m \in Nat /\ DOMAIN joined = 1 .. n /\ DOMAIN rest = 1 .. m
    BY <2>2, <2>5 DEF GoodPlan, Blocks
  <2>7. /\ all \in Blocks /\ DOMAIN all = 1 .. n + m
        /\ \A i \in 1 .. n : all[i] = joined[i]
        /\ \A i \in 1 .. m : all[n + i] = rest[i]
    BY <2>6, Together DEF Blocks
  <2> HIDE DEF all
  <2>8. \A i \in DOMAIN all : i \in 1 .. n \/ \E h \in 1 .. m : i = n + h
    <3>1. ASSUME NEW i \in 1 .. n + m, i \notin 1 .. n PROVE i - n \in 1 .. m /\ i = n + (i - n)
      BY <2>6, <3>1
    <3>2. QED
      BY <2>7, <3>1
  <2>9. (\A i \in 1 .. n : i \in DOMAIN all) /\ (\A h \in 1 .. m : n + h \in DOMAIN all)
    BY <2>6, <2>7
  <2>10. \A h \in 1 .. m : IsOptional(rest[h]) /\ rest[h] \subseteq apart
    BY <2>4, <2>6 DEF IsOptional, Members
  <2>11. \A i \in 1 .. n : joined[i] \subseteq Members(joined) /\ ~IsOptional(joined[i])
    BY <2>2, <2>6 DEF Members
  <2>12. Members(all) = keys
    <3>1. Members(joined) \subseteq Members(all)
      BY <2>6, <2>7, <2>9 DEF Members
    <3>2. apart \subseteq Members(all)
      BY <2>6, <2>7, <2>9 DEF Members
    <3>3. Members(all) \subseteq Members(joined) \cup apart
      BY <2>7, <2>8, <2>10, <2>11 DEF Members
    <3>4. QED
      BY <2>1, <2>2, <2>4, <3>1, <3>2, <3>3
  <2>13. ASSUME NEW i \in DOMAIN all
         PROVE  /\ InOneRead(all[i])
                /\ IsOptional(all[i]) => Tight(all[i])
                /\ IsOptional(all[i]) \/
                       /\ StartOf(all[i]) = StartOf(all[i] \cap Required)
                       /\ EndOf(all[i]) = EndOf(all[i] \cap Required)
    <3>1. CASE i \in 1 .. n
      BY <2>2, <2>6, <2>7, <3>1 DEF GoodPlan
    <3>2. CASE \E h \in 1 .. m : i = n + h
      <4>1. PICK h \in 1 .. m : i = n + h
        BY <3>2
      <4>2. all[i] = rest[h] /\ h \in DOMAIN rest
        BY <2>6, <2>7, <4>1
      <4>3. QED
        BY <2>5, <4>2 DEF GoodPlan
    <3>3. QED
      BY <2>8, <3>1, <3>2
  <2>14. ASSUME NEW i \in DOMAIN all, NEW j \in DOMAIN all, i < j
         PROVE  /\ all[i] \cap all[j] = {}
                /\ IsOptional(all[i]) => IsOptional(all[j])
    <3>1. CASE i \in 1 .. n /\ j \in 1 .. n
      BY <2>2, <2>6, <2>7, <2>14, <3>1 DEF GoodPlan
    <3>2. CASE i \in 1 .. n /\ \E h \in 1 .. m : j = n + h
      <4>1. all[i] \subseteq Members(joined) /\ ~IsOptional(all[i]) /\ all[j] \subseteq apart
        BY <2>7, <2>10, <2>11, <3>2
      <4>2. QED
        BY <2>4, <4>1
    <3>3. CASE i \notin 1 .. n
      <4>1. PICK h \in 1 .. m : i = n + h
        BY <2>8, <3>3
      <4>2. j \notin 1 .. n
        BY <2>6, <2>14, <4>1
      <4>3. PICK g \in 1 .. m : j = n + g
        BY <2>8, <4>2
      <4>4. h < g
        BY <2>6, <2>14, <4>1, <4>3
      <4>5. all[i] = rest[h] /\ all[j] = rest[g]
        BY <2>7, <4>1, <4>3
      <4>6. QED
        BY <2>5, <2>6, <4>4, <4>5 DEF GoodPlan
    <3>4. QED
      BY <2>8, <3>1, <3>2, <3>3
  <2>15. GoodPlan(all, keys)
    BY <2>7, <2>12, <2>13, <2>14 DEF GoodPlan
  <2>16. PlanBlocks[keys] = all
    BY <1>1, <1>3 DEF required, optional
  <2>17. QED
    BY <2>15, <2>16
<1>4. QED
  BY <1>2, <1>3

(* What holds after every step.  The plan is a reading of what is asked    *)
(* for; the poll has left what it may still need of the plan it started    *)
(* with; and a register is given up with the block it was tight in.        *)

PlanTypes ==
    /\ isolate \in BOOLEAN
    /\ unsupported \in SUBSET Optional /\ missing \in SUBSET Optional
    /\ stalls \in [Optional -> Nat] /\ failed \in [Optional -> Nat]
    /\ at \in {"idle", "reading", "probing"}
    /\ firmware \in Nat /\ known \in Nat /\ connected \in BOOLEAN

PlanFollows ==
    /\ wanted # Unset => wanted = OwnKeys \cup UNION asked
    /\ GoodPlan(plan, Asking(wanted) \ unsupported)

\* Blocks left to read, when some keys are read or given up.
ToRead(blocks, gone) ==
    /\ blocks \in Blocks
    /\ \A i \in DOMAIN blocks :
        /\ IsOptional(blocks[i]) => Tight(blocks[i])
        /\ blocks[i] \cap gone = {}
    /\ \A i, j \in DOMAIN blocks : i < j =>
           /\ blocks[i] \cap blocks[j] = {}
           /\ IsOptional(blocks[i]) => IsOptional(blocks[j])

QueueHolds ==
    /\ ToRead(queue, unsupported \cup probe \cup refused)
    /\ at = "idle" => queue = <<>>
    /\ at # "probing" => probe = {} /\ refused = {}

ReadOrLeft ==
    /\ at # "idle" => OwnKeys \cap Required \subseteq got \cup Members(queue)
    /\ data # Unset => OwnKeys \cap Required \subseteq data

Linked == known <= firmware /\ (connected => known = firmware)

\* _optional_stalls counts the failures until the block is given up.
StallsCounted ==
    \A k \in Optional :
        /\ failed[k] < StallsToDrop => stalls[k] = failed[k]
        /\ failed[k] >= StallsToDrop => stalls[k] = 0 /\ k \in unsupported

\* By a block that could be read alone.
GivenUp(k) ==
    \E group \in SUBSET unsupported :
        k \in group /\ Tight(group) /\ failed[FirstOf(group)] >= StallsToDrop

Caused ==
    /\ probe \cup refused \subseteq Optional /\ refused \subseteq missing
    /\ known = firmware => \A k \in unsupported \ missing : GivenUp(k)

PlanInv == PlanTypes /\ PlanFollows /\ QueueHolds /\ ReadOrLeft /\ Linked /\ StallsCounted /\ Caused

(* Every plan made is one of what is asked for.                            *)
LEMMA PlanIsAsked ==
    ASSUME NEW w, NEW dropped PROVE GoodPlan(Plan(w, dropped), Asking(w) \ dropped)
<1>1. NotExcluded(w, dropped) \in SUBSET Keys
  BY DEF NotExcluded, Asking
<1>2. QED
  BY <1>1, PlanIsGood DEF Plan, NotExcluded

(* What is left to read, when nothing is, when the first block is read,    *)
LEMMA NothingToRead == ASSUME NEW gone PROVE ToRead(<<>>, gone)
BY DEF ToRead, Blocks

LEMMA TailOfBlocks ==
    ASSUME NEW blocks, NEW gone, ToRead(blocks, gone), blocks # <<>>
    PROVE  /\ Head(blocks) \in SUBSET Keys /\ Head(blocks) # {}
           /\ FirstOf(Head(blocks)) \in Head(blocks)
           /\ IsOptional(Head(blocks)) => Tight(Head(blocks)) /\ IsOptional(Members(blocks))
           /\ Head(blocks) \cap gone = {}
           /\ ToRead(Tail(blocks), gone \cup Head(blocks))
           /\ Members(blocks) = Head(blocks) \cup Members(Tail(blocks))
<1> DEFINE tail == Tail(blocks)
           n == Len(blocks)
<1>1. /\ blocks \in Blocks /\ n \in Nat /\ n # 0 /\ DOMAIN blocks = 1 .. n
      /\ Head(blocks) = blocks[1] /\ 1 \in 1 .. n
      /\ tail \in Blocks /\ DOMAIN tail = 1 .. n - 1
      /\ \A i \in 1 .. n - 1 : tail[i] = blocks[i + 1] /\ i + 1 \in 1 .. n
  BY DEF ToRead, Blocks
<1>2. Head(blocks) \in SUBSET Keys /\ Head(blocks) # {}
  BY <1>1 DEF Blocks
<1>3. FirstOf(Head(blocks)) \in Head(blocks)
  BY <1>2, FirstIsLeast
<1>4. (IsOptional(Head(blocks)) => Tight(Head(blocks))) /\ Head(blocks) \cap gone = {}
  BY <1>1 DEF ToRead
<1>10. ASSUME IsOptional(Head(blocks)) PROVE IsOptional(Members(blocks))
  <2>1. ASSUME NEW i \in 1 .. n PROVE IsOptional(blocks[i])
    <3>1. i = 1 \/ 1 < i
      BY <1>1
    <3>2. QED
      BY <1>1, <1>10, <3>1 DEF ToRead
  <2>2. QED
    BY <1>1, <2>1 DEF Members, IsOptional
<1> HIDE DEF tail
<1>5. ASSUME NEW i \in DOMAIN tail
      PROVE  /\ IsOptional(tail[i]) => Tight(tail[i])
             /\ tail[i] \cap (gone \cup Head(blocks)) = {}
  <2>1. tail[i] = blocks[i + 1] /\ i + 1 \in 1 .. n /\ 1 < i + 1
    BY <1>1
  <2>2. QED
    BY <1>1, <2>1 DEF ToRead
<1>6. ASSUME NEW i \in DOMAIN tail, NEW j \in DOMAIN tail, i < j
      PROVE  tail[i] \cap tail[j] = {} /\ (IsOptional(tail[i]) => IsOptional(tail[j]))
  <2>1. i + 1 \in 1 .. n /\ j + 1 \in 1 .. n /\ i + 1 < j + 1
        /\ tail[i] = blocks[i + 1] /\ tail[j] = blocks[j + 1]
    BY <1>1, <1>6
  <2>2. QED
    BY <1>1, <2>1 DEF ToRead
<1>7. Members(blocks) = Head(blocks) \cup Members(tail)
  <2>1. ASSUME NEW i \in 1 .. n, i # 1
        PROVE  i - 1 \in 1 .. n - 1 /\ blocks[i] = tail[i - 1]
    <3>1. i - 1 \in 1 .. n - 1 /\ i - 1 + 1 = i
      BY <1>1, <2>1
    <3>2. QED
      BY <1>1, <3>1
  <2>2. QED
    BY <1>1, <2>1 DEF Members
<1>8. ToRead(tail, gone \cup Head(blocks))
  BY <1>1, <1>5, <1>6 DEF ToRead
<1>9. QED
  BY <1>2, <1>3, <1>4, <1>7, <1>8, <1>10 DEF tail

(* at the start of a poll, and when a key is not given up after all.       *)
LEMMA GoodIsToRead ==
    ASSUME NEW blocks, NEW keys, GoodPlan(blocks, keys), NEW gone, keys \cap gone = {}
    PROVE  ToRead(blocks, gone)
BY DEF GoodPlan, ToRead, Members

LEMMA FewerGone ==
    ASSUME NEW blocks, NEW gone, ToRead(blocks, gone), NEW fewer, fewer \subseteq gone
    PROVE  ToRead(blocks, fewer)
BY DEF ToRead

(* Every part of the invariant holds at first and is kept.                 *)
LEMMA InitPlanInv == PlanInit => PlanInv
<1> SUFFICES ASSUME PlanInit PROVE PlanInv
  OBVIOUS
<1> USE DEF PlanInit
<1>1. PlanTypes
  <2>1. missing \in SUBSET Optional
    BY DEF Firmwares
  <2>2. QED
    BY <2>1 DEF PlanTypes
<1>2. PlanFollows
  BY PlanIsAsked DEF PlanFollows
<1>3. QueueHolds
  BY NothingToRead DEF QueueHolds
<1>4. ReadOrLeft /\ Linked
  BY DEF ReadOrLeft, Linked
<1>5. StallsCounted /\ Caused
  BY BoundsAreNatural DEF StallsCounted, Caused
<1>6. QED
  BY <1>1, <1>2, <1>3, <1>4, <1>5 DEF PlanInv

LEMMA IsolateStays == [PlanNext]_planVars => isolate' = isolate
BY DEF PlanNext, planVars, plans, polling, device, PollOnDemand, Listen, StartPoll,
   BlockAnswers, BlockIsMute, LoseBlock, BlockIsBusy, RefuseBlock, ProbeRegister,
   ProbeStalls, EndProbe, EndPoll, UpdateFirmware, StallIn, Failing, Probed

LEMMA PlanIsKeptOrMade ==
    ASSUME PlanInv, [PlanNext]_planVars
    PROVE  /\ \/ plan' = plan /\ wanted' = wanted /\ unsupported' = unsupported
              \/ plan' = Plan(wanted', unsupported')
           /\ wanted' # Unset => wanted' = OwnKeys \cup UNION asked'
<1> USE DEF plans
<1>1. wanted # Unset => wanted = OwnKeys \cup UNION asked
  BY DEF PlanInv, PlanFollows
<1>2. CASE PollOnDemand
  BY <1>2 DEF PollOnDemand, TrackWanted
<1>3. CASE Listen
  BY <1>1, <1>3 DEF Listen, TrackWanted
<1>4. CASE StartPoll
  BY <1>1, <1>4 DEF StartPoll
<1>5. CASE BlockAnswers
  BY <1>1, <1>5 DEF BlockAnswers
<1>6. CASE BlockIsMute
  BY <1>1, <1>6 DEF BlockIsMute, StallIn, NoteStall, Failing
<1>7. CASE LoseBlock
  BY <1>1, <1>7 DEF LoseBlock, StallIn, NoteStall, Failing
<1>8. CASE BlockIsBusy
  BY <1>1, <1>8 DEF BlockIsBusy, Failing
<1>9. CASE RefuseBlock
  BY <1>1, <1>9 DEF RefuseBlock
<1>10. CASE ProbeRegister
  BY <1>1, <1>10 DEF ProbeRegister, Probed
<1>11. CASE ProbeStalls
  BY <1>1, <1>11 DEF ProbeStalls, Failing
<1>12. CASE EndProbe
  BY <1>1, <1>12 DEF EndProbe
<1>13. CASE EndPoll
  BY <1>1, <1>13 DEF EndPoll
<1>14. CASE UpdateFirmware
  BY <1>1, <1>14 DEF UpdateFirmware, Failing
<1>15. CASE UNCHANGED planVars
  BY <1>1, <1>15 DEF planVars
<1>16. QED
  BY <1>2, <1>3, <1>4, <1>5, <1>6, <1>7, <1>8, <1>9, <1>10, <1>11, <1>12, <1>13, <1>14,
     <1>15 DEF PlanNext

LEMMA PlanFollowsOn == PlanInv /\ [PlanNext]_planVars => PlanFollows'
<1> SUFFICES ASSUME PlanInv, [PlanNext]_planVars PROVE PlanFollows'
  OBVIOUS
<1>1. GoodPlan(plan', Asking(wanted') \ unsupported')
  BY PlanIsKeptOrMade, PlanIsAsked DEF PlanInv, PlanFollows
<1>2. isolate' = isolate
  BY IsolateStays
<1>3. GoodPlan(plan, Asking(wanted) \ unsupported)'
  BY <1>1, <1>2 DEF GoodPlan, Tight, Joins, Asking
<1>4. QED
  BY <1>3, PlanIsKeptOrMade DEF PlanFollows

LEMMA QueueHoldsOn == PlanInv /\ [PlanNext]_planVars => QueueHolds'
<1> SUFFICES ASSUME PlanInv, [PlanNext]_planVars PROVE QueueHolds'
  OBVIOUS
<1> DEFINE gone == unsupported \cup probe \cup refused
           left == ToRead(queue', gone')
<1>1. /\ ToRead(queue, gone) /\ (at = "idle" => queue = <<>>)
      /\ at # "probing" => probe = {} /\ refused = {}
  BY DEF PlanInv, QueueHolds
<1>2. SUFFICES /\ left /\ (at' = "idle" => queue' = <<>>)
               /\ at' # "probing" => probe' = {} /\ refused' = {}
  <2>1. ASSUME left PROVE ToRead(queue, gone)'
    <3>1. isolate' = isolate
      BY IsolateStays
    <3>2. QED
      BY <2>1, <3>1 DEF ToRead, Tight, Joins
  <2>2. QED
    BY <2>1 DEF QueueHolds
<1> HIDE DEF gone
<1>3. ASSUME queue # <<>>
      PROVE  /\ ToRead(Tail(queue), gone \cup Head(queue))
             /\ ToRead(Tail(queue), gone)
  <2>1. ToRead(Tail(queue), gone \cup Head(queue))
    BY <1>1, <1>3, TailOfBlocks
  <2>2. QED
    BY <2>1, FewerGone
<1>4. ASSUME Failing
      PROVE  left /\ queue' = <<>> /\ probe' = {} /\ refused' = {}
  BY <1>4, NothingToRead DEF Failing
<1>5. CASE PollOnDemand \/ Listen \/ UNCHANGED planVars
  BY <1>1, <1>5 DEF PollOnDemand, Listen, planVars, plans, polling, gone
<1>6. CASE StartPoll
  <2>1. GoodPlan(plan', Asking(wanted') \ unsupported')
    BY PlanIsKeptOrMade, PlanIsAsked DEF PlanInv, PlanFollows
  <2>2. queue' = plan' /\ probe' = {} /\ refused' = {} /\ at' = "reading"
    BY <1>1, <1>6 DEF StartPoll
  <2>3. left
    BY <2>1, <2>2, GoodIsToRead DEF gone
  <2>4. QED
    BY <2>2, <2>3
<1>7. CASE BlockAnswers
  BY <1>1, <1>3, <1>7 DEF BlockAnswers, Remaining, plans, gone
<1>8. CASE BlockIsMute
  BY <1>8, <1>4 DEF BlockIsMute, StallIn
<1>9. CASE LoseBlock
  BY <1>9, <1>4 DEF LoseBlock, StallIn
<1>10. CASE BlockIsBusy
  <2>1. CASE IsOptional(Head(queue))
    BY <1>1, <1>3, <1>10, <2>1 DEF BlockIsBusy, Remaining, plans, gone
  <2>2. CASE ~IsOptional(Head(queue))
    BY <1>4, <1>10, <2>2 DEF BlockIsBusy
  <2>3. QED
    BY <2>1, <2>2
<1>11. CASE RefuseBlock
  <2>1. gone' = gone \cup Head(queue)
    BY <1>1, <1>11 DEF RefuseBlock, plans, gone
  <2>2. QED
    BY <1>3, <1>11, <2>1 DEF RefuseBlock, Remaining
<1>12. CASE ProbeRegister
  <2>1. at = "probing" /\ probe # {} /\ FirstOf(probe) \in probe
    BY <1>12, FirstIsLeast, RegistersAreInOrder DEF ProbeRegister, PlanInv, Caused
  <2>2. gone' \subseteq gone /\ queue' = queue /\ at' = at
    BY <1>12, <2>1 DEF ProbeRegister, Probed, plans, gone
  <2>3. QED
    BY <1>1, <2>1, <2>2, FewerGone
<1>13. CASE ProbeStalls
  BY <1>4, <1>13 DEF ProbeStalls
<1>14. CASE EndProbe
  <2>1. gone' \subseteq gone /\ queue' = queue /\ at' = "reading" /\ probe' = {} /\ refused' = {}
    BY <1>14 DEF EndProbe, gone
  <2>2. QED
    BY <1>1, <2>1, FewerGone
<1>15. CASE EndPoll
  BY <1>1, <1>15 DEF EndPoll, plans, gone
<1>16. CASE UpdateFirmware
  BY <1>4, <1>16 DEF UpdateFirmware
<1>17. QED
  BY <1>5, <1>6, <1>7, <1>8, <1>9, <1>10, <1>11, <1>12, <1>13, <1>14, <1>15, <1>16
     DEF PlanNext

LEMMA ReadOrLeftOn == PlanInv /\ [PlanNext]_planVars => ReadOrLeft'
<1> SUFFICES ASSUME PlanInv, [PlanNext]_planVars PROVE ReadOrLeft'
  OBVIOUS
<1> DEFINE own == OwnKeys \cap Required
<1>1. /\ at # "idle" => own \subseteq got \cup Members(queue)
      /\ data # Unset => own \subseteq data
      /\ ToRead(queue, unsupported \cup probe \cup refused)
  BY DEF PlanInv, ReadOrLeft, QueueHolds
<1>2. SUFFICES /\ at' # "idle" => own \subseteq got' \cup Members(queue')
               /\ data' # Unset => own \subseteq data'
  BY DEF ReadOrLeft, Members
<1>3. own \cap Optional = {} /\ Members(<<>>) = {}
  BY DEF Required, Members
<1> HIDE DEF own
<1>4. queue # <<>> => Members(queue) = Head(queue) \cup Members(Tail(queue))
  BY <1>1, TailOfBlocks
<1>5. CASE PollOnDemand \/ Listen \/ UNCHANGED planVars
  BY <1>1, <1>5 DEF PollOnDemand, Listen, planVars, polling
<1>6. CASE StartPoll
  <2>1. GoodPlan(plan', Asking(wanted') \ unsupported')
    BY PlanIsKeptOrMade, PlanIsAsked DEF PlanInv, PlanFollows
  <2>2. queue' = plan' /\ wanted' = wanted /\ unsupported' \in SUBSET Optional /\ data' = data
    BY <1>6 DEF StartPoll, PlanInv, PlanTypes
  <2>3. own \subseteq Asking(wanted)
    <3>1. wanted # Unset => OwnKeys \subseteq wanted
      BY DEF PlanInv, PlanFollows
    <3>2. QED
      BY <3>1 DEF Asking, own, Required
  <2>4. own \subseteq Members(queue')
    BY <1>3, <2>1, <2>2, <2>3 DEF GoodPlan
  <2>5. QED
    BY <1>1, <2>2, <2>4
<1>7. CASE BlockAnswers
  BY <1>1, <1>4, <1>7 DEF BlockAnswers, Remaining
<1>8. CASE BlockIsMute \/ LoseBlock \/ ProbeStalls \/ UpdateFirmware
  BY <1>8 DEF BlockIsMute, LoseBlock, ProbeStalls, UpdateFirmware, StallIn, Failing
<1>9. CASE BlockIsBusy
  <2>1. CASE IsOptional(Head(queue))
    BY <1>1, <1>3, <1>4, <1>9, <2>1 DEF BlockIsBusy, Remaining, IsOptional
  <2>2. CASE ~IsOptional(Head(queue))
    BY <1>9, <2>2 DEF BlockIsBusy, Failing
  <2>3. QED
    BY <2>1, <2>2
<1>10. CASE RefuseBlock
  BY <1>1, <1>3, <1>4, <1>10 DEF RefuseBlock, Remaining, IsOptional
<1>11. CASE ProbeRegister
  BY <1>1, <1>11 DEF ProbeRegister, Probed
<1>12. CASE EndProbe
  BY <1>1, <1>12 DEF EndProbe
<1>13. CASE EndPoll
  BY <1>1, <1>3, <1>13 DEF EndPoll
<1>14. QED
  BY <1>5, <1>6, <1>7, <1>8, <1>9, <1>10, <1>11, <1>12, <1>13 DEF PlanNext

LEMMA TypesAndLinkOn == PlanInv /\ [PlanNext]_planVars => PlanTypes' /\ Linked'
<1> SUFFICES ASSUME PlanInv, [PlanNext]_planVars PROVE PlanTypes' /\ Linked'
  OBVIOUS
<1> DEFINE h == Head(queue)
           counts == [Optional -> Nat]
<1>1. /\ isolate \in BOOLEAN
      /\ unsupported \in SUBSET Optional /\ missing \in SUBSET Optional
      /\ refused \in SUBSET Optional
      /\ stalls \in counts /\ failed \in counts
      /\ at \in {"idle", "reading", "probing"}
      /\ firmware \in Nat /\ known \in Nat /\ connected \in BOOLEAN
      /\ known <= firmware /\ (connected => known = firmware)
  BY DEF PlanInv, PlanTypes, Linked, Caused
<1>2. SUFFICES /\ unsupported' \in SUBSET Optional /\ missing' \in SUBSET Optional
               /\ stalls' \in counts /\ failed' \in counts
               /\ at' \in {"idle", "reading", "probing"}
               /\ firmware' \in Nat /\ known' \in Nat /\ connected' \in BOOLEAN
               /\ known' <= firmware' /\ (connected' => known' = firmware')
  <2>1. isolate' = isolate
    BY IsolateStays
  <2>2. QED
    BY <1>1, <2>1 DEF PlanTypes, Linked
<1>3. ASSUME queue # <<>>, IsOptional(h) PROVE h \in SUBSET Optional /\ FirstOf(h) \in Optional
  BY <1>3, TailOfBlocks DEF PlanInv, QueueHolds, IsOptional
<1>4. ASSUME NEW f \in counts, NEW k \in Optional, NEW v \in Nat
      PROVE  [f EXCEPT ![k] = v] \in counts
  OBVIOUS
<1>5. ASSUME NEW f \in counts, NEW k \in Optional PROVE f[k] + 1 \in Nat
  OBVIOUS
<1> HIDE DEF h, counts
<1>6. ASSUME queue # <<>>, StallIn(h), failed' = Failures(h)
      PROVE  /\ unsupported' \in SUBSET Optional /\ stalls' \in counts /\ failed' \in counts
             /\ at' = "idle" /\ known' = known /\ connected' = FALSE
             /\ missing' = missing /\ firmware' = firmware
  <2>1. CASE IsOptional(h)
    <3>1. failed' \in counts
      BY <1>1, <1>3, <1>4, <1>5, <1>6, <2>1 DEF Failures
    <3>2. stalls' \in counts /\ unsupported' \in SUBSET Optional
      BY <1>1, <1>3, <1>4, <1>5, <1>6, <2>1 DEF StallIn, NoteStall
    <3>3. QED
      BY <1>6, <3>1, <3>2 DEF StallIn, Failing, device
  <2>2. CASE ~IsOptional(h)
    BY <1>1, <1>6, <2>2 DEF StallIn, Failures, Failing, device
  <2>3. QED
    BY <2>1, <2>2
<1>7. CASE PollOnDemand \/ Listen \/ UNCHANGED planVars
  BY <1>1, <1>7 DEF PollOnDemand, Listen, planVars, plans, polling, device
<1>8. CASE StartPoll
  <2>1. failed' \in counts
    BY <1>1, <1>8 DEF StartPoll, counts
  <2>2. QED
    BY <1>1, <1>8, <2>1 DEF StartPoll, device
<1>9. CASE BlockAnswers
  <2>1. stalls' \in counts /\ failed' \in counts
    BY <1>1, <1>3, <1>4, <1>9 DEF BlockAnswers, Unstalled, h
  <2>2. QED
    BY <1>1, <1>9, <2>1 DEF BlockAnswers, plans, device
<1>10. CASE BlockIsMute
  BY <1>1, <1>6, <1>10 DEF BlockIsMute, h
<1>11. CASE LoseBlock
  BY <1>1, <1>6, <1>11 DEF LoseBlock, h
<1>12. CASE BlockIsBusy
  BY <1>1, <1>12 DEF BlockIsBusy, Failing, plans, device
<1>13. CASE RefuseBlock
  BY <1>1, <1>13 DEF RefuseBlock, plans, device
<1>14. CASE ProbeRegister
  BY <1>1, <1>14 DEF ProbeRegister, Probed, plans, device
<1>15. CASE ProbeStalls
  BY <1>1, <1>15 DEF ProbeStalls, Failing, device
<1>16. CASE EndProbe
  BY <1>1, <1>16 DEF EndProbe, device
<1>17. CASE EndPoll
  BY <1>1, <1>17 DEF EndPoll, plans, device
<1>18. CASE UpdateFirmware
  <2>1. missing' \in SUBSET Optional
    BY <1>18 DEF UpdateFirmware, Firmwares
  <2>2. firmware' \in Nat /\ known' <= firmware' /\ known' = known
    BY <1>1, <1>18 DEF UpdateFirmware, Failing
  <2>3. QED
    BY <1>1, <1>18, <2>1, <2>2 DEF UpdateFirmware, Failing
<1>19. QED
  BY <1>7, <1>8, <1>9, <1>10, <1>11, <1>12, <1>13, <1>14, <1>15, <1>16, <1>17, <1>18
     DEF PlanNext

(* The block at hand counts among those still to be given up, and what the *)
(* coordinator must have has been read before it.                          *)
LEMMA HeadCounts ==
    ASSUME PlanInv, queue # <<>>, IsOptional(Head(queue))
    PROVE  LET first == FirstOf(Head(queue))
           IN  /\ first \in Optional /\ first \in Head(queue) /\ first \notin unsupported
               /\ failed[first] \in Nat /\ failed[first] < StallsToDrop
               /\ stalls[first] = failed[first]
               /\ OwnKeys \cap Required \subseteq got
<1> DEFINE first == FirstOf(Head(queue))
<1>1. first \in Head(queue) /\ first \in Optional /\ first \notin unsupported
  <2> DEFINE gone == unsupported \cup probe \cup refused
  <2>1. ToRead(queue, gone) /\ Head(queue) \subseteq Optional
    BY DEF PlanInv, QueueHolds, IsOptional
  <2>2. first \in Head(queue) /\ Head(queue) \cap gone = {}
    <3> HIDE DEF gone
    <3>1. QED
      BY <2>1, TailOfBlocks
  <2>3. QED
    BY <2>1, <2>2
<1>2. failed[first] \in Nat /\ StallsToDrop \in Nat
  BY <1>1, BoundsAreNatural DEF PlanInv, PlanTypes
<1>3. failed[first] < StallsToDrop /\ stalls[first] = failed[first]
  BY <1>1, <1>2 DEF PlanInv, StallsCounted
<1>4. OwnKeys \cap Required \subseteq got
  <2>1. Members(queue) \subseteq Optional
    BY TailOfBlocks DEF PlanInv, QueueHolds, IsOptional
  <2>2. OwnKeys \cap Required \subseteq got \cup Members(queue)
    BY DEF PlanInv, QueueHolds, ReadOrLeft
  <2>3. QED
    BY <2>1, <2>2 DEF Required
<1>5. QED
  BY <1>1, <1>2, <1>3, <1>4

(* A stall counts for its block and for no other, and gives it up at last. *)
LEMMA StallIsCounted ==
    ASSUME PlanInv, queue # <<>>, StallIn(Head(queue)), failed' = Failures(Head(queue))
    PROVE  /\ StallsCounted'
           /\ \/ unsupported' = unsupported
              \/ /\ IsOptional(Head(queue)) /\ unsupported' = unsupported \cup Head(queue)
                 /\ failed'[FirstOf(Head(queue))] >= StallsToDrop
           /\ \A k \in unsupported : failed'[k] = failed[k]
<1> DEFINE first == FirstOf(Head(queue))
<1>1. /\ stalls \in [Optional -> Nat] /\ failed \in [Optional -> Nat]
      /\ StallsToDrop \in Nat \ {0} /\ StallsCounted
  BY BoundsAreNatural DEF PlanInv, PlanTypes
<1>2. CASE IsOptional(Head(queue))
  <2>1. /\ first \in Optional /\ first \in Head(queue) /\ first \notin unsupported
        /\ failed[first] \in Nat /\ failed[first] < StallsToDrop
        /\ stalls[first] = failed[first] /\ OwnKeys \cap Required \subseteq got
    BY <1>2, HeadCounts
  <2>2. failed' = [failed EXCEPT ![first] = failed[first] + 1]
    BY <1>2, <2>1 DEF Failures
  <2> HIDE DEF first
  <2>3. /\ failed'[first] = failed[first] + 1
        /\ \A k \in Optional \ {first} : failed'[k] = failed[k]
    BY <1>1, <2>1, <2>2
  <2>4. CASE stalls[first] + 1 < StallsToDrop
    <3>1. stalls' = [stalls EXCEPT ![first] = stalls[first] + 1] /\ unsupported' = unsupported
      BY <1>2, <2>4 DEF StallIn, NoteStall, first
    <3>2. /\ stalls'[first] = failed'[first] /\ failed'[first] < StallsToDrop
          /\ ~(failed'[first] >= StallsToDrop)
          /\ \A k \in Optional \ {first} : stalls'[k] = stalls[k]
      BY <1>1, <2>1, <2>3, <2>4, <3>1
    <3>3. StallsCounted'
      BY <1>1, <2>3, <3>1, <3>2 DEF StallsCounted
    <3>4. QED
      BY <2>1, <2>3, <3>1, <3>3, <1>1, RegistersAreInOrder DEF PlanInv, PlanTypes
  <2>5. CASE ~(stalls[first] + 1 < StallsToDrop)
    <3>1. /\ stalls' = [stalls EXCEPT ![first] = 0]
          /\ unsupported' = unsupported \cup Head(queue)
      BY <1>2, <2>5 DEF StallIn, NoteStall, first
    <3>2. /\ stalls'[first] = 0 /\ failed'[first] >= StallsToDrop
          /\ ~(failed'[first] < StallsToDrop)
          /\ \A k \in Optional \ {first} : stalls'[k] = stalls[k]
      BY <1>1, <2>1, <2>3, <2>5, <3>1
    <3>3. StallsCounted'
      BY <1>1, <2>1, <2>3, <3>1, <3>2 DEF StallsCounted
    <3>4. QED
      BY <1>2, <2>1, <2>3, <3>1, <3>2, <3>3 DEF PlanInv, PlanTypes, first
  <2>6. QED
    BY <2>4, <2>5
<1>3. CASE ~IsOptional(Head(queue))
  BY <1>1, <1>3 DEF StallIn, Failures, StallsCounted
<1>4. QED
  BY <1>2, <1>3

LEMMA CountedOn == PlanInv /\ [PlanNext]_planVars => StallsCounted'
<1> SUFFICES ASSUME PlanInv, [PlanNext]_planVars PROVE StallsCounted'
  OBVIOUS
<1>1. /\ stalls \in [Optional -> Nat] /\ failed \in [Optional -> Nat]
      /\ StallsToDrop \in Nat \ {0} /\ StallsCounted
  BY BoundsAreNatural DEF PlanInv, PlanTypes
<1>2. ASSUME UNCHANGED <<stalls, failed>>, unsupported \subseteq unsupported'
      PROVE  StallsCounted'
  BY <1>1, <1>2 DEF StallsCounted
<1>3. CASE PollOnDemand \/ Listen \/ UNCHANGED planVars
  BY <1>2, <1>3 DEF PollOnDemand, Listen, planVars, plans
<1>4. CASE StartPoll
  <2>1. stalls' = stalls
    BY <1>4 DEF StartPoll
  <2>2. CASE known' = known
    BY <1>2, <1>4, <2>1, <2>2 DEF StartPoll
  <2>3. CASE known' # known
    <3>1. \A k \in Optional :
              failed'[k] = IF failed[k] < StallsToDrop THEN failed[k] ELSE 0
      BY <1>4, <2>3 DEF StartPoll
    <3>2. QED
      BY <1>1, <2>1, <3>1 DEF StallsCounted
  <2>4. QED
    BY <2>2, <2>3
<1>5. CASE BlockAnswers
  <2>1. unsupported' = unsupported /\ queue # <<>>
    BY <1>5 DEF BlockAnswers, plans
  <2>2. CASE IsOptional(Head(queue))
    <3> DEFINE first == FirstOf(Head(queue))
    <3>1. first \in Optional /\ failed' = [failed EXCEPT ![first] = 0]
          /\ stalls' = [stalls EXCEPT ![first] = 0]
      BY <1>5, <2>1, <2>2, HeadCounts DEF BlockAnswers, Unstalled
    <3> HIDE DEF first
    <3>2. failed'[first] = 0 /\ stalls'[first] = 0
          /\ \A k \in Optional \ {first} : failed'[k] = failed[k] /\ stalls'[k] = stalls[k]
      BY <1>1, <3>1
    <3>3. QED
      BY <1>1, <2>1, <3>2 DEF StallsCounted
  <2>3. CASE ~IsOptional(Head(queue))
    BY <1>2, <1>5, <2>1, <2>3 DEF BlockAnswers, Unstalled
  <2>4. QED
    BY <2>2, <2>3
<1>6. CASE BlockIsMute \/ LoseBlock
  BY <1>6, StallIsCounted DEF BlockIsMute, LoseBlock
<1>7. CASE BlockIsBusy
  BY <1>2, <1>7 DEF BlockIsBusy, plans
<1>8. CASE RefuseBlock \/ ProbeRegister \/ ProbeStalls \/ EndProbe \/ EndPoll \/ UpdateFirmware
  BY <1>2, <1>8 DEF RefuseBlock, ProbeRegister, Probed, ProbeStalls, EndProbe, EndPoll,
                    UpdateFirmware, plans
<1>9. QED
  BY <1>3, <1>4, <1>5, <1>6, <1>7, <1>8 DEF PlanNext

(* What was given up stays so while its count does.                        *)
LEMMA GivenUpStays ==
    ASSUME PlanInv, isolate' = isolate, unsupported \subseteq unsupported',
           \A k \in unsupported : failed'[k] = failed[k],
           NEW k, GivenUp(k)
    PROVE  GivenUp(k)'
<1>1. PICK group \in SUBSET unsupported :
          k \in group /\ Tight(group) /\ failed[FirstOf(group)] >= StallsToDrop
  BY DEF GivenUp
<1>2. group \in SUBSET Keys /\ group # {}
  BY <1>1, RegistersAreInOrder DEF PlanInv, PlanTypes
<1>3. failed'[FirstOf(group)] = failed[FirstOf(group)]
  BY <1>2, FirstIsLeast
<1>4. Tight(group)'
  BY <1>1 DEF Tight, Joins
<1>5. group \in SUBSET unsupported' /\ failed'[FirstOf(group)] >= StallsToDrop
  BY <1>1, <1>3
<1>6. QED
  BY <1>1, <1>4, <1>5 DEF GivenUp

LEMMA CausedOn == PlanInv /\ [PlanNext]_planVars => Caused'
<1> SUFFICES ASSUME PlanInv, [PlanNext]_planVars PROVE Caused'
  OBVIOUS
<1> DEFINE given == known = firmware => \A k \in unsupported \ missing : GivenUp(k)
<1>1. /\ isolate' = isolate /\ unsupported \in SUBSET Optional
      /\ probe \cup refused \subseteq Optional /\ refused \subseteq missing
      /\ given /\ known <= firmware /\ known \in Nat /\ firmware \in Nat
      /\ connected => known = firmware
  BY IsolateStays DEF PlanInv, PlanTypes, Caused, Linked
<1>2. ASSUME UNCHANGED <<known, device>>, unsupported \subseteq unsupported',
             unsupported' \ unsupported \subseteq missing,
             \A k \in unsupported : failed'[k] = failed[k]
      PROVE  given'
  <2>1. \A k \in unsupported \ missing : GivenUp(k) => GivenUp(k)'
    BY <1>1, <1>2, GivenUpStays
  <2>2. QED
    BY <1>1, <1>2, <2>1 DEF device
<1>3. ASSUME UNCHANGED <<known, device, unsupported, failed>> PROVE given'
  BY <1>2, <1>3
<1> HIDE DEF given
<1>4. SUFFICES /\ given'
               /\ probe' \cup refused' \subseteq Optional /\ refused' \subseteq missing'
  BY DEF Caused, given
<1>5. CASE PollOnDemand \/ Listen \/ UNCHANGED planVars
  BY <1>1, <1>3, <1>5 DEF PollOnDemand, Listen, planVars, plans, polling, device
<1>6. CASE StartPoll
  <2>1. CASE known' = known
    BY <1>1, <1>3, <1>6, <2>1 DEF StartPoll, device
  <2>2. CASE known' # known
    BY <1>1, <1>6, <2>2 DEF StartPoll, device, given
  <2>3. QED
    BY <2>1, <2>2
<1>7. CASE BlockAnswers
  <2>1. queue # <<>> /\ unsupported' = unsupported /\ UNCHANGED <<known, device>>
    BY <1>7 DEF BlockAnswers, plans
  <2>2. \A k \in unsupported : failed'[k] = failed[k]
    <3>1. CASE IsOptional(Head(queue))
      <4> DEFINE first == FirstOf(Head(queue))
      <4>1. first \notin unsupported /\ failed' = [failed EXCEPT ![first] = 0]
        BY <1>7, <2>1, <3>1, HeadCounts DEF BlockAnswers
      <4> HIDE DEF first
      <4>2. failed \in [Optional -> Nat]
        BY DEF PlanInv, PlanTypes
      <4>3. QED
        BY <1>1, <4>1, <4>2
    <3>2. CASE ~IsOptional(Head(queue))
      BY <1>7, <3>2 DEF BlockAnswers
    <3>3. QED
      BY <3>1, <3>2
  <2>3. given'
    BY <1>2, <2>1, <2>2
  <2>4. QED
    BY <1>1, <1>7, <2>1, <2>3 DEF BlockAnswers, device
<1>8. CASE BlockIsMute \/ LoseBlock
  <2>0. PICK h : h = Head(queue)
    OBVIOUS
  <2>1. /\ queue # <<>> /\ StallIn(h) /\ failed' = Failures(h)
        /\ UNCHANGED <<known, device>> /\ probe' = {} /\ refused' = {}
    BY <1>8, <2>0 DEF BlockIsMute, LoseBlock, StallIn, Failing
  <2>2. /\ \/ unsupported' = unsupported
           \/ /\ IsOptional(h) /\ unsupported' = unsupported \cup h
              /\ failed'[FirstOf(h)] >= StallsToDrop
        /\ \A k \in unsupported : failed'[k] = failed[k]
    BY <2>0, <2>1, StallIsCounted
  <2>3. given'
    <3>1. CASE unsupported' = unsupported
      BY <1>2, <2>1, <2>2, <3>1
    <3>2. CASE unsupported' # unsupported
      <4>1. \A k \in unsupported \ missing : GivenUp(k) => GivenUp(k)'
        BY <1>1, <2>2, GivenUpStays
      <4>2. Tight(h)
        BY <2>0, <2>1, <2>2, <3>2, TailOfBlocks DEF PlanInv, QueueHolds
      <4>3. Tight(h)'
        BY <1>1, <4>2 DEF Tight, Joins
      <4>4. \A k \in h : GivenUp(k)'
        BY <2>2, <3>2, <4>3 DEF GivenUp
      <4>5. QED
        BY <1>1, <2>1, <2>2, <3>2, <4>1, <4>4 DEF given, device
    <3>3. QED
      BY <3>1, <3>2
  <2>4. QED
    BY <1>1, <2>1, <2>3 DEF device
<1>9. CASE BlockIsBusy
  BY <1>1, <1>3, <1>9 DEF BlockIsBusy, Failing, plans, device
<1>10. CASE RefuseBlock
  <2>1. UNCHANGED <<known, device, unsupported, failed>> /\ refused' = {}
        /\ probe' \subseteq Optional
    BY <1>10 DEF RefuseBlock, plans, IsOptional
  <2>2. QED
    BY <1>3, <2>1
<1>11. CASE ProbeRegister
  <2>1. probe # {} /\ probe \in SUBSET Keys
    BY <1>1, <1>11, RegistersAreInOrder DEF ProbeRegister
  <2>2. FirstOf(probe) \in probe
    BY <2>1, FirstIsLeast
  <2>3. Refuses({FirstOf(probe)}) => FirstOf(probe) \in missing
    BY DEF Refuses
  <2>4. UNCHANGED <<known, device, unsupported, failed>> /\ probe' \subseteq probe
        /\ refused' \subseteq refused \cup (missing \cap probe)
    BY <1>11, <2>2, <2>3 DEF ProbeRegister, Probed, plans
  <2>5. QED
    BY <1>1, <1>3, <2>4 DEF device
<1>12. CASE ProbeStalls
  BY <1>1, <1>3, <1>12 DEF ProbeStalls, Failing, device
<1>13. CASE EndProbe
  <2>1. given'
    BY <1>1, <1>2, <1>13 DEF EndProbe
  <2>2. QED
    BY <1>1, <1>13, <2>1 DEF EndProbe, device
<1>14. CASE EndPoll
  BY <1>1, <1>3, <1>14 DEF EndPoll, plans, device
<1>15. CASE UpdateFirmware
  <2>1. known' # firmware'
    BY <1>1, <1>15 DEF UpdateFirmware, Failing
  <2>2. QED
    BY <1>15, <2>1 DEF UpdateFirmware, Failing, given
<1>16. QED
  BY <1>5, <1>6, <1>7, <1>8, <1>9, <1>10, <1>11, <1>12, <1>13, <1>14, <1>15 DEF PlanNext

THEOREM PlanInvAlways == PlanSpec => []PlanInv
<1>1. PlanInv /\ [PlanNext]_planVars => PlanInv'
  <2>1. SUFFICES ASSUME PlanInv, [PlanNext]_planVars PROVE PlanInv'
    OBVIOUS
  <2>2. PlanTypes' /\ Linked'
    BY <2>1, TypesAndLinkOn
  <2>3. PlanFollows' /\ QueueHolds'
    BY <2>1, PlanFollowsOn, QueueHoldsOn
  <2>4. ReadOrLeft' /\ StallsCounted' /\ Caused'
    BY <2>1, ReadOrLeftOn, CountedOn, CausedOn
  <2>5. QED
    BY <2>2, <2>3, <2>4 DEF PlanInv
<1>2. QED
  BY <1>1, InitPlanInv, PTL DEF PlanSpec

\* Whoever listens and whatever is dropped, the plan is one reading of every key asked
\* for and not given up (plan_blocks and its callers in coordinator.py).
THEOREM ThePlanIsWhatIsAsked == PlanSpec => []PlanReadsWhatIsAsked
<1>1. PlanInv => PlanReadsWhatIsAsked
  <2>1. SUFFICES ASSUME PlanInv PROVE PlanReadsWhatIsAsked
    OBVIOUS
  <2>2. wanted # Unset => wanted = OwnKeys \cup UNION asked
    BY <2>1 DEF PlanInv, PlanFollows
  <2>3. GoodPlan(plan, Asking(wanted) \ unsupported)
    BY <2>1 DEF PlanInv, PlanFollows
  <2>4. \A i \in DOMAIN plan : plan[i] # {}
    BY <2>3 DEF GoodPlan, Blocks
  <2>5. QED
    BY <2>2, <2>3, <2>4 DEF PlanReadsWhatIsAsked, GoodPlan, Members, InOneRead
<1>2. QED
  BY <1>1, PlanInvAlways, PTL

\* No frame is published without the required registers the coordinator itself reads,
\* however the plan changed during the poll.
THEOREM RequiredAreInEveryFrame == PlanSpec => []RequiredAreAlwaysRead
<1>1. PlanInv => RequiredAreAlwaysRead
  BY DEF PlanInv, ReadOrLeft, RequiredAreAlwaysRead
<1>2. QED
  BY <1>1, PlanInvAlways, PTL

\* What is no longer read is missing, or of one block whose read failed in StallsToDrop
\* polls since it last answered, each time after what the coordinator must
\* have (_async_read_block, _note_optional_stall, _async_probe_optional_block).
THEOREM NothingIsDroppedWithoutCause == PlanSpec => []DroppedForCause
<1>1. PlanInv => DroppedForCause
  <2>1. SUFFICES ASSUME PlanInv, known = firmware, NEW k \in unsupported \ missing
                 PROVE  \E group \in SUBSET unsupported :
                            /\ k \in group
                            /\ Len(Group[group]) = 1
                            /\ failed[FirstOf(group)] >= StallsToDrop
    BY DEF DroppedForCause
  <2>2. PICK group \in SUBSET unsupported :
            k \in group /\ Tight(group) /\ failed[FirstOf(group)] >= StallsToDrop
    BY <2>1 DEF PlanInv, Caused, GivenUp
  <2>3. group \in SUBSET Keys /\ group # {}
    BY <2>1, <2>2, RegistersAreInOrder DEF PlanInv, PlanTypes
  <2>4. Group[group] = <<group>>
    BY <2>2, <2>3, TightIsOneGroup
  <2>5. QED
    BY <2>2, <2>4
<1>2. QED
  BY <1>1, PlanInvAlways, PTL
=============================================================================
