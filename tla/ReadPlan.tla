------------------------------ MODULE ReadPlan ------------------------------
(***************************************************************************)
(* Which registers a poll reads and how they are grouped: plan_blocks of   *)
(* models.py and the demand-driven reads of coordinator.py.  A required    *)
(* read that fails fails the poll; an optional one is kept from failing it *)
(* again: what is refused for good is no longer read, and so is a block    *)
(* that stalls in too many polls without an answer in between, until the   *)
(* firmware changes.                                                       *)
(* Listeners come and go while a poll waits for an answer.                 *)
(***************************************************************************)
EXTENDS Integers, SequencesExt

CONSTANTS
    Unset,
    Registers, Optional, \* the keys of MODBUS_REGISTERS by address; those optional
    Address(_), Size(_), \* of a key's register
    Avoid,               \* addresses no read may cross: the heartbeat register
    MaxGap, MaxSpan,     \* MAX_REGISTER_GAP, MAX_REGISTERS_PER_READ
    OwnKeys,             \* what the coordinator's own processing reads
    Contexts,            \* the sets of keys listeners may ask for
    StallsToDrop,        \* OPTIONAL_STALLS_TO_DROP
    Mixed,               \* some firmware lacks one register and is mute on another
    MaxFirmware,         \* bound on the versions of the firmware
    MaxFaults            \* bound on busy answers, lost links and late answers

Keys == Range(Registers)
Required == Keys \ Optional

ASSUME RegistersAreInOrder ==
    /\ Registers \in Seq(Keys)
    /\ Optional \subseteq Keys
    /\ \A k \in Keys : Address(k) \in Nat /\ Size(k) \in 1 .. MaxSpan
    /\ \A i, j \in DOMAIN Registers : i < j =>
           Address(Registers[i]) + Size(Registers[i]) <= Address(Registers[j])
    /\ \A k \in Keys, a \in Avoid : a \notin Address(k) .. Address(k) + Size(k) - 1

ASSUME BoundsAreNatural ==
    /\ Avoid \subseteq Nat /\ {MaxGap, MaxSpan} \subseteq Nat
    /\ StallsToDrop \in Nat \ {0}

VARIABLES
    isolate,        \* rejects_unimplemented of the model, whose max_register_gap is
                    \* then 0; never changes
    wanted,         \* _wanted_keys: Unset until everything that asks has been added
    asked,          \* the contexts of the listeners
    unsupported,    \* _unsupported_keys
    stalls,         \* _optional_stalls, by the first register of the block
    plan,           \* _register_blocks, each as its set of keys
    queue,          \* the blocks the poll under way has left
    probe, refused, \* the registers left to probe in the block at hand, by address; those
                    \* refused
    got,            \* what the poll has read
    at,             \* "idle", "reading" or "probing"
    data,           \* what the last poll published, or Unset when it failed
    connected, known,       \* the link; the firmware last read
    firmware, missing, mute,  \* the device: its version, the registers it lacks and
                              \* those it never answers for
    faults,         \* counted for the bound
    failed          \* history: polls that failed in a block, by its first register, with
                    \* OwnKeys read before it, since it answered or, given up, was asked
                    \* for again

plans == <<wanted, asked, unsupported, plan>>
polling == <<queue, probe, refused, got, at>>
device == <<firmware, missing, mute>>
planVars == <<isolate, plans, stalls, polling, data, connected, known, device, faults, failed>>

-----------------------------------------------------------------------------
(* plan_blocks: the keys grouped into reads.                               *)

End(k) == Address(k) + Size(k)
FirstOf(block) == CHOOSE k \in block : \A j \in block : Address(k) <= Address(j)
LastOf(block) == CHOOSE k \in block : \A j \in block : Address(j) <= Address(k)
StartOf(block) == Address(FirstOf(block))
EndOf(block) == End(LastOf(block))

\* _group: by address, a read ends before a gap too wide, a response too long or an
\* address to avoid.
Joins(k, block) ==
    /\ Address(k) - EndOf(block) <= IF isolate THEN 0 ELSE MaxGap
    /\ End(k) - StartOf(block) <= MaxSpan
    /\ \A a \in Avoid : a \notin EndOf(block) .. Address(k) - 1

With[k \in Keys] == [blocks \in Seq(SUBSET Keys) |->
    IF blocks # <<>> /\ Joins(k, Last(blocks))
    THEN [blocks EXCEPT ![Len(blocks)] = @ \cup {k}]
    ELSE Append(blocks, {k})]

Group[keys \in SUBSET Keys] ==
    LET add(blocks, k) == IF k \in keys THEN With[k][blocks] ELSE blocks
    IN  FoldLeft(add, <<>>, Registers)

\* An optional register is read with the required ones only inside a read they make.
Covers(block, k) == StartOf(block) <= Address(k) /\ End(k) <= EndOf(block)

Joined[optional \in SUBSET Keys] == [blocks \in Seq(SUBSET Keys) |->
    [i \in DOMAIN blocks |->
        blocks[i] \cup {k \in optional : ~isolate /\ Covers(blocks[i], k)}]]

PlanBlocks[keys \in SUBSET Keys] ==
    LET required == keys \cap Required
        optional == keys \cap Optional
        joined == Joined[optional][Group[required]]
        apart == optional \ UNION Range(joined)
    IN  IF required = {} \/ optional = {} THEN Group[keys] ELSE joined \o Group[apart]

\* _plan_reads, and what plan_blocks_for_model leaves out.
Asking(w) == IF w = Unset THEN Keys ELSE w \cap Keys
NotExcluded(w, dropped) == Asking(w) \ dropped
Plan(w, dropped) == PlanBlocks[NotExcluded(w, dropped)]

\* Whether a block is optional: it holds nothing else.
IsOptional(block) == block \subseteq Optional

-----------------------------------------------------------------------------
(* The device.                                                             *)

\* A model that rejects what it lacks rejects every read with it; another one only
\* a read of nothing else.  A read of required registers is answered on every model.
Refuses(block) == IF isolate THEN block \cap missing # {} ELSE block \subseteq missing
IsMute(block) == IsOptional(block) /\ block \cap mute # {}
Answers(block) == ~Refuses(block) /\ ~IsMute(block)

Firmwares ==
    {f \in [missing : SUBSET Optional, mute : SUBSET Optional] :
        /\ f.missing \cap f.mute = {}
        /\ Mixed \/ f.missing = {} \/ f.mute = {}}

PlanInit ==
    /\ isolate \in BOOLEAN
    /\ wanted = Unset /\ asked = {} /\ unsupported = {}
    /\ plan = Plan(Unset, {})
    /\ stalls = [k \in Optional |-> 0] /\ failed = [k \in Optional |-> 0]
    /\ queue = <<>> /\ probe = {} /\ refused = {} /\ got = {} /\ at = "idle"
    /\ data = Unset
    /\ connected = TRUE /\ known = 1
    /\ firmware = 1
    /\ \E f \in Firmwares : missing = f.missing /\ mute = f.mute
    /\ faults = 0

-----------------------------------------------------------------------------
(* What is asked for.                                                      *)

\* _async_track_wanted_keys, once reads are on demand.
\* (Variants, here and below: the plan of before; the plan followed as it changes; a
\* block that stalls never given up; the count of a block that answers kept.)
TrackWithoutPlanning(contexts) ==
    /\ wanted' = OwnKeys \cup UNION contexts
    /\ plan' = plan
TrackWanted(contexts) ==
    /\ wanted' = OwnKeys \cup UNION contexts
    /\ plan' = IF wanted' = wanted THEN plan ELSE Plan(wanted', unsupported)

\* async_poll_on_demand, after the entities have been added.
PollOnDemand ==
    /\ wanted = Unset
    /\ TrackWanted(asked)
    /\ UNCHANGED <<isolate, asked, unsupported, stalls, polling, data, connected, known,
                   device, faults, failed>>

\* async_add_listener and async_require, and their removal.
Listen ==
    /\ \E c \in Contexts :
           asked' = IF c \in asked THEN asked \ {c} ELSE asked \cup {c}
    /\ IF wanted = Unset THEN UNCHANGED <<wanted, plan>> ELSE TrackWanted(asked')
    /\ UNCHANGED <<isolate, unsupported, stalls, polling, data, connected, known,
                   device, faults, failed>>

-----------------------------------------------------------------------------
(* The poll.                                                               *)

\* async_get_raw_data: a lost link is opened and the device info read again, and a
\* new firmware is asked again for what the old one refused (_firmware_changed).
StartPoll ==
    /\ at = "idle"
    /\ connected' = TRUE
    /\ known' = IF connected THEN known ELSE firmware
    /\ unsupported' = IF known' = known THEN unsupported ELSE {}
    /\ plan' = IF unsupported' = unsupported THEN plan ELSE Plan(wanted, {})
    /\ queue' = plan'
    /\ got' = {} /\ at' = "reading"
    /\ failed' = IF known' = known THEN failed
                 ELSE [k \in Optional |-> IF failed[k] < StallsToDrop THEN failed[k] ELSE 0]
    /\ UNCHANGED <<isolate, wanted, asked, stalls, probe, refused, data, device, faults>>

\* The blocks that remain after the first one.
FollowingThePlan(blocks, changed) ==
    IF Len(blocks) > Len(changed) THEN <<>>
    ELSE SubSeq(changed, Len(changed) - Len(blocks) + 2, Len(changed))
Remaining(blocks, changed) == Tail(blocks)

\* The poll has read every block: its frame is published.
EndPoll ==
    /\ at = "reading" /\ queue = <<>>
    /\ at' = "idle"
    /\ data' = got
    /\ UNCHANGED <<isolate, plans, stalls, queue, probe, refused, got, connected, known,
                   device, faults, failed>>

\* A read fails, or the poll's budget runs out on it: _read_failed.
Failing ==
    /\ at' = "idle" /\ data' = Unset
    /\ connected' = FALSE
    /\ queue' = <<>> /\ probe' = {} /\ refused' = {} /\ got' = {}
    /\ UNCHANGED <<isolate, wanted, asked, known>>

\* _note_optional_stall
NeverGivenUp(block) == UNCHANGED <<stalls, unsupported, plan>>
NoteStall(block) ==
    LET first == FirstOf(block)
    IN  IF stalls[first] + 1 < StallsToDrop
        THEN /\ stalls' = [stalls EXCEPT ![first] = @ + 1]
             /\ UNCHANGED <<unsupported, plan>>
        ELSE /\ stalls' = [stalls EXCEPT ![first] = 0]
             /\ unsupported' = unsupported \cup block
             /\ plan' = Plan(wanted, unsupported')

Failures(block) ==
    IF /\ IsOptional(block) /\ OwnKeys \cap Required \subseteq got
       /\ failed[FirstOf(block)] < StallsToDrop
    THEN [failed EXCEPT ![FirstOf(block)] = @ + 1] ELSE failed

StallIn(block) ==
    /\ IF IsOptional(block) THEN NoteStall(block) ELSE UNCHANGED <<stalls, unsupported, plan>>
    /\ Failing
    /\ UNCHANGED device

\* _async_read_block: the block answers,
KeepsCounting(block) == stalls
Unstalled(block) ==
    IF IsOptional(block) THEN [stalls EXCEPT ![FirstOf(block)] = 0] ELSE stalls

BlockAnswers ==
    /\ at = "reading" /\ queue # <<>>
    /\ Answers(Head(queue))
    /\ queue' = Remaining(queue, plan)
    /\ got' = got \cup Head(queue)
    /\ stalls' = Unstalled(Head(queue))
    /\ failed' = IF IsOptional(Head(queue)) THEN [failed EXCEPT ![FirstOf(Head(queue))] = 0]
                 ELSE failed
    /\ UNCHANGED <<isolate, plans, probe, refused, at, data, connected, known, device,
                   faults>>

\* or does not, as it never does,
BlockIsMute ==
    /\ at = "reading" /\ queue # <<>>
    /\ IsMute(Head(queue))
    /\ StallIn(Head(queue))
    /\ failed' = Failures(Head(queue))
    /\ UNCHANGED faults

\* or is lost with the link, or is late for the budget,
LoseBlock ==
    /\ at = "reading" /\ queue # <<>>
    /\ faults < MaxFaults
    /\ faults' = faults + 1
    /\ failed' = Failures(Head(queue))
    /\ StallIn(Head(queue))

\* or is refused, a required one for now or for good, an optional one for now, which
\* only leaves it empty,
BlockIsBusy ==
    /\ at = "reading" /\ queue # <<>>
    /\ faults < MaxFaults
    /\ faults' = faults + 1
    /\ IF IsOptional(Head(queue))
       THEN /\ queue' = Remaining(queue, plan)
            /\ UNCHANGED <<isolate, plans, probe, refused, got, at, data, connected, known,
                           device>>
       ELSE Failing /\ UNCHANGED <<device, unsupported, plan>>
    /\ UNCHANGED <<stalls, failed>>

\* or is refused for good, and its registers are asked one by one.
RefuseBlock ==
    /\ at = "reading" /\ queue # <<>>
    /\ Refuses(Head(queue)) /\ IsOptional(Head(queue))
    /\ at' = "probing"
    /\ queue' = Remaining(queue, plan)
    /\ probe' = Head(queue)
    /\ refused' = {}
    /\ UNCHANGED <<isolate, plans, stalls, got, data, connected, known, device, faults,
                   failed>>

\* _async_probe_optional_block: a register answers, is refused for good or for now,
Probed(answered, dropped) ==
    /\ probe' = probe \ {FirstOf(probe)}
    /\ got' = got \cup answered
    /\ refused' = refused \cup dropped
    /\ UNCHANGED <<isolate, plans, queue, at, data, stalls, connected, known, device, failed>>

ProbeRegister ==
    /\ at = "probing" /\ probe # {}
    /\ LET k == FirstOf(probe)
       IN  \/ Answers({k}) /\ Probed({k}, {}) /\ UNCHANGED faults
           \/ Refuses({k}) /\ Probed({}, {k}) /\ UNCHANGED faults
           \/ faults < MaxFaults /\ faults' = faults + 1 /\ Probed({}, {})

\* or stalls, which nothing counts.
ProbeStalls ==
    /\ at = "probing" /\ probe # {}
    /\ \/ IsMute({FirstOf(probe)}) /\ UNCHANGED faults
       \/ faults < MaxFaults /\ faults' = faults + 1
    /\ Failing
    /\ UNCHANGED <<device, unsupported, plan, stalls, failed>>

\* What was refused for good is no longer read.
EndProbe ==
    /\ at = "probing" /\ probe = {}
    /\ at' = "reading"
    /\ refused' = {}
    /\ unsupported' = unsupported \cup refused
    /\ plan' = IF refused = {} THEN plan ELSE Plan(wanted, unsupported')
    /\ UNCHANGED <<isolate, wanted, asked, stalls, queue, probe, got, data, connected,
                   known, device, faults, failed>>

\* An update of the firmware restarts the device.
UpdateFirmware ==
    /\ firmware < MaxFirmware
    /\ firmware' = firmware + 1
    /\ \E f \in Firmwares : missing' = f.missing /\ mute' = f.mute
    /\ Failing
    /\ UNCHANGED <<unsupported, plan, stalls, faults, failed>>

PlanNext ==
    \/ PollOnDemand
    \/ Listen
    \/ StartPoll
    \/ BlockAnswers
    \/ BlockIsMute
    \/ LoseBlock
    \/ BlockIsBusy
    \/ RefuseBlock
    \/ ProbeRegister
    \/ ProbeStalls
    \/ EndProbe
    \/ EndPoll
    \/ UpdateFirmware

PlanSpec == PlanInit /\ [][PlanNext]_planVars

\* The coordinator polls on a timer, and a request is answered or times out.
Requests == StartPoll \/ BlockAnswers \/ BlockIsMute \/ RefuseBlock \/ ProbeRegister
            \/ ProbeStalls \/ EndProbe \/ EndPoll
FairPlanSpec == PlanSpec /\ WF_planVars(Requests)

-----------------------------------------------------------------------------
(* Properties.                                                             *)

\* Whatever listeners come and go and registers are dropped, the plan reads each key
\* asked for once and no other; no read is too long, crosses the heartbeat register
\* or is made wider by an optional register; and the optional reads come last.
PlanReadsWhatIsAsked ==
    /\ wanted # Unset => wanted = OwnKeys \cup UNION asked
    /\ UNION {plan[i] : i \in DOMAIN plan} = Asking(wanted) \ unsupported
    /\ \A i \in DOMAIN plan :
        /\ plan[i] # {}
        /\ EndOf(plan[i]) - StartOf(plan[i]) <= MaxSpan
        /\ Avoid \cap (StartOf(plan[i]) .. EndOf(plan[i]) - 1) = {}
        /\ IsOptional(plan[i]) \/
               /\ StartOf(plan[i]) = StartOf(plan[i] \cap Required)
               /\ EndOf(plan[i]) = EndOf(plan[i] \cap Required)
        /\ \A j \in DOMAIN plan : i < j =>
               /\ plan[i] \cap plan[j] = {}
               /\ IsOptional(plan[i]) => IsOptional(plan[j])

\* A frame is never published without what the coordinator itself cannot do without,
\* though a listener or a probe may change the plan the poll is following.
RequiredAreAlwaysRead == data # Unset => OwnKeys \cap Required \subseteq data

\* What is no longer read was refused for good by the firmware now running, or is in
\* a block whose reads failed in StallsToDrop polls with no answer from it in between,
\* each of them after what the coordinator itself must have had been read.  Any failure
\* of its read counts, a lost link or a late answer too, and one under the firmware of
\* before; a refusal for now in between does not start the count again.
DroppedForCause ==
    connected /\ known = firmware =>
        \A k \in unsupported \ missing : \E block \in SUBSET unsupported :
            /\ k \in block
            /\ Len(Group[block]) = 1
            /\ failed[FirstOf(block)] >= StallsToDrop

\* Optional registers that are refused or never answered do not keep the polls from
\* succeeding: one does, again and again.
PollsGoOnSucceeding == []<>(data # Unset)
=============================================================================
