----------------------------- MODULE Connection -----------------------------
(***************************************************************************)
(* Whose inverter is at the other end: the coordinator's reconnect and     *)
(* identity check (coordinator.py) with the write block of the Modbus      *)
(* client (modbus.py).  An address can come to belong to another inverter, *)
(* so the serial is compared on every connect; meanwhile the heartbeat and *)
(* commands write whenever the client lets them.  The config entry is set  *)
(* up, retried, given the serial as its key, moved to another address and  *)
(* unloaded around all that (__init__.py, config_flow.py).                 *)
(***************************************************************************)
EXTENDS FiniteSets

CONSTANTS
    Inverters,    \* by serial
    Entries,      \* the serials an entry may be keyed by, None for host:port
    None,
    Writers,      \* tasks that write: the heartbeat, commands, settings
    FailedReads   \* may a read fail?

ASSUME EntryIsKnown ==
    /\ None \notin Inverters /\ Entries \subseteq Inverters \cup {None}
    /\ FailedReads \in BOOLEAN

VARIABLES
    configured, \* the serial this entry is keyed by, None while it is by host:port
    shared,    \* the connection is Home Assistant's shared one (SharedLink),
               \* not one of our own (PymodbusLink); never changes
    starting,  \* the entry is being set up, or waits to be tried again
    answers,   \* external: the inverter at the configured address, None if down
    link,      \* the inverter the link is up to, None when not connected
    closed,    \* _closed: the entry is unloaded
    block,     \* _write_block: "none", "unverified", "mismatch"
    verified,  \* _identity_verified
    mismatch,  \* _identity_mismatch, shown as a repairs issue
    pinned,    \* _pinned_serial
    poll,      \* where the coordinator is: see Stages
    sources,   \* the inverters this poll has read from
    shown,     \* the inverters the published data came from
    writing    \* the writers past the client's block, waiting for the link

entry == <<configured, shared, starting>>
identity == <<block, verified, mismatch, pinned>>
vars == <<entry, answers, link, closed, identity, poll, sources, shown, writing>>

Stages == {"setup", "first", "idle", "dialling", "settling", "info", "info again", "blocks"}

Expected == IF configured # None THEN configured ELSE pinned

(* Whom a request reaches: the shared link opens itself for one.           *)
Reached == IF link = None /\ shared THEN answers ELSE link

-----------------------------------------------------------------------------
(* _async_setup has connected; the device info is read next.               *)
Init ==
    /\ configured \in Entries /\ shared \in BOOLEAN /\ starting = TRUE
    /\ answers \in Inverters /\ link = answers /\ closed = FALSE
    /\ block = "unverified" /\ verified = FALSE /\ mismatch = FALSE /\ pinned = None
    /\ poll = "setup" /\ sources = {} /\ shown = {}
    /\ writing = {}

(* _mark_identity_unverified; _set_identity_verified.                      *)
Unverify == verified' = FALSE /\ block' = "unverified" /\ UNCHANGED <<mismatch, pinned>>

Verify == verified' = TRUE /\ block' = "none" /\ mismatch' = FALSE

(* _check_identity of the serial read, None if it could not be read; to be *)
(* asked again if the answer is no, or not.                                *)
CheckIdentity(serial, again) ==
    IF serial = None
    THEN IF Expected = None THEN Verify /\ UNCHANGED pinned ELSE Unverify
    ELSE IF Expected # None /\ serial # Expected
    THEN /\ verified' = FALSE /\ mismatch' = TRUE
         /\ block' = IF again THEN "unverified" ELSE "mismatch"
         /\ UNCHANGED pinned
    ELSE Verify /\ pinned' = IF pinned = None THEN serial ELSE pinned

-----------------------------------------------------------------------------
(* The first poll is part of the setup; the others follow one another.     *)
IsDue == poll = "first" \/ (poll = "idle" /\ ~starting)

(* A slip: an inverter once found to be another is not asked again. *)
PollDueGivingUp ==
    /\ IsDue /\ ~closed /\ ~mismatch
    /\ sources' = {}
    /\ IF link = None THEN poll' = "dialling" /\ UNCHANGED identity
       ELSE IF verified THEN poll' = "blocks" /\ UNCHANGED identity
       ELSE poll' = "info again" /\ Unverify
    /\ UNCHANGED <<entry, answers, link, closed, shown, writing>>

PollDue ==
    /\ IsDue /\ ~closed
    /\ sources' = {}
    /\ IF link = None THEN poll' = "dialling" /\ UNCHANGED identity
       ELSE IF verified THEN poll' = "blocks" /\ UNCHANGED identity
       ELSE poll' = "info again" /\ Unverify
    /\ UNCHANGED <<entry, answers, link, closed, shown, writing>>

(* A slip: a reconnect in its backoff does not see the unload. *)
DialUnaware ==
    /\ poll = "dialling" /\ link = None /\ answers # None
    /\ link' = answers /\ poll' = "settling"
    /\ UNCHANGED <<entry, answers, closed, identity, sources, shown, writing>>

(* async_reconnect connects to whoever has the address by now; the writers *)
(* that were waiting for the link have failed before it gets the lock ...  *)
Dial ==
    /\ poll = "dialling" /\ ~closed /\ link = None /\ answers # None
    /\ writing = {}
    /\ link' = answers /\ poll' = "settling"
    /\ UNCHANGED <<entry, answers, closed, identity, sources, shown, writing>>

(* ... or finds the shared link up again ...                               *)
AlreadyUp ==
    /\ poll = "dialling" /\ ~closed /\ link # None
    /\ poll' = "info" /\ Unverify
    /\ UNCHANGED <<entry, answers, link, closed, sources, shown, writing>>

(* ... or gives up: its attempts are spent, or the entry is unloaded.      *)
DialFails ==
    /\ poll = "dialling" /\ (closed \/ link = None)
    /\ poll' = "idle"
    /\ UNCHANGED <<entry, answers, link, closed, identity, sources, shown, writing>>

(* A slip: the inverter is taken for the one it was. *)
SettledTrusting ==
    /\ poll = "settling"
    /\ poll' = IF verified THEN "blocks" ELSE "info"
    /\ UNCHANGED <<entry, answers, link, closed, identity, sources, shown, writing>>

(* The second the connection is left to settle is over; device info next.  *)
Settled ==
    /\ poll = "settling"
    /\ poll' = "info" /\ Unverify
    /\ UNCHANGED <<entry, answers, link, closed, sources, shown, writing>>

(* async_read_device_info.  After a connect the poll tries a second time   *)
(* if the first left the identity open, and gives up after that.  The      *)
(* writers that were waiting for the link have had it by then.             *)
Identify(serial) ==
    /\ poll \in {"setup", "info", "info again"} /\ writing = {}
    /\ link' = Reached
    /\ CheckIdentity(serial, poll = "info")
    /\ poll' = IF poll = "setup" THEN "first"
               ELSE IF verified' THEN "blocks"
               ELSE IF poll = "info" THEN "info again" ELSE "idle"
    /\ UNCHANGED <<entry, answers, closed, sources, shown, writing>>

ReadInfo == Reached # None /\ Identify(Reached)

InfoFails == (FailedReads \/ Reached = None) /\ Identify(None)

(* One block of the poll, and the end of a poll that has read them all.    *)
ReadBlock ==
    /\ poll = "blocks" /\ Reached # None
    /\ link' = Reached
    /\ sources' = sources \cup {Reached}
    /\ UNCHANGED <<entry, answers, closed, identity, poll, shown, writing>>

(* _async_claim_serial_number: the first data makes the serial read the    *)
(* entry's key, unless another entry has it or the last read was empty.    *)
Claim == configured' = configured \/ (pinned # None /\ configured' = pinned)

Publish ==
    /\ poll = "blocks" /\ sources # {}
    /\ poll' = "idle" /\ shown' = sources
    /\ IF starting THEN Claim ELSE UNCHANGED configured
    /\ starting' = FALSE
    /\ UNCHANGED <<shared, answers, link, closed, identity, sources, writing>>

(* _read_failed: a read fails or the poll's time is up.  A link of our own *)
(* is closed; the shared one is left as it is.                             *)
ReadFails ==
    /\ poll \in {"info again", "blocks"}
    /\ FailedReads \/ Reached = None
    /\ poll' = "idle" /\ Unverify
    /\ link' = IF shared THEN link ELSE None
    /\ UNCHANGED <<entry, answers, closed, sources, shown, writing>>

-----------------------------------------------------------------------------
(* async_write looks at the block before it waits for the link.            *)
BeginWrite(w) ==
    /\ w \notin writing /\ block = "none" /\ link # None /\ ~closed
    /\ writing' = writing \cup {w}
    /\ UNCHANGED <<entry, answers, link, closed, identity, poll, sources, shown>>

Write(w) ==
    /\ w \in writing /\ Reached # None
    /\ link' = Reached
    /\ writing' = writing \ {w}
    /\ UNCHANGED <<entry, answers, closed, identity, poll, sources, shown>>

WriteFails(w) ==
    /\ w \in writing
    /\ writing' = writing \ {w}
    /\ UNCHANGED <<entry, answers, link, closed, identity, poll, sources, shown>>

-----------------------------------------------------------------------------
(* External: the link drops; the address changes hands; another user of    *)
(* the shared connection opens it.                                         *)
Drop ==
    /\ link # None
    /\ link' = None
    /\ UNCHANGED <<entry, answers, closed, identity, poll, sources, shown, writing>>

Move ==
    /\ answers' \in (Inverters \cup {None}) \ {answers}
    /\ UNCHANGED <<entry, link, closed, identity, poll, sources, shown, writing>>

OthersConnect ==
    /\ shared /\ link = None /\ answers # None
    /\ link' = answers
    /\ UNCHANGED <<entry, answers, closed, identity, poll, sources, shown, writing>>

(* async_shutdown closes the client once the requests before are through.  *)
(* A poll that is under way is not cancelled.                              *)
Shutdown ==
    /\ ~closed /\ writing = {}
    /\ closed' = TRUE
    /\ link' = IF shared THEN link ELSE None
    /\ UNCHANGED <<configured, shared, identity, poll, sources, shown, writing>>

Unload == ~starting /\ Shutdown /\ UNCHANGED <<starting, answers>>

(* The first poll has failed: Home Assistant shuts down what has been set  *)
(* up, and tries again later.                                              *)
SetupFails == starting /\ poll = "idle" /\ Shutdown /\ UNCHANGED <<starting, answers>>

(* async_setup_entry                                                       *)
Setup ==
    /\ closed /\ poll = "idle" /\ answers # None
    /\ closed' = FALSE /\ starting' = TRUE /\ link' = answers
    /\ block' = "unverified" /\ verified' = FALSE /\ mismatch' = FALSE /\ pinned' = None
    /\ poll' = "setup" /\ sources' = {} /\ shown' = {}
    /\ UNCHANGED <<configured, shared, answers, writing>>

(* The entry gets the address i answers at, and is reloaded for it.        *)
MoveEntry(i) ==
    /\ ~starting /\ Shutdown
    /\ answers' = i /\ starting' = TRUE

(* The serial an inverter tells the form, if it can be read.               *)
SerialRead(i) == {i} \cup {x \in {None} : FailedReads}

(* async_step_reconfigure: another inverter is refused, as far as there is *)
(* a serial to compare and it could be read.                               *)
Reconfigure ==
    \E i \in Inverters, serial \in Inverters \cup {None} :
        /\ serial \in SerialRead(i)
        /\ serial # None /\ configured # None => serial = configured
        /\ MoveEntry(i)

(* async_step_user, of an inverter that is set up already.                 *)
AddAgain ==
    \E i \in Inverters : configured \in SerialRead(i) \ {None} /\ MoveEntry(i)

-----------------------------------------------------------------------------
Polls == PollDue \/ Dial \/ AlreadyUp \/ DialFails \/ Settled \/ ReadInfo \/ InfoFails
             \/ ReadBlock \/ Publish \/ ReadFails

Next ==
    \/ Polls
    \/ \E w \in Writers : BeginWrite(w) \/ Write(w) \/ WriteFails(w)
    \/ Drop \/ Move \/ OthersConnect
    \/ Setup \/ SetupFails \/ Unload \/ Reconfigure \/ AddAgain

Spec == Init /\ [][Next]_vars

(* The coordinator polls for ever, a reconnect does not fail for ever when *)
(* somebody answers, a poll reads a block only once, and a setup that      *)
(* failed is cleaned up and tried again.                                   *)
Fairness ==
    /\ WF_vars(PollDue) /\ SF_vars(Dial) /\ WF_vars(AlreadyUp) /\ WF_vars(Settled)
    /\ WF_vars(ReadInfo \/ InfoFails) /\ WF_vars(ReadBlock) /\ SF_vars(Publish) /\ WF_vars(ReadFails)
    /\ WF_vars(DialFails) /\ \A w \in Writers : WF_vars(Write(w) \/ WriteFails(w))
    /\ WF_vars(SetupFails) /\ WF_vars(starting /\ Setup)

FairSpec == Spec /\ Fairness

-----------------------------------------------------------------------------
TypeOK ==
    /\ configured \in Inverters \cup {None} /\ {shared, starting} \subseteq BOOLEAN
    /\ answers \in Inverters \cup {None} /\ link \in Inverters \cup {None}
    /\ {closed, verified, mismatch} \subseteq BOOLEAN
    /\ block \in {"none", "unverified", "mismatch"}
    /\ pinned \in Inverters \cup {None}
    /\ poll \in Stages
    /\ sources \subseteq Inverters /\ shown \subseteq Inverters
    /\ writing \subseteq Writers

(* What the coordinator has made of the serial is what the client enforces *)
(* and what the repairs issue says: it lets writes through exactly while   *)
(* the inverter is verified, and the issue is gone by then.                *)
VerdictIsEnforced ==
    /\ verified <=> block = "none"
    /\ mismatch => ~verified
    /\ block = "mismatch" => mismatch

(* "Nothing is read from" another inverter (_check_identity): the readings *)
(* of a poll that is published are all from the one the entry belongs to,  *)
(* or, while no serial is known, at least from a single one.  On a shared  *)
(* link nobody promises that: another user can reopen it unseen.           *)
OneInverter(read) == IF Expected # None THEN read = {Expected} ELSE Cardinality(read) = 1

ShownIsTheConfigured == [][Publish /\ ~shared => OneInverter(sources)]_vars

(* Once unloaded, an own link is never opened again: a reconnect in its    *)
(* backoff sees _closed first.                                             *)
ClosedStaysClosed == closed /\ ~shared => link = None

(* "... or written to it": no write arrives at another inverter, even on a *)
(* link that does not open by itself for a request that waits.             *)
StrangersAreNotWritten ==
    [][\A w \in Writers : Write(w) /\ ~shared /\ Expected # None => link' = Expected]_vars

(* If another inverter comes to be connected while writes are let through, *)
(* that does not last: a poll reads its serial.  Again only a link of our  *)
(* own is sure to be seen dropping.                                        *)
ControlsStranger == ~closed /\ Expected # None /\ block = "none" /\ link \notin {None, Expected}

StrangersAreFoundOut == ControlsStranger /\ ~shared ~> ~ControlsStranger

(* The configured inverter is accepted again once it is there for good and *)
(* reads do not fail and nobody moves it any more, whoever had the address *)
(* before, and however often setting the entry up has failed.              *)
TheConfiguredIsAccepted ==
    (/\ <>[](/\ configured # None /\ answers = configured /\ link \in {None, configured}
             /\ closed => starting)
     /\ <>[][~Drop /\ ~ReadFails /\ ~InfoFails /\ ~Reconfigure /\ ~AddAgain]_vars)
        => <>[]verified

(* Whoever is at the other end, a verdict that is wrong about it does not  *)
(* stand: a stranger is found out, the configured inverter accepted again. *)
IdentityIsFoundOut == StrangersAreFoundOut /\ TheConfiguredIsAccepted
=============================================================================
