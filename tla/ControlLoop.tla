---------------------------- MODULE ControlLoop ----------------------------
(***************************************************************************)
(* ControlManager.async_apply and what runs beside it (control.py).  The   *)
(* poll, the user's commands and the switches are tasks of one event loop  *)
(* with no lock between them: each runs undisturbed from one await to the  *)
(* next, and whatever another task changed meanwhile is what it then sees. *)
(*                                                                         *)
(* A command is a feature with its power.  Its method is the word of       *)
(* register 40534; its setpoint is the one register the method acts on.    *)
(* The lease (in_control) is the one Heartbeat keeps.                      *)
(*                                                                         *)
(* What may befall the loop is chosen once per behaviour (trouble).  With  *)
(* none of it a settled loop is one the inverter follows; each kind alone  *)
(* breaks that (SettledIsFollowed).                                        *)
(***************************************************************************)
EXTENDS Naturals, Sequences, FiniteSets

CONSTANTS
    BatteryCommands,  \* Hold, Charge and Discharge Battery, at some power
    FeedCommands,     \* Export to and Import from Grid, at some power
    Automatic, None,  \* no command at all; no value
    Overrides,        \* what guards, checks or a mode's plan may put first
    Users,            \* concurrent user commands (select, numbers, services)
    Poll, Switch,     \* the coordinator's poll; the switch platform
    Troubles,         \* the sets of kinds of trouble to consider
    Reports,          \* does the model report what it follows?
    DampingPolls,     \* CONTROL_STATUS_DAMPING_POLLS
    FollowResends     \* FOLLOW_RESENDS

Commands == BatteryCommands \cup FeedCommands
Features == Commands \cup {Automatic}
Tasks == Users \cup {Poll, Switch}

ASSUME CommandsAreDistinct ==
    /\ BatteryCommands \cap FeedCommands = {}
    /\ Automatic \notin Commands /\ None \notin Features
    /\ Overrides \subseteq Features

ASSUME TasksAreDistinct == Poll \notin Users /\ Switch \notin Users \cup {Poll}

(* What may go wrong, or get in each other's way:                          *)
(* - "overlap": a poll or a command begins while another waits;            *)
(* - "undelivered", "unanswered": how a write fails;                       *)
(* - "lapse": the window lapses and opens again between two looks the loop *)
(*   takes at it, at each poll and each command;                           *)
(* - "saver": Battery Saver is switched while modes run.                   *)
Faults == {"undelivered", "unanswered"}
Kinds == Faults \cup {"overlap", "lapse", "saver"}

ASSUME KindsAreKnown ==
    /\ Troubles \subseteq SUBSET Kinds
    /\ Reports \in BOOLEAN
    /\ DampingPolls \in Nat \ {0} /\ FollowResends \in Nat

VARIABLES
    trouble,       \* the kinds of trouble in this behaviour; never changes
    enabled,       \* _enabled
    testing,       \* _test_running
    wish,          \* _feature and its power, what the user selected
    expiring,      \* _expires_at is set
    override,      \* what the last readings put in the wish's place
    commanded,     \* _commanded_feature and _commanded_power
    stale,         \* _control_stale
    written,       \* how long ago _last_control_write_time was:
                   \* "grace" (FOLLOW_GRACE_S), "dwell" (MIN_CONTROL_DWELL_S), "old"
    report,        \* _report, read by the last poll
    follow,        \* _follow_proven, _not_followed_polls, _resends, _not_accepted
    job,           \* what each task is in the middle of
    link,          \* the requests waiting for the link, first come first served
    connected,     \* the link is up
    lease,         \* the heartbeat's in_control
    device         \* external: the registers of the inverter

wishes == <<wish, expiring, override>>
told == <<commanded, stale, written, follow>>
outside == <<connected, lease, device>>
vars == <<trouble, enabled, testing, wishes, told, report, job, link, outside>>

Method(c) == IF c \in BatteryCommands THEN "battery"
             ELSE IF c \in FeedCommands THEN "feed" ELSE "default"
Methods == {"default", "battery", "feed"}

CommandsPower(c) == c \in Commands

Idle == [at |-> "idle", goal |-> None, register |-> "default", value |-> None, word |-> "default"]
Jobs == [at : {"idle", "authority", "setpoint", "word", "stopping"},
         goal : Features \cup {None}, register : Methods,
         value : Commands \cup {None}, word : Methods]

NothingFollowed == [proven |-> FALSE, misses |-> 0, resends |-> 0, notAccepted |-> FALSE]
NoReport == [manual |-> FALSE, method |-> "default"]

Blank == [word |-> "default", battery |-> None, feed |-> None]

-----------------------------------------------------------------------------
Init ==
    /\ trouble \in Troubles
    /\ enabled \in BOOLEAN /\ testing = FALSE
    /\ wish = Automatic /\ expiring = FALSE /\ override = None
    /\ commanded = Automatic /\ stale = enabled /\ written = "old"
    /\ report = NoReport /\ follow = NothingFollowed
    /\ job = [a \in Tasks |-> Idle] /\ link = <<>>
    /\ connected = TRUE /\ lease = FALSE
    /\ device = Blank

Doing(a, j) == job' = [job EXCEPT ![a] = j]

(* _desired_command, for the readings o and the selection w: what they     *)
(* come to, and whether it goes out without waiting for the dwell.         *)
Desired(w, o) == IF ~enabled THEN Automatic ELSE IF o # None THEN o ELSE w
BypassDwell(o) == enabled /\ o # None

(* A slip: with the resends spent nothing is said. *)
CheckFollowedSilently(c, f, age) ==
    LET followed == report.manual /\ report.method = Method(c)
        proven   == f.proven \/ followed
        missed   == f.misses + 1
    IN  IF ~Reports \/ ~enabled \/ ~lease \/ ~proven THEN [f |-> f, resend |-> FALSE]
        ELSE IF followed
        THEN [f |-> [NothingFollowed EXCEPT !.proven = TRUE], resend |-> FALSE]
        ELSE IF age = "grace" \/ f.resends = FollowResends THEN [f |-> f, resend |-> FALSE]
        ELSE IF missed < DampingPolls THEN [f |-> [f EXCEPT !.misses = missed], resend |-> FALSE]
        ELSE [f |-> [f EXCEPT !.misses = 0, !.resends = @ + 1], resend |-> TRUE]

(* _check_followed, from the report this poll read.                        *)
CheckFollowed(c, f, age) ==
    LET followed == report.manual /\ report.method = Method(c)
        proven   == f.proven \/ followed
        missed   == f.misses + 1
    IN  IF ~Reports \/ ~enabled \/ ~lease \/ ~proven THEN [f |-> f, resend |-> FALSE]
        ELSE IF followed
        THEN [f |-> [NothingFollowed EXCEPT !.proven = TRUE], resend |-> FALSE]
        ELSE IF age = "grace" THEN [f |-> f, resend |-> FALSE]
        ELSE IF missed < DampingPolls THEN [f |-> [f EXCEPT !.misses = missed], resend |-> FALSE]
        ELSE IF f.resends < FollowResends
        THEN [f |-> [f EXCEPT !.misses = 0, !.resends = @ + 1], resend |-> TRUE]
        ELSE [f |-> [f EXCEPT !.misses = 0, !.notAccepted = TRUE], resend |-> FALSE]

(* The rest of async_apply once c is delivered, or needs no delivery:      *)
(* recorded as commanded, and by a poll checked against the report.        *)
Commit(a, c, staleNow, age) ==
    LET f == IF c = commanded THEN follow
             ELSE [follow EXCEPT !.resends = 0, !.notAccepted = FALSE]
        checked == CheckFollowed(c, f, age)
    IN  /\ commanded' = c
        /\ written' = age
        /\ follow' = IF a = Poll THEN checked.f ELSE f
        /\ stale' = (staleNow \/ (a = Poll /\ checked.resend))

(* A slip: clearing a setpoint is thought to need no authority. *)
StartSendUnauthorized(a, c) ==
    LET register == IF CommandsPower(c) THEN Method(c) ELSE Method(commanded)
        value    == IF CommandsPower(c) THEN c ELSE None
        send(at) == [at |-> at, goal |-> c, register |-> register, value |-> value,
                     word |-> Method(c)]
    IN  \/ connected /\ CommandsPower(c) /\ enabled
           /\ Doing(a, send("authority")) /\ UNCHANGED link
        \/ connected /\ ~CommandsPower(c)
           /\ Doing(a, send(IF register = "default" THEN "word" ELSE "setpoint"))
           /\ link' = Append(link, a)

(* _async_send_control up to its first await: refused, on its way to the   *)
(* authority the setpoint needs, or, with no setpoint to write or clear,   *)
(* straight at the control word.                                           *)
StartSend(a, c) ==
    LET register == IF CommandsPower(c) THEN Method(c) ELSE Method(commanded)
        value    == IF CommandsPower(c) THEN c ELSE None
        send(at) == [at |-> at, goal |-> c, register |-> register, value |-> value,
                     word |-> Method(c)]
    IN  \/ /\ (~connected \/ (register # "default" /\ ~enabled))
           /\ Doing(a, Idle) /\ UNCHANGED link
        \/ /\ connected /\ register # "default" /\ enabled
           /\ Doing(a, send("authority")) /\ UNCHANGED link
        \/ /\ connected /\ register = "default"
           /\ Doing(a, send("word")) /\ link' = Append(link, a)

(* async_apply of the selection w under the readings o.                    *)
Apply(a, w, o, force) ==
    LET c        == Desired(w, o)
        staleNow == stale \/ (enabled /\ ~lease)
        changed  == c # commanded
        waits    == changed /\ ~force /\ ~BypassDwell(o) /\ ~staleNow /\ written # "old"
    IN  /\ wish' = w /\ override' = o
        /\ \/ /\ waits
              /\ UNCHANGED <<told, job, link>>
           \/ /\ ~waits /\ ~changed /\ ~staleNow
              /\ Commit(a, c, FALSE, written)
              /\ UNCHANGED <<job, link>>
           \/ /\ ~waits /\ (changed \/ staleNow)
              /\ stale' = staleNow
              /\ StartSend(a, c)
              /\ UNCHANGED <<commanded, written, follow>>

-----------------------------------------------------------------------------
(* Nothing in the code keeps a task from beginning while another awaits.   *)
MayBegin(a) == job[a] = Idle /\ ("overlap" \in trouble \/ \A b \in Tasks : job[b] = Idle)

(* async_poll: new readings, a command whose time has run out, and apply.  *)
PollApplies ==
    /\ MayBegin(Poll) /\ connected
    /\ \E o \in Overrides \cup {None}, expired \in BOOLEAN :
          /\ expired => expiring
          /\ expiring' = (expiring /\ ~expired)
          /\ report' = IF Reports THEN [manual |-> lease, method |-> device.word] ELSE NoReport
          /\ Apply(Poll, IF expired THEN Automatic ELSE wish, o, FALSE)
    /\ ~testing
    /\ UNCHANGED <<trouble, enabled, testing, outside>>

(* _require_modbus_control                                                 *)
MayCommand == enabled /\ ~testing

(* async_select_feature and async_set_command; the power and the limits    *)
(* of the mode that runs are changed the same way.                         *)
UserCommands(u) ==
    /\ MayBegin(u)
    /\ \E c \in Features, timed \in BOOLEAN :
          /\ c = Automatic \/ MayCommand
          /\ timed => c # Automatic
          /\ expiring' = timed
          /\ IF testing
             THEN wish' = c /\ UNCHANGED <<override, told, job, link>>
             ELSE Apply(u, c, override, TRUE)
    /\ UNCHANGED <<trouble, enabled, testing, report, outside>>

(* async_ensure_fresh says yes: the setpoint goes to the link.  Whether    *)
(* Modbus Control is still on was asked before, and is not asked again.    *)
Authorized(a) ==
    /\ job[a].at = "authority" /\ (connected \/ lease)
    /\ lease' = TRUE
    /\ IF job[a].register = "default"
       THEN Doing(a, [job[a] EXCEPT !.at = "word"])
       ELSE Doing(a, [job[a] EXCEPT !.at = "setpoint"])
    /\ link' = Append(link, a)
    /\ UNCHANGED <<trouble, enabled, testing, wishes, told, report, connected, device>>

(* The heartbeat does not get through: the command fails, though the       *)
(* window may still be open from a beat too old to count.                  *)
Denied(a) ==
    /\ job[a].at = "authority" /\ (lease => ~connected \/ Faults \cap trouble # {})
    /\ Doing(a, Idle)
    /\ UNCHANGED <<trouble, enabled, testing, wishes, told, report, link, outside>>

(* A slip: what has gone stale stays stale. *)
DeliveredUnnoted(a) ==
    IF job[a].goal = None
    THEN written' = "grace" /\ UNCHANGED <<stale, commanded, follow>>
    ELSE Commit(a, job[a].goal, stale, "grace")

(* _note_control_written, and for async_apply the commit.                  *)
Delivered(a) ==
    IF job[a].goal = None
    THEN written' = "grace" /\ stale' = FALSE /\ UNCHANGED <<commanded, follow>>
    ELSE Commit(a, job[a].goal, FALSE, "grace")

Stored(j) == IF j.at = "word" THEN [device EXCEPT !.word = j.word]
             ELSE [device EXCEPT ![j.register] = j.value]

(* The first request on the link is answered.  After the setpoint the      *)
(* method word follows if it differs from the one commanded by now.        *)
Answered ==
    /\ link # <<>>
    /\ connected
    /\ LET a == Head(link)
       IN  /\ device' = Stored(job[a])
           /\ IF job[a].at = "setpoint" /\ (job[a].word # Method(commanded) \/ stale)
              THEN /\ Doing(a, [job[a] EXCEPT !.at = "word"])
                   /\ link' = Append(Tail(link), a)
                   /\ UNCHANGED told
              ELSE /\ Doing(a, Idle)
                   /\ link' = Tail(link)
                   /\ Delivered(a)
    /\ UNCHANGED <<trouble, enabled, testing, wishes, report, connected, lease>>

(* Or it fails, before the inverter took it or only on the way back.       *)
Failed ==
    /\ link # <<>>
    /\ \E fault \in Faults \cap trouble :
          device' = IF fault = "unanswered" /\ connected THEN Stored(job[Head(link)]) ELSE device
    /\ Doing(Head(link), Idle)
    /\ link' = Tail(link)
    /\ UNCHANGED <<trouble, enabled, testing, wishes, told, report, connected, lease>>

-----------------------------------------------------------------------------
(* async_set_battery_saver: the word is composed from the mode commanded   *)
(* at this moment, and sent whatever has become of it.                     *)
SwitchSaver ==
    /\ "saver" \in trouble
    /\ MayBegin(Switch) /\ ~testing /\ connected
    /\ LET saver(at) == [at |-> at, goal |-> None, register |-> "default", value |-> None,
                         word |-> Method(commanded)]
       IN  IF CommandsPower(commanded)
           THEN enabled /\ Doing(Switch, saver("authority")) /\ UNCHANGED link
           ELSE Doing(Switch, saver("word")) /\ link' = Append(link, Switch)
    /\ UNCHANGED <<trouble, enabled, testing, wishes, told, report, outside>>

(* async_set_enabled(True).                                                *)
SwitchOn ==
    /\ MayBegin(Switch) /\ ~enabled /\ ~testing
    /\ enabled' = TRUE /\ stale' = TRUE
    /\ UNCHANGED <<trouble, testing, wishes, commanded, written, follow, report, job, link, outside>>

(* async_set_enabled(False), until the heartbeat has stopped ...           *)
SwitchOff ==
    /\ MayBegin(Switch) /\ enabled
    /\ enabled' = FALSE
    /\ Doing(Switch, [Idle EXCEPT !.at = "stopping"])
    /\ UNCHANGED <<trouble, testing, wishes, told, report, link, outside>>

(* A slip: the mode survives the switch. *)
StartOverKeepingMode ==
    /\ job[Switch].at = "stopping"
    /\ Doing(Switch, Idle)
    /\ commanded' = Automatic /\ stale' = FALSE
    /\ UNCHANGED <<trouble, enabled, testing, wishes, written, follow, report, link, outside>>

(* ... and after.                                                          *)
StartOver ==
    /\ job[Switch].at = "stopping"
    /\ Doing(Switch, Idle)
    /\ wish' = Automatic /\ expiring' = FALSE
    /\ commanded' = Automatic /\ stale' = FALSE
    /\ UNCHANGED <<trouble, enabled, testing, override, written, follow, report, link, outside>>

BeginTest ==
    /\ ~testing /\ connected
    /\ testing' = TRUE
    /\ UNCHANGED <<trouble, enabled, wishes, told, report, job, link, outside>>

(* A slip: the manager believes the inverter as it left it. *)
EndTestUnmarked ==
    /\ testing
    /\ \A a \in Tasks : job[a] = Idle
    /\ testing' = FALSE
    /\ device' = [device EXCEPT !.word = "default"]
    /\ UNCHANGED <<trouble, enabled, wishes, told, report, job, link, connected, lease>>

(* The test, which takes minutes and so outlasts every request that was    *)
(* out when it began, leaves the inverter on the default method with its   *)
(* setpoints as found.                                                     *)
EndTest ==
    /\ testing
    /\ \A a \in Tasks : job[a] = Idle
    /\ testing' = FALSE
    /\ stale' = (stale \/ enabled)
    /\ device' = [device EXCEPT !.word = "default"]
    /\ UNCHANGED <<trouble, enabled, wishes, commanded, written, follow, report, job, link,
                   connected, lease>>

(* Home Assistant restarts: the mode is not restored, the switch is.       *)
Restart ==
    /\ testing' = FALSE
    /\ wish' = Automatic /\ expiring' = FALSE /\ override' = None
    /\ commanded' = Automatic /\ stale' = enabled /\ written' = "old"
    /\ report' = NoReport /\ follow' = NothingFollowed
    /\ job' = [a \in Tasks |-> Idle] /\ link' = <<>>
    /\ lease' = FALSE
    /\ UNCHANGED <<trouble, enabled, connected, device>>

-----------------------------------------------------------------------------
Disconnect ==
    /\ connected
    /\ connected' = FALSE
    /\ UNCHANGED <<trouble, enabled, testing, wishes, told, report, job, link, lease, device>>

(* The coordinator reconnects: mark_stale.                                 *)
Reconnect ==
    /\ ~connected
    /\ connected' = TRUE
    /\ stale' = (stale \/ ~lease)
    /\ UNCHANGED <<trouble, enabled, testing, wishes, commanded, written, follow, report, job, link,
                   lease, device>>

(* A send that has asked for authority: the beat it rides on is at most    *)
(* HEARTBEAT_REUSE_S old, and its two requests take far less than is then  *)
(* left of the window.                                                     *)
RidesOnABeat(j) ==
    /\ j.at \in {"setpoint", "word"}
    /\ j.register # "default" \/ (j.goal = None /\ j.word # "default")

(* Heartbeat: the window runs out, or the loop's beat opens it again.      *)
Lapse ==
    /\ lease
    /\ \A a \in Tasks : ~RidesOnABeat(job[a]) /\ ("lapse" \in trouble \/ job[a].at # "authority")
    /\ lease' = FALSE
    /\ UNCHANGED <<trouble, enabled, testing, wishes, told, report, job, link, connected, device>>

Beat ==
    /\ ~lease /\ enabled /\ ~testing /\ connected
    /\ "lapse" \in trouble \/ stale
    /\ lease' = TRUE
    /\ UNCHANGED <<trouble, enabled, testing, wishes, told, report, job, link, connected, device>>

(* External: without a lease the inverter follows the app and may forget   *)
(* what it was commanded.                                                  *)
Forget ==
    /\ ~lease
    /\ device' \in {Blank, [device EXCEPT !.word = "default"]}
    /\ UNCHANGED <<trouble, enabled, testing, wishes, told, report, job, link, connected, lease>>

(* Time passes since the last control write.                               *)
Age ==
    /\ written # "old"
    /\ written' = IF written = "grace" THEN "dwell" ELSE "old"
    /\ UNCHANGED <<trouble, enabled, testing, wishes, commanded, stale, follow, report, job, link, outside>>

-----------------------------------------------------------------------------
Next ==
    \/ PollApplies
    \/ \E u \in Users : UserCommands(u)
    \/ \E a \in Tasks : Authorized(a) \/ Denied(a)
    \/ Answered \/ Failed
    \/ SwitchSaver \/ SwitchOn \/ SwitchOff \/ StartOver
    \/ BeginTest \/ EndTest \/ Restart
    \/ Disconnect \/ Reconnect \/ Lapse \/ Beat \/ Forget \/ Age

Spec == Init /\ [][Next]_vars

(* The coordinator polls for ever, a task goes on when what it awaits is   *)
(* there, the heartbeat of a connected inverter gets through, time passes. *)
Fairness ==
    /\ WF_vars(PollApplies) /\ WF_vars(Answered \/ Failed) /\ WF_vars(StartOver)
    /\ \A a \in Tasks : WF_vars(Authorized(a) \/ Denied(a))
    /\ WF_vars(Beat) /\ WF_vars(Age)

FairSpec == Spec /\ Fairness

-----------------------------------------------------------------------------
TypeOK ==
    /\ trouble \in Troubles
    /\ {enabled, testing, expiring, stale, connected, lease} \subseteq BOOLEAN
    /\ wish \in Features /\ override \in Features \cup {None}
    /\ commanded \in Features
    /\ written \in {"grace", "dwell", "old"}
    /\ report \in [manual : BOOLEAN, method : Methods]
    /\ follow \in [proven : BOOLEAN, misses : 0 .. DampingPolls,
                   resends : 0 .. FollowResends, notAccepted : BOOLEAN]
    /\ job \in [Tasks -> Jobs]
    /\ link \in Seq(Tasks)
    /\ device \in [word : Methods, battery : BatteryCommands \cup {None},
                   feed : FeedCommands \cup {None}]

(* Nobody is in the middle of a command, nothing is known to be wrong and  *)
(* the next apply would find nothing to send.                              *)
Settled ==
    /\ enabled /\ ~testing /\ ~stale /\ lease
    /\ \A a \in Tasks : job[a] = Idle
    /\ commanded = Desired(wish, override)

Follows(c) == /\ device.word = Method(c)
              /\ CommandsPower(c) => device[Method(c)] = c

(* What looks settled has been delivered: a command is committed only once *)
(* the inverter has been told, so while nothing is stale it follows it.    *)
SettledIsFollowed == Settled => Follows(commanded)

(* That much is true as long as tasks do not overlap, writes do not fail,  *)
(* lapses are seen and Battery Saver is left alone, whatever reconnects,   *)
(* restarts, tests and switching there are.                                *)
SettledIsFollowedInCalm == trouble = {} => SettledIsFollowed

(* Nobody touches anything any more and control is possible.               *)
Untouched ==
    /\ <>[](enabled /\ ~testing /\ connected)
    /\ <>[][~Restart /\ ~Lapse /\ ~SwitchSaver /\ \A u \in Users : ~UserCommands(u)]_vars

(* Left alone, the polls carry out the last selection for good: neither    *)
(* the dwell between commands nor a check of the report keeps it from      *)
(* being sent, or keeps sending it for ever.                               *)
ItSettles == Untouched => <>[](Settled /\ commanded = wish)

(* An inverter that has fallen back to its default method unnoticed is     *)
(* either brought to follow again or reported as not accepting it, once    *)
(* its report has proven to tell.                                          *)
UnfollowedIsNoticed ==
    Untouched => <>[](follow.proven => device.word = Method(commanded) \/ follow.notAccepted)

(* Running Automatic, the inverter holds no setpoint of an earlier mode:   *)
(* _async_clear_setpoint is there to release what a mode has left.         *)
AutomaticHoldsNoSetpoint ==
    Settled /\ commanded = Automatic => device.battery = None /\ device.feed = None

Writes == Len(link') > Len(link)

(* A command goes out again in full after a lapse, a test or a switch-on:  *)
(* nothing but the control word itself settles that.                       *)
OnlyTheWordSettles ==
    [][stale /\ ~stale' /\ enabled' =>
          link # <<>> /\ job[Head(link)].at = "word" /\ device'.word = job[Head(link)].word]_vars

(* A setpoint is only ever sent to an inverter that acts on it: the send   *)
(* has just renewed the authority, however long it waited for that.        *)
SetpointsNeedAuthority ==
    [][Writes /\ job'[link'[Len(link')]].at = "setpoint" => lease']_vars

(* Once Modbus Control is off, no mode is selected any more, and none      *)
(* comes back by itself when it is switched on again.                      *)
NoModeWhileOff ==
    ~enabled /\ job[Switch].at # "stopping" => wish = Automatic /\ ~expiring

(* Switched off, the control loop writes nothing any more, as the comment  *)
(* on _control_stale says (Battery Saver is a setting of its own).         *)
NothingIsWrittenWhenOff == [][~enabled => ~Writes \/ link'[Len(link')] = Switch]_vars

(* While the control test drives the inverter, the manager puts nothing    *)
(* on the link, as the comment on _test_running says.                      *)
NothingIsWrittenDuringTest == [][testing => ~Writes]_vars
=============================================================================
