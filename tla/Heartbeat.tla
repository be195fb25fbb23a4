----------------------------- MODULE Heartbeat -----------------------------
(***************************************************************************)
(* The heartbeat of heartbeat.py: a background loop, and any number of     *)
(* commands that want it fresh, write one register under one lock.  Each   *)
(* write the inverter accepts buys Window seconds of control authority.    *)
(*                                                                         *)
(* Time is discrete and kept as ages that stop growing just past Window,   *)
(* where the code no longer tells them apart.  The event loop is prompt:   *)
(* time does not pass while something is due (see Tick).                   *)
(***************************************************************************)
EXTENDS Integers

CONSTANTS
    Callers,           \* commands that may be inside async_ensure_fresh
    Loop, Free,        \* the background task; nobody (both no caller)
    Window,            \* HEARTBEAT_WINDOW_S
    Interval,          \* HEARTBEAT_INTERVAL_S
    Jitter,            \* HEARTBEAT_JITTER_S
    Reuse,             \* HEARTBEAT_REUSE_S
    MinGap,            \* HEARTBEAT_MIN_GAP_S
    UnsupportedRetry,  \* HEARTBEAT_UNSUPPORTED_RETRY_S
    RetryDelay,        \* the delay before each repeated attempt
    Retries,           \* how many attempts repeat the first
    Timeout            \* the longest a request takes, its wait for the link included

ASSUME NamesAreDistinct == Loop \notin Callers /\ Free \notin Callers \cup {Loop}

ASSUME TimesAreNaturals ==
    /\ Jitter \in Nat /\ Reuse \in Nat /\ Retries \in Nat
    /\ Window \in Nat \ {0} /\ Interval \in Nat \ {0} /\ MinGap \in Nat \ {0}
    /\ UnsupportedRetry \in Nat \ {0} /\ RetryDelay \in Nat \ {0} /\ Timeout \in Nat \ {0}

(* What the values in const.py have to satisfy together: a command riding  *)
(* on a recent beat leaves the loop a whole gap, a request fits into the   *)
(* interval, and one write that spends all its attempts, plus the wait     *)
(* before the next and one request of that, fit into the window.           *)
WriteTime == Timeout + Retries * (RetryDelay + Timeout)

ASSUME AMissedWriteFits ==
    /\ Reuse + MinGap <= Interval
    /\ Timeout <= Interval
    /\ Interval + Jitter + WriteTime + MinGap + Jitter + Timeout <= Window

VARIABLES
    loop,       \* the task: "stopped", "resting" between writes, "writing"
    rest,       \* what is left of the loop's sleep
    asking,     \* the commands inside _async_write_heartbeat
    holder,     \* who holds the lock
    stage,      \* the write of the holder: "none", "pause", "flight", "landed"
    attempt,    \* how many attempts of this write have failed
    pause,      \* what is left of the delay before the next attempt
    sentAge,    \* the age of sent_at
    beatAge,    \* the age of _last_success
    windowAge,  \* external: how long ago the inverter accepted a beat
    supported,  \* _supported: "untested", "yes", "no"
    reachable,  \* connected and writes_allowed
    missed,     \* history: whole writes that failed since the last success
    steady      \* history: since the last success nothing stopped, cut off or
                \* refused the beat, and the loop is on its ordinary schedule

writing == <<holder, stage, attempt, pause, sentAge>>
history == <<missed, steady>>
vars == <<loop, rest, asking, writing, beatAge, windowAge, supported, reachable, history>>

Ages == 0 .. Window + 1
Older(age) == IF age > Window THEN age ELSE age + 1
Larger(a, b) == IF a > b THEN a ELSE b

InControl == beatAge <= Window
DeviceObeys == windowAge <= Window

Waiting == (IF loop = "writing" THEN {Loop} ELSE {}) \cup asking

-----------------------------------------------------------------------------
Init ==
    /\ loop = "stopped" /\ rest = 0
    /\ asking = {}
    /\ holder = Free /\ stage = "none" /\ attempt = 0 /\ pause = 0 /\ sentAge = 0
    /\ beatAge = Window + 1
    /\ windowAge \in {0, Window + 1}  \* a previous run may have beaten just now
    /\ supported = "untested"
    /\ reachable \in BOOLEAN
    /\ missed = 0 /\ steady = FALSE

(* A slip the schedule catches: the attempts do not come out of the interval. *)
DelaysInFull(age, support) ==
    LET base == IF support = "no" THEN UnsupportedRetry ELSE Larger(MinGap, Interval)
    IN  base .. base + Jitter

(* _delay_before_next_write and the jitter added to it.                    *)
Delays(age, support) ==
    LET base == IF support = "no" THEN UnsupportedRetry
                                  ELSE Larger(MinGap, Interval - age)
    IN  base .. base + Jitter

Unlock ==
    holder' = Free /\ stage' = "none" /\ attempt' = 0 /\ pause' = 0 /\ sentAge' = 0

(* p returns from _async_write_heartbeat: a command goes its way, the loop *)
(* goes to sleep for a while worked out from the state the write left.     *)
Return(p) ==
    IF p = Loop
    THEN loop' = "resting" /\ rest' \in Delays(beatAge', supported') /\ UNCHANGED asking
    ELSE asking' = asking \ {p} /\ UNCHANGED <<loop, rest>>

-----------------------------------------------------------------------------
Start ==
    /\ loop = "stopped"
    /\ loop' = "writing"
    /\ UNCHANGED <<rest, asking, writing, beatAge, windowAge, supported, reachable, history>>

(* async_stop cancels the task.  A request already on the wire may still   *)
(* reach the inverter, and is then not noted as a success.                 *)
Stop ==
    /\ loop # "stopped"
    /\ loop' = "stopped" /\ rest' = 0
    /\ IF holder = Loop THEN Unlock ELSE UNCHANGED writing
    /\ windowAge' \in {windowAge} \cup
                      (IF holder = Loop /\ stage = "flight" THEN {0} ELSE {})
    /\ steady' = FALSE
    /\ UNCHANGED <<asking, beatAge, supported, reachable, missed>>

Wake ==
    /\ loop = "resting" /\ rest = 0
    /\ loop' = "writing"
    /\ UNCHANGED <<rest, asking, writing, beatAge, windowAge, supported, reachable, history>>

(* async_ensure_fresh: a recent beat answers at once, else the command     *)
(* joins the writers.                                                      *)
Ask(c) ==
    /\ c \notin asking
    /\ beatAge > Reuse
    /\ asking' = asking \cup {c}
    /\ UNCHANGED <<loop, rest, writing, beatAge, windowAge, supported, reachable, history>>

(* The lock is taken.  Another writer may have beaten while p waited.      *)
Lock(p) ==
    /\ holder = Free /\ p \in Waiting
    /\ UNCHANGED <<beatAge, windowAge, supported, reachable, history>>
    /\ IF beatAge <= Reuse
       THEN Return(p) /\ UNCHANGED writing
       ELSE /\ holder' = p /\ stage' = "pause"
            /\ UNCHANGED <<attempt, pause, sentAge, loop, rest, asking>>

Send ==
    /\ stage = "pause" /\ pause = 0 /\ reachable
    /\ stage' = "flight" /\ sentAge' = 0
    /\ UNCHANGED <<loop, rest, asking, holder, attempt, pause, beatAge, windowAge,
                   supported, reachable, history>>

(* A slip: an unreachable inverter is waited for with the lock held. *)
WaitForLink ==
    /\ stage = "pause" /\ pause = 0 /\ ~reachable
    /\ pause' = RetryDelay
    /\ UNCHANGED <<loop, rest, asking, holder, stage, attempt, sentAge, beatAge, windowAge,
                   supported, reachable, history>>

(* Not connected, or the inverter's identity is unverified.                *)
GiveUp ==
    /\ stage = "pause" /\ pause = 0 /\ ~reachable
    /\ UNCHANGED <<beatAge, windowAge, supported, reachable, history>>
    /\ Unlock /\ Return(holder)

(* External: the inverter accepts the beat; its answer is yet to arrive.   *)
Accept ==
    /\ stage = "flight"
    /\ stage' = "landed" /\ windowAge' = 0
    /\ UNCHANGED <<loop, rest, asking, holder, attempt, pause, sentAge, beatAge, supported,
                   reachable, history>>

(* Two slips: the window is counted from the answer; a success after a     *)
(* refusal leaves the register marked unsupported.                         *)
SucceedFromAnswer ==
    /\ stage = "landed"
    /\ beatAge' = 0 /\ supported' = "yes"
    /\ Unlock /\ Return(holder)
    /\ missed' = 0 /\ steady' = FALSE
    /\ UNCHANGED <<windowAge, reachable>>

SucceedUnsupported ==
    /\ stage = "landed"
    /\ beatAge' = sentAge
    /\ supported' = IF supported = "no" THEN "no" ELSE "yes"
    /\ Unlock /\ Return(holder)
    /\ missed' = 0 /\ steady' = FALSE
    /\ UNCHANGED <<windowAge, reachable>>

(* _record_success.                                                        *)
Succeed ==
    /\ stage = "landed"
    /\ beatAge' = sentAge /\ supported' = "yes"
    /\ Unlock /\ Return(holder)
    /\ missed' = 0
    /\ steady' = (/\ reachable /\ loop' # "stopped"
                  /\ loop' = "resting" => sentAge + rest' <= Interval + Jitter)
    /\ UNCHANGED <<windowAge, reachable>>

(* Busy, or no answer: the attempt is repeated after the delay, until the  *)
(* budget of this write is spent.                                          *)
Retry ==
    /\ stage \in {"flight", "landed"} /\ attempt < Retries
    /\ stage' = "pause" /\ attempt' = attempt + 1 /\ pause' = RetryDelay /\ sentAge' = 0
    /\ UNCHANGED <<loop, rest, asking, holder, beatAge, windowAge, supported, reachable, history>>

Fail ==
    /\ stage \in {"flight", "landed"} /\ attempt = Retries
    /\ UNCHANGED <<beatAge, windowAge, supported, reachable, steady>>
    /\ Unlock /\ Return(holder)
    /\ missed' = IF missed < 2 THEN missed + 1 ELSE 2

(* _record_refusal: the register is called invalid, which will not change. *)
Refuse ==
    /\ stage = "flight"
    /\ supported' = "no"
    /\ UNCHANGED <<beatAge, windowAge, reachable>>
    /\ Unlock /\ Return(holder)
    /\ steady' = FALSE /\ UNCHANGED missed

LinkDown ==
    /\ reachable
    /\ reachable' = FALSE /\ steady' = FALSE
    /\ UNCHANGED <<loop, rest, asking, writing, beatAge, windowAge, supported, missed>>

(* The coordinator reconnects; mark_stale calls note_reconnect.            *)
LinkUp ==
    /\ ~reachable
    /\ reachable' = TRUE /\ supported' = "untested"
    /\ UNCHANGED <<loop, rest, asking, writing, beatAge, windowAge, history>>

(* A second passes, unless a sleep is over, the lock is free for somebody, *)
(* an attempt is due or a request has been out for its whole timeout.      *)
Due ==
    \/ loop = "resting" /\ rest = 0
    \/ holder = Free /\ Waiting # {}
    \/ stage = "pause" /\ pause = 0
    \/ stage \in {"flight", "landed"} /\ sentAge >= Timeout

Tick ==
    /\ ~Due
    /\ rest' = IF loop = "resting" THEN rest - 1 ELSE rest
    /\ pause' = IF stage = "pause" THEN pause - 1 ELSE pause
    /\ sentAge' = IF stage \in {"flight", "landed"} THEN sentAge + 1 ELSE sentAge
    /\ beatAge' = Older(beatAge) /\ windowAge' = Older(windowAge)
    /\ UNCHANGED <<loop, asking, holder, stage, attempt, supported, reachable, history>>

-----------------------------------------------------------------------------
Next ==
    \/ Start \/ Stop \/ Wake
    \/ \E c \in Callers : Ask(c)
    \/ \E p \in Callers \cup {Loop} : Lock(p)
    \/ Send \/ GiveUp \/ Accept \/ Succeed \/ Retry \/ Fail \/ Refuse
    \/ LinkDown \/ LinkUp
    \/ Tick

Spec == Init /\ [][Next]_vars

(* The event loop runs whatever is due and time passes; asyncio.Lock is    *)
(* first come, first served, so nobody waits for it for ever.              *)
Fairness ==
    /\ WF_vars(Tick) /\ WF_vars(Wake) /\ WF_vars(Send \/ GiveUp)
    /\ WF_vars(Accept \/ Succeed \/ Retry \/ Fail \/ Refuse)
    /\ \A p \in Callers \cup {Loop} : SF_vars(Lock(p))

FairSpec == Spec /\ Fairness

-----------------------------------------------------------------------------
TypeOK ==
    /\ loop \in {"stopped", "resting", "writing"}
    /\ rest \in Nat
    /\ asking \subseteq Callers
    /\ holder \in Callers \cup {Loop, Free}
    /\ stage \in {"none", "pause", "flight", "landed"}
    /\ attempt \in 0 .. Retries
    /\ pause \in 0 .. RetryDelay
    /\ sentAge \in 0 .. Timeout
    /\ beatAge \in Ages /\ windowAge \in Ages
    /\ supported \in {"untested", "yes", "no"}
    /\ reachable \in BOOLEAN
    /\ missed \in 0 .. 2 /\ steady \in BOOLEAN

(* What the rest of the integration is told, that commands act, is never   *)
(* more than the inverter grants: the age it goes by counts from before    *)
(* the request left, the inverter's from when the request arrived.         *)
InControlIsGranted == InControl => DeviceObeys

(* One write that fails with all its attempts does not cost control: the   *)
(* attempts come out of the interval, so the next write still arrives in   *)
(* time (_delay_before_next_write).                                        *)
AMissedWriteKeepsControl ==
    steady /\ (missed = 0 \/ (missed = 1 /\ attempt = 0)) => InControl

(* The two facts behind them, inductive together with TypeOK.  First, a    *)
(* writer is where its lock and its stage say it is, and every age the     *)
(* loop goes by is at least the inverter's.                                *)
Consistent ==
    /\ holder = Loop => loop = "writing"
    /\ holder \in Callers => holder \in asking
    /\ holder = Free <=> stage = "none"
    /\ stage = "none" => attempt = 0 /\ pause = 0
    /\ windowAge <= beatAge
    /\ stage = "landed" => windowAge <= sentAge

(* Second, the latest age at which a write takes the lock after m failed   *)
(* ones, and how far beyond it each stage of the write can be.             *)
Latest(m) == Interval + Jitter + (IF m = 0 THEN 0 ELSE WriteTime + MinGap + Jitter)

OnSchedule ==
    steady /\ missed <= 1 =>
        /\ loop # "stopped" /\ reachable /\ supported # "no"
        /\ loop = "resting" => beatAge + rest <= Latest(missed)
        /\ holder = Free => beatAge <= Latest(missed)
        /\ stage = "pause" =>
              beatAge + pause <= Latest(missed) + attempt * (RetryDelay + Timeout)
        /\ stage \in {"flight", "landed"} =>
              beatAge <= Latest(missed) + attempt * (RetryDelay + Timeout) + sentAge

(* The heartbeat implements the lease.                                     *)
Lease == INSTANCE ControlLease WITH granted <- DeviceObeys, believed <- InControl

(* InControl and the inverter's window move only as a lease may: believed  *)
(* after a grant, given up no later than it ends.                          *)
ImplementsLease == Lease!Spec

(* A beat is only put on the wire when the last known one is too old to    *)
(* ride on, even if somebody else beat while the writer waited for the     *)
(* lock: the inverter is never made to answer a redundant frame.           *)
NoRedundantBeat == [][Send => beatAge > Reuse]_vars

(* Stopping hands back by silence: from then on only a command that was    *)
(* already being carried out can still put a beat on the wire.             *)
OnlyCommandsBeatAfterStop ==
    [][stage' = "flight" /\ stage # "flight" /\ loop = "stopped" => holder \in asking]_vars

(* A command that asks for authority gets an answer: it never waits for    *)
(* the lock for ever, whatever the link and the inverter do.               *)
EveryCommandIsAnswered == \A c \in Callers : (c \in asking) ~> (c \notin asking)

(* Once the link stays up, the loop stays on and the inverter stops        *)
(* refusing, control is taken and never lapses again.                      *)
ControlIsKept ==
    (<>[](reachable /\ loop # "stopped") /\ <>[][~Retry /\ ~Fail /\ ~Refuse]_vars)
        => <>[]InControl
=============================================================================
