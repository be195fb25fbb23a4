---------------------------- MODULE ReadingChecks ---------------------------
(***************************************************************************)
(* What each poll's readings say about the inverter, reading_checks.py:    *)
(* five checks, each counting its own failures in a row, the failure that  *)
(* holds, since when, and the events coordinator.py announces it with.     *)
(* Polls may be missed, one may fail after its checks have run, and the    *)
(* program may restart from what it saved last.                            *)
(***************************************************************************)
EXTENDS Integers, Sequences

CONSTANTS
    Nothing,        \* nothing read, nothing found
    Frames,         \* what a poll may read: [modes, grid, soc, packs, jitter]; modes are
                    \* the bits set of System Status, grid is "present", "between", "absent"
                    \* or Nothing, jitter a reading that moves with every poll, 0 where the
                    \* model has none
    Damping,        \* CONTROL_STATUS_DAMPING_POLLS
    FrozenAfter,    \* FROZEN_AFTER, in units of the clock
    Margin,         \* SOC_PACK_MARGIN
    MaxTime         \* bound on the clock

\* CHECKS, in order of precedence, and the status each stands for.
CHECKS == <<"off_grid", "grid_voltage", "bms", "battery_soc", "frozen">>
Checks == {CHECKS[i] : i \in DOMAIN CHECKS}
Status == [off_grid |-> "off_grid", grid_voltage |-> "off_grid",
           bms |-> "battery_disconnected",
           battery_soc |-> "inconsistent_readings", frozen |-> "inconsistent_readings"]
Statuses == {Status[c] : c \in Checks}
Findings == [status : Statuses, check : Checks, since : Nat]

ASSUME ChecksConstants ==
    /\ {Damping, FrozenAfter, Margin, MaxTime} \subseteq Nat /\ Damping > 0
    /\ Nothing \notin Int \cup Findings /\ Nothing \notin Checks \cup Statuses \cup {"confused"}
    /\ \A frame \in Frames : frame.soc \in Int \cup {Nothing}

VARIABLES
    now,
    grid_seen, bms_seen,    \* _grid_seen and _bms_seen, what the model reports at all
    last_believed,          \* the last system level believed
    last, unmoved,          \* the readings that jitter, and since when they stand
    polls, since,           \* _polls and _since of each check
    active,                 \* the failure that holds: [status, check, since]
    failing,                \* the checks the last poll failed
    announced,              \* _announced_finding, as far as its status
    stored,                 \* what is saved of grid_seen and bms_seen
    frame,                  \* history: what the last poll read
    window,                 \* history: the checks each of the last polls failed
    level,                  \* history: the last level above 0 since the start
    told,                   \* history: what a listener to the events takes to have failed
    current,                \* history: the last poll announced what it found
    quiet,                  \* history: the last poll in which no check of a status failed
    dark                    \* history: polls in a row without grid voltage

learned == <<grid_seen, bms_seen>>
memory == <<last_believed, last, unmoved>>
counted == <<polls, since, active, failing>>
history == <<frame, window, level, quiet, dark>>
checksVars == <<now, learned, memory, counted, announced, told, current, stored, history>>

ChecksInit ==
    /\ now = 0
    /\ grid_seen = FALSE /\ bms_seen = FALSE
    /\ last_believed = Nothing /\ last = Nothing /\ unmoved = Nothing
    /\ polls = [c \in Checks |-> 0] /\ since = [c \in Checks |-> Nothing]
    /\ active = Nothing /\ failing = {}
    /\ announced = Nothing /\ told = Nothing /\ current = TRUE
    /\ stored = [grid |-> FALSE, bms |-> FALSE]
    /\ frame = Nothing /\ window = <<>> /\ level = Nothing
    /\ quiet = [c \in Checks |-> 0] /\ dark = 0

-----------------------------------------------------------------------------
(* The checks.                                                             *)

\* DeviceReport.from_words, as far as the checks look at it.
NoReport == [reported |-> FALSE, off_grid |-> FALSE, bms_connected |-> FALSE]
Report(f) ==
    IF f.modes = Nothing THEN NoReport
    ELSE [reported      |-> TRUE,
          off_grid      |-> "off_grid" \in f.modes,
          bms_connected |-> "bms_connected" \in f.modes]

\* SystemSocMismatch: a level of 0 that no battery empties to.
Implausible(f) ==
    IF last_believed = Nothing
    THEN \E pack \in f.packs : pack > Margin
    ELSE last_believed > 2 * Margin

\* FrozenReadings: what moves with every poll, the grid voltages among it.
Readings(f) == <<f.grid, f.jitter>>
NothingToJudge(f) == f.grid \in {Nothing, "absent"} /\ f.jitter = 0
Stands(f) == ~NothingToJudge(f) /\ unmoved # Nothing /\ Readings(f) = last

\* (Variants, here and below: every level is believed; the first failing check alone is
\* looked at; another cause begins anew; an event for two changes; what was learned is not
\* loaded.)
Fails(c, f, t) ==
    CASE c = "off_grid" -> Report(f).off_grid
      [] c = "grid_voltage" -> grid_seen /\ f.grid = "absent"
      [] c = "bms" -> Report(f).reported /\ bms_seen /\ ~Report(f).bms_connected
      [] c = "battery_soc" -> f.soc # Nothing /\ f.soc <= 0 /\ Implausible(f)
      [] c = "frozen" -> Stands(f) /\ t - unmoved >= FrozenAfter

\* onset
Onset(c, t) == IF c = "frozen" /\ unmoved # Nothing THEN unmoved ELSE t

\* What the checks remember of a poll that failed `failed`.
BelievesAll(f, failed) == IF f.soc = Nothing THEN last_believed ELSE f.soc
Believed(f, failed) ==
    IF f.soc = Nothing \/ "battery_soc" \in failed THEN last_believed ELSE f.soc

Remember(f, failed, t) ==
    /\ grid_seen' = (grid_seen \/ f.grid = "present")
    /\ bms_seen' = (bms_seen \/ Report(f).bms_connected)
    /\ last_believed' = Believed(f, failed)
    /\ IF NothingToJudge(f) THEN last' = Nothing /\ unmoved' = Nothing
       ELSE IF Stands(f) THEN UNCHANGED <<last, unmoved>>
       ELSE last' = Readings(f) /\ unmoved' = t

-----------------------------------------------------------------------------
(* The failure that holds.                                                 *)

\* _failed: polls in a row, no further than they matter, and since when.
Counted(failed) ==
    [c \in Checks |-> IF c \notin failed THEN 0
                      ELSE IF polls[c] < Damping THEN polls[c] + 1 ELSE polls[c]]
Since(failed, t) ==
    [c \in Checks |-> IF c \notin failed THEN Nothing
                      ELSE IF since[c] = Nothing THEN Onset(c, t) ELSE since[c]]

First(checks) ==
    LET places == {i \in DOMAIN CHECKS : CHECKS[i] \in checks}
    IN  IF places = {} THEN Nothing
        ELSE CHECKS[CHOOSE i \in places : \A j \in places : i <= j]

\* The first failing check that has failed often enough.
HeldIfFirst(failed, counts) ==
    LET first == First(failed)
    IN  IF first # Nothing /\ counts[first] >= Damping THEN first ELSE Nothing
Held(failed, counts) == First({c \in failed : counts[c] >= Damping})

AlwaysAnew(held, began) ==
    IF held = Nothing THEN Nothing
    ELSE [status |-> Status[held], check |-> held, since |-> began[held]]
Finding(held, began) ==
    IF held = Nothing THEN Nothing
    ELSE IF active = Nothing \/ active.status # Status[held]
    THEN [status |-> Status[held], check |-> held, since |-> began[held]]
    ELSE [active EXCEPT !.check = held]

\* ReadingChecks.run
Run(f, t) ==
    LET failed == {c \in Checks : Fails(c, f, t)}
        counts == Counted(failed)
        began == Since(failed, t)
    IN  /\ failing' = failed
        /\ polls' = counts /\ since' = began
        /\ active' = Finding(Held(failed, counts), began)
        /\ Remember(f, failed, t)
        /\ window' = LET longer == Append(window, failed)
                     IN  IF Len(longer) > Damping THEN Tail(longer) ELSE longer
        /\ quiet' = [c \in Checks |->
                        IF \E other \in failed : Status[other] = Status[c] THEN quiet[c]
                        ELSE t]

\* What a listener makes of an event: it can only clear what it was told.
Hears(known, event) ==
    IF event.event = "cleared"
    THEN IF known = event.status THEN Nothing ELSE "confused"
    ELSE IF known = Nothing THEN event.status ELSE "confused"

\* No more than two are fired at once.
Heard(known, events) ==
    IF events = <<>> THEN known
    ELSE IF Len(events) = 1 THEN Hears(known, events[1])
    ELSE Hears(Hears(known, events[1]), events[2])

StatusOf(finding) == IF finding = Nothing THEN Nothing ELSE finding.status

\* _async_track_reading_checks: the events fired.  Another check for the same state is no
\* news.
FiresOne(status) ==
    IF status = announced THEN <<>>
    ELSE IF status # Nothing THEN <<[event |-> "failed", status |-> status]>>
    ELSE <<[event |-> "cleared", status |-> announced]>>
Fires(status) ==
    IF status = announced THEN <<>>
    ELSE (IF announced # Nothing THEN <<[event |-> "cleared", status |-> announced]>> ELSE <<>>)
         \o (IF status # Nothing THEN <<[event |-> "failed", status |-> status]>> ELSE <<>>)

Track(finding) ==
    /\ announced' = StatusOf(finding)
    /\ told' = Heard(told, Fires(StatusOf(finding)))
    /\ current' = TRUE

-----------------------------------------------------------------------------
(* Polls and restarts.                                                     *)

Tick(t) == t <= MaxTime /\ now' = t

\* A poll that reads f; it may fail once its checks have run, and then announces nothing.
Poll(f) ==
    /\ Tick(now + 1)
    /\ Run(f, now + 1)
    /\ frame' = f
    /\ level' = IF f.soc # Nothing /\ f.soc > 0 THEN f.soc ELSE level
    /\ dark' = IF f.grid # "absent" THEN 0
               ELSE IF dark < Damping THEN dark + 1 ELSE dark
    /\ \/ Track(active')
       \/ UNCHANGED <<announced, told>> /\ current' = FALSE
    /\ UNCHANGED stored

\* A poll that reads nothing.
MissPoll ==
    /\ Tick(now + 1)
    /\ UNCHANGED <<learned, memory, counted, announced, told, current, stored, history>>

\* The delayed save, and the one of a shutdown: dump_state.
Save ==
    /\ stored' = [grid |-> grid_seen, bms |-> bms_seen]
    /\ stored' # stored
    /\ UNCHANGED <<now, learned, memory, counted, announced, told, current, history>>

\* load_state
LoadsNothing == grid_seen' = FALSE /\ bms_seen' = FALSE
Load == grid_seen' = stored.grid /\ bms_seen' = stored.bms

\* A restart, after a shutdown or a crash.
Restart ==
    /\ frame # Nothing
    /\ Load
    /\ last_believed' = Nothing /\ last' = Nothing /\ unmoved' = Nothing
    /\ polls' = [c \in Checks |-> 0] /\ since' = [c \in Checks |-> Nothing]
    /\ active' = Nothing /\ failing' = {}
    /\ announced' = Nothing /\ told' = Nothing /\ current' = TRUE
    /\ frame' = Nothing /\ window' = <<>> /\ level' = Nothing
    /\ quiet' = [c \in Checks |-> now] /\ dark' = 0
    /\ UNCHANGED <<now, stored>>

ChecksNext == (\E f \in Frames : Poll(f)) \/ MissPoll \/ Save \/ Restart

ChecksSpec == ChecksInit /\ [][ChecksNext]_checksVars

-----------------------------------------------------------------------------
(* What the checks promise.                                                *)

FailedThroughout == {c \in Checks :
    Len(window) = Damping /\ \A i \in DOMAIN window : c \in window[i]}

\* One odd read neither interrupts control nor raises anything, and a check that keeps
\* failing holds even while one above it comes and goes: what is shown is the first check
\* that failed in each of the last polls, and nothing where none did.
TheHeldFailureIsShown ==
    IF FailedThroughout = {} THEN active = Nothing
    ELSE active # Nothing /\ active.check = First(FailedThroughout)

\* Another cause for the same state: it has lasted since the first.  The time shown does
\* not move while the state stays, and every poll since then has failed a check of it; a
\* freeze began before it could be told.
SinceItBegan ==
    /\ [](active # Nothing =>
             /\ active.since <= now
             /\ \/ active.status = "inconsistent_readings"
                \/ active.since > quiet[active.check])
    /\ [][active # Nothing /\ active' # Nothing /\ active'.status = active.status
         => active'.since = active.since]_checksVars

\* Announce a failed check and its end: who follows the events knows what holds after each
\* poll that went through, and no event contradicts the one before.
EventsAreTrue == told # "confused" /\ (current => told = StatusOf(active))

\* A bad read drops to 0 from anywhere: below a level no battery empties from, a 0 is
\* distrusted for as long as it is read, however long that is.
ADropToZeroIsDistrusted ==
    level # Nothing /\ level > 2 * Margin /\ frame # Nothing /\ frame.soc = 0
    => "battery_soc" \in failing

\* So an outage that outlasts a restart is still caught: a model known to report its grid
\* voltage shows that it is gone, as soon as it has been for enough polls after the start.
AnOutageOutlastsARestart ==
    stored.grid /\ dark >= Damping => active # Nothing /\ active.status = "off_grid"
=============================================================================
