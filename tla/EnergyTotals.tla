---------------------------- MODULE EnergyTotals ----------------------------
(***************************************************************************)
(* One lifetime energy total with the daily value derived from it:         *)
(* energy_processor.py, and what coordinator.py keeps, saves and reloads   *)
(* around it.  A total is validated against what the configured power can  *)
(* have added since the last accepted read; what is implausible is held at *)
(* the last value.  The device's registers may read 0, nothing or a wild   *)
(* value, and the counter may be reset; a poll waits for the control       *)
(* writes between working a frame out and keeping it, and the user, a save *)
(* or the end of the program may come in between.                          *)
(***************************************************************************)
EXTENDS Integers

CONSTANTS
    None,               \* no value
    Power,              \* energy the configured power adds in one unit of time
    Resolution,         \* ENERGY_RESOLUTION_KWH
    Tolerance,          \* WITNESS_TOLERANCE_KWH
    MinReads, MinRise,  \* WITNESS_MIN_READS, WITNESS_MIN_RISE_KWH
    DayLength,          \* units of time from midnight to midnight
    HeldFor,            \* HELD_TOTAL_ISSUE_AFTER_S
    Start,              \* what the device had counted before the first poll
    Wild,               \* a wild value the total may read
    Targets,            \* the values the user may set the total to
    MaxTime,            \* bound of the exploration
    MaxEvents           \* bound on bad reads, resets, restarts, answers and
                        \* refreshes out of turn, all together

ASSUME CountsAreNatural ==
    /\ {Power, Resolution, Tolerance, MinReads, MinRise, HeldFor, Start, Wild} \subseteq Nat
    /\ DayLength \in Nat \ {0}
    /\ Targets \subseteq Nat
    /\ {MaxTime, MaxEvents} \subseteq Nat
    /\ None \notin Int

ASSUME NoneIsNoRecord ==
    /\ None \notin [value : Int, at : Nat]
    /\ None \notin [published : Int, device : Int, since : Nat \cup {None}]
    /\ None \notin [total : Int \cup {None}, today : Int \cup {None},
                    raw : Int \cup {None}, house : Int \cup {None}]

VARIABLES
    now,
    counter, counted,   \* the device: its lifetime and its daily counter
    portal,             \* the total is in ECOFLOW_PORTAL_TOTALS; never changes
    base, raw, house, lastTime,  \* _last_checked_data: the total, its *_raw, a value
                        \* calculated from the daily one; _last_checked_time
    accepted,           \* accepted_at
    first,              \* first_reads: [value, at]
    run,                \* witness_runs
    held,               \* held: [published, device, since]
    snap, day,          \* daily_snapshots, the date of last_rollover
    offset, wanted,     \* offsets of the processor and of the entry's options
    poll,               \* the frame worked out while async_poll writes
    saved,              \* the state file
    events,             \* counted for the bound
    shown, today,       \* the entities: the last total and daily value published
    clean,              \* history: since when every poll read the true counter, above 0
    made,               \* history: when the snapshot was made, if of the total read
    mixed,              \* history: an acceptance was saved that is not the saved
                        \* total's, by an earlier version or between the two halves
                        \* of a poll, or a correction left a total not above 0
    moved,              \* history: the user or a restart came since the last poll
    taken               \* history: a total taken between polls, until the next poll

device == <<counter, counted>>
checked == <<base, raw, house, lastTime>>
processor == <<accepted, first, run, held, snap, day, offset>>
history == <<clean, made, mixed, moved, taken>>
vars == <<now, device, portal, checked, processor, wanted, poll, saved, events,
          shown, today, history>>

Lesser(a, b) == IF a < b THEN a ELSE b
Greater(a, b) == IF a > b THEN a ELSE b
Day(t) == t \div DayLength

-----------------------------------------------------------------------------
(* The validation.                                                         *)

\* _max_believable_energy_delta: the largest rise between two moments.
Believable(since) == Power * Greater(now - since, 0) + Resolution

\* _is_reading and apply_offsets: a read of 0 is left as it is.
IsReading(v) == v # None /\ v > 0
Corrected(v) == IF v # None /\ v > 0 THEN v + offset ELSE v

UnconfirmedZero == base = 0 /\ accepted = None

\* The acceptance time, which a counter restored without one gets from the poll
\* its baseline was saved by.
\* (Mutants, here and below: no such time; a fall accepted within the budget; the
\* device's daily counter ignored; a take that leaves the baseline.)
AnchorMissing == accepted
Anchor == IF base # None /\ lastTime # None /\ ~UnconfirmedZero /\ accepted = None
          THEN lastTime ELSE accepted
Since == IF Anchor # None THEN Anchor ELSE lastTime

\* _confirms_first_read: v follows the read before it as a counter would.
ConfirmsFirst(v) == first # None /\ v - first.value \in 0 .. Believable(first.at)

\* _rises_agree
RisesAgree(t, d) == d >= 0 /\ t - d \in -Tolerance .. Tolerance

\* _daily_confirms: the reads of a held total and its daily counter, and whether
\* they have risen together for long enough.
NextRun(v, d) ==
    IF /\ run # None
       /\ v - run.lastTotal \in 0 .. Believable(run.seen)
       /\ RisesAgree(v - run.lastTotal, d - run.lastDaily)
    THEN [run EXCEPT !.lastTotal = v, !.lastDaily = d, !.seen = now,
                     !.reads = Lesser(@ + 1, MinReads)]
    ELSE [total |-> v, daily |-> d, lastTotal |-> v, lastDaily |-> d,
          seen |-> now, reads |-> 1]

Witnessed(v, d) ==
    /\ d # None
    /\ NextRun(v, d).reads >= MinReads
    /\ d - NextRun(v, d).daily >= MinRise
    /\ RisesAgree(v - NextRun(v, d).total, d - NextRun(v, d).daily)

\* validate_totals: what becomes of the total v, read with the daily counter d.
VerdictOnAFall(v, d) ==
    IF v = None THEN "filled"
    ELSE IF base = None THEN "first"
    ELSE IF v - base <= Believable(Since) THEN "accepted" ELSE "held"
Verdict(v, d) ==
    IF lastTime = now THEN "tooSoon"
    ELSE IF v = None THEN "filled"
    ELSE IF base = None THEN "first"
    ELSE IF UnconfirmedZero THEN IF v > 0 /\ ConfirmsFirst(v) THEN "confirmed" ELSE "waiting"
    ELSE IF Since = None THEN "anchored"
    ELSE IF v - base \in 0 .. Believable(Since) THEN "accepted"
    ELSE IF base = 0 /\ v > 0 /\ Witnessed(v, d) THEN "witnessed"
    ELSE "held"

\* What each verdict leaves in the processor, and the total it publishes.
Validate(v, d, verdict) ==
    /\ accepted' = CASE verdict = "tooSoon" -> accepted
                     [] verdict \in {"confirmed", "anchored", "accepted", "witnessed"} -> now
                     [] verdict = "first" /\ v # 0 -> now
                     [] OTHER -> Anchor
    /\ first' = CASE verdict = "confirmed" -> None
                  [] verdict = "waiting" /\ v > 0 -> [value |-> v, at |-> now]
                  [] OTHER -> first
    /\ run' = CASE verdict \in {"accepted", "witnessed"} -> None
                [] verdict = "held" /\ base = 0 /\ v > 0 ->
                       IF d = None THEN None ELSE NextRun(v, d)
                [] OTHER -> run
    /\ held' = CASE verdict \in {"tooSoon", "filled", "anchored"} -> held
                 [] verdict = "held" -> [published |-> base, device |-> v, since |-> Anchor]
                 [] OTHER -> None

Published(v, verdict) ==
    IF verdict \in {"first", "confirmed", "anchored", "accepted", "witnessed"} THEN v ELSE base

-----------------------------------------------------------------------------
(* The daily value and what is calculated from it.                         *)

\* _should_roll_daily_snapshots
Rolls == day # None /\ Day(now) > day

\* _is_valid_raw_daily: d can be the energy counted since midnight.
ValidDaily(d, total) == d # None /\ d \in 0 .. Lesser(total, Believable(Day(now) * DayLength))

SnapshotOfTheTotal(total, d, kept) ==
    CASE total = None -> IF Rolls THEN None ELSE kept
      [] total # None /\ (Rolls \/ kept = None) -> total
      [] OTHER -> Lesser(kept, total)

\* derive_daily: kept is the snapshot _restart_daily_from_device has left.
Snapshot(total, d, kept) ==
    CASE total = None -> IF Rolls THEN None ELSE kept
      [] total # None /\ (Rolls \/ kept = None) ->
             IF ValidDaily(d, total) THEN total - d ELSE total
      [] OTHER -> Lesser(kept, total)

\* clamp_calculated: no decrease but at the rollover, and never below 0.
Clamped(value, last) ==
    IF value = None THEN None
    ELSE Greater(IF last # None /\ value < last /\ ~Rolls THEN last ELSE value, 0)

-----------------------------------------------------------------------------
Nothing == [base |-> None, raw |-> None, house |-> None, lastTime |-> None,
            accepted |-> None, snap |-> None, day |-> None, offset |-> 0]

\* _persisted_state
Persisted == [base |-> base, raw |-> raw, house |-> house, lastTime |-> lastTime,
              accepted |-> accepted, snap |-> snap, day |-> day, offset |-> offset]

\* What an earlier version may have left: a 0 it accepted, or a total with no
\* acceptance time.
Inherited ==
    {Nothing,
     [Nothing EXCEPT !.base = 0, !.raw = 0, !.lastTime = 0, !.accepted = 0, !.snap = 0, !.day = 0],
     [Nothing EXCEPT !.base = Start, !.raw = Start, !.lastTime = 0, !.snap = Start, !.day = 0]}

\* async_load_persisted_state: load_state and change_offsets.
Load(stored) ==
    LET moves == stored.base # None /\ wanted # stored.offset
        shifted == IF IsReading(stored.raw) THEN stored.raw + wanted
                   ELSE stored.base + wanted - stored.offset
    IN  /\ base' = IF moves THEN shifted ELSE stored.base
        /\ raw' = stored.raw
        /\ house' = stored.house
        /\ lastTime' = stored.lastTime
        /\ accepted' = IF moves THEN now ELSE stored.accepted
        /\ snap' = IF moves /\ stored.snap # None
                   THEN stored.snap + shifted - stored.base ELSE stored.snap
        /\ day' = stored.day
        /\ offset' = wanted
        /\ first' = None /\ run' = None /\ held' = None
        /\ poll' = None

Init ==
    /\ now = 1
    /\ counter = Start /\ counted = 0
    /\ portal \in BOOLEAN
    /\ saved \in Inherited
    /\ base = saved.base /\ raw = saved.raw /\ house = saved.house
    /\ lastTime = saved.lastTime /\ accepted = saved.accepted
    /\ snap = saved.snap /\ day = saved.day
    /\ offset = 0 /\ wanted = 0
    /\ first = None /\ run = None /\ held = None
    /\ poll = None
    /\ events = 0
    /\ shown = None /\ today = None
    /\ clean = None /\ made = None /\ mixed = (saved.base = 0) /\ moved = FALSE /\ taken = None

\* Time passes and the device counts at most what its power allows; its daily
\* counter starts again at midnight.
Tick ==
    /\ now < MaxTime
    /\ poll = None
    /\ now' = now + 1
    /\ \E e \in 0 .. Power :
        /\ counter' = counter + e
        /\ counted' = IF Day(now + 1) > Day(now) THEN 0 ELSE counted + e
    /\ UNCHANGED <<portal, checked, processor, wanted, poll, saved, events,
                   shown, today, history>>

\* The device starts its lifetime counter again.
DeviceReset ==
    /\ events < MaxEvents
    /\ poll = None
    /\ events' = events + 1
    /\ counter' = 0 /\ counted' = 0
    /\ clean' = None
    /\ UNCHANGED <<now, portal, checked, processor, wanted, poll, saved,
                   shown, today, made, mixed, moved, taken>>

\* _async_update_data up to async_poll, for the total v and the daily counter d.
Work(v, d) ==
    LET verdict == Verdict(Corrected(v), d)
        total == Published(Corrected(v), verdict)
        kept == IF verdict \in {"confirmed", "witnessed"} THEN None ELSE snap
        daily == Snapshot(total, d, kept)
        value == IF total = None THEN None ELSE total - daily
    IN  /\ Validate(Corrected(v), d, verdict)
        /\ snap' = daily
        /\ day' = IF day = None \/ Rolls THEN Day(now) ELSE day
        /\ poll' = [total |-> total, today |-> value, raw |-> v,
                    house |-> Clamped(value, house)]
        /\ made' = IF total # None /\ (Rolls \/ kept = None)
                   THEN IF IsReading(v) /\ total = Corrected(v) /\ total >= counted
                        THEN now ELSE None
                   ELSE made

\* The total reads 0 or a wild value, or the totals, or the daily ones, read nothing.
Misreads == {<<0, counted>>, <<Wild, counted>>, <<None, None>>, <<counter, None>>}

PollWorks ==
    /\ poll = None
    /\ \/ /\ lastTime # now
          /\ Work(counter, counted)
          /\ clean' = CASE Corrected(counter) <= 0 -> None
                        [] Corrected(counter) > 0 /\ clean = None -> now
                        [] OTHER -> clean
          /\ UNCHANGED events
       \/ /\ events < MaxEvents
          /\ events' = events + 1
          /\ \/ /\ lastTime # now
                /\ \E read \in Misreads : Work(read[1], read[2])
                /\ clean' = None
             \/ /\ lastTime = now      \* a refresh within a second of a poll
                /\ Work(counter, counted)
                /\ UNCHANGED clean
    /\ UNCHANGED <<now, device, portal, checked, offset, wanted, saved,
                   shown, today, mixed, moved, taken>>

\* _held_over_a_day
HeldOverADay ==
    /\ held # None
    /\ held.device > 0
    /\ held.since # None
    /\ now - held.since >= HeldFor

\* take_device_totals for a total held over a day.
Take ==
    /\ accepted' = now
    /\ held' = None /\ run' = None /\ snap' = None

\* _take_long_held_inverter_only_totals
TakesLongHeld == ~portal /\ HeldOverADay

\* The rest of the poll: the frame becomes the last one checked, and a total in no
\* portal that is held for a day is taken.
PollKeeps ==
    /\ poll # None
    /\ raw' = poll.raw /\ house' = poll.house /\ lastTime' = now
    /\ IF TakesLongHeld
       THEN Take /\ base' = held.device /\ moved' = TRUE
       ELSE base' = poll.total /\ moved' = FALSE /\ UNCHANGED <<accepted, held, run, snap>>
    /\ poll' = None
    /\ shown' = poll.total /\ today' = poll.today
    /\ taken' = None
    /\ UNCHANGED <<now, device, portal, first, day, offset, wanted, saved, events,
                   clean, made, mixed>>

TakeWithoutBaseline ==
    /\ portal /\ HeldOverADay
    /\ events < MaxEvents
    /\ events' = events + 1
    /\ Take
    /\ taken' = IF poll = None THEN held.device ELSE None
    /\ clean' = None /\ moved' = TRUE
    /\ UNCHANGED <<now, device, portal, checked, first, day, offset,
                   wanted, poll, saved, shown, today, made, mixed>>

\* async_take_device_totals, from the repairs issue of a total held over a day.
TakeDeviceTotal ==
    /\ portal /\ HeldOverADay
    /\ events < MaxEvents
    /\ events' = events + 1
    /\ Take
    /\ base' = held.device
    /\ taken' = IF poll = None THEN held.device ELSE None
    /\ clean' = None /\ moved' = TRUE
    /\ UNCHANGED <<now, device, portal, raw, house, lastTime, first, day, offset,
                   wanted, poll, saved, shown, today, made, mixed>>

\* async_set_energy_offsets: the offset is saved to the entry, which reloads.
Correct(correction) ==
    /\ events < MaxEvents
    /\ events' = events + 1
    /\ wanted' = correction
    /\ UNCHANGED <<now, device, portal, checked, processor, poll, saved,
                   shown, today, history>>

\* async_keep_shown_totals, from the repairs issue.
KeepShownTotal == portal /\ HeldOverADay /\ Correct(wanted + held.published - held.device)

\* The options: the user's own value for the total, or every correction removed.
SetTotal == portal /\ IsReading(raw) /\ \E value \in Targets : Correct(value - raw)

RemoveCorrections == portal /\ IsReading(raw) /\ wanted # 0 /\ Correct(0)

\* Between the halves of a poll the acceptance may be of a total that is not kept yet.
Saving == saved' = Persisted
Torn == poll # None

\* The delayed save.  What it writes does not change from one poll to the next, so
\* it need only come right after one, in one, or after an answer of the user's.
Save ==
    /\ events < MaxEvents
    /\ lastTime = now \/ poll # None \/ moved
    /\ saved # Persisted
    /\ Saving
    /\ mixed' = (mixed \/ Torn)
    /\ UNCHANGED <<now, device, portal, checked, processor, wanted, poll, events,
                   shown, today, clean, made, moved, taken>>

Restarting(torn) ==
    /\ mixed' = (mixed \/ torn \/ (accepted' # None /\ base' # None /\ base' <= 0))
    /\ clean' = None /\ made' = None /\ moved' = TRUE /\ taken' = None
    /\ UNCHANGED <<now, device, portal, wanted, shown, today>>

\* The entry reloads with the options changed: async_shutdown saves.
Reload ==
    /\ wanted # offset
    /\ Saving
    /\ Load(Persisted)
    /\ Restarting(Torn)
    /\ UNCHANGED events

\* The program is stopped, which saves, or ends without a save; it starts again
\* later, or as a version whose energy_state_revision the saved counters predate.
Restart ==
    /\ events < MaxEvents
    /\ events' = events + 1
    /\ \/ Saving /\ Load(Persisted) /\ Restarting(Torn)
       \/ UNCHANGED saved /\ Load(saved) /\ Restarting(FALSE)

StartAfresh ==
    /\ events < MaxEvents
    /\ events' = events + 1
    /\ Saving
    /\ Load(Nothing)
    /\ Restarting(Torn)

Next ==
    \/ Tick
    \/ DeviceReset
    \/ PollWorks
    \/ PollKeeps
    \/ TakeDeviceTotal
    \/ KeepShownTotal
    \/ SetTotal
    \/ RemoveCorrections
    \/ Save
    \/ Reload
    \/ Restart
    \/ StartAfresh

Spec == Init /\ [][Next]_vars

-----------------------------------------------------------------------------
(* Properties.                                                             *)

Value == Int \cup {None}
Moment == Nat \cup {None}
Kept == [base : Value, raw : Value, house : Value, lastTime : Moment,
         accepted : Moment, snap : Value, day : Moment, offset : Int]

\* The shape of the state (EnergyProcessor, _last_checked_data, the state file).
TypeOK ==
    /\ now \in Nat /\ counter \in Nat /\ counted \in Nat /\ events \in Nat
    /\ mixed \in BOOLEAN /\ portal \in BOOLEAN
    /\ base \in Value /\ raw \in Value /\ house \in Value /\ snap \in Value
    /\ shown \in Value /\ today \in Value /\ taken \in Value
    /\ lastTime \in Moment /\ accepted \in Moment /\ day \in Moment
    /\ clean \in Moment /\ made \in Moment
    /\ first \in [value : Int, at : Nat] \cup {None}
    /\ run \in [total : Int, daily : Int, lastTotal : Int, lastDaily : Int,
               seen : Nat, reads : Nat] \cup {None}
    /\ held \in [published : Int, device : Int, since : Moment] \cup {None}
    /\ offset \in Int /\ wanted \in Int
    /\ poll \in [total : Value, today : Value, raw : Value, house : Value] \cup {None}
    /\ saved \in Kept
    /\ moved \in BOOLEAN

\* What is published falls only where the user, a restart or a day's hold has
\* moved the total: no sequence of bad reads makes it fall.
NeverFallsByItself ==
    [][shown # None /\ shown' # shown /\ ~moved => shown' # None /\ shown' > shown]_vars

\* Whatever was read before, two reads of the true counter in a row show it, or
\* hold it with a countdown to the user's question that the reads do not restart;
\* and it is never held at 0, unless an earlier version accepted one or a correction
\* made one of the total.
HonestCounterIsShown ==
    (/\ poll = None /\ lastTime = now
     /\ clean # None /\ clean < now
     /\ Corrected(counter) > 0) =>
        \/ base = Corrected(counter)
        \/ /\ held # None
           /\ held.device = Corrected(counter)
           /\ held.since # None /\ held.since <= clean
           /\ held.published > 0 \/ mixed \/ offset < 0

\* With true reads since its snapshot was made, today is what the device counted
\* since midnight, and so is what is calculated from it.
TodayFollowsTheDevice ==
    (/\ poll = None /\ lastTime = now
     /\ clean # None /\ made # None /\ clean <= made) =>
        today = counted /\ (Day(made) > Day(clean) => house = counted)

\* A total taken between two polls is what the next one counts on from.
TakenCountsOn ==
    taken # None => base = taken /\ (poll # None => poll.total >= taken)
=============================================================================
