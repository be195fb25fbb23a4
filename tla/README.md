# Verification of ef_powerocean_tcpmodbus

TLA+ models, model-checking runs and machine-checked proofs for the Home Assistant
integration under `custom_components/ef_powerocean_tcpmodbus`, which reads an EcoFlow
PowerOcean inverter over Modbus TCP and, when the user switches Modbus Control on, commands
it. All line numbers are those of the source files of that directory.

## 1. The system

The integration is one asyncio program. Nothing in it runs in parallel, but every `await`
(a Modbus request, a sleep, a lock) lets other tasks run, so what a task decided before an
`await` may be out of date after it. Outside it are the inverter, the EcoFlow app and its
cloud (which change the same registers), the network (which drops, and hands an address to
another device) and Home Assistant itself (which restarts, and stores a little state).

| Component | Source | State it keeps | Operations | Hard behaviour |
|---|---|---|---|---|
| Heartbeat | `heartbeat.py` | last accepted beat, support of the register, the loop's task, a lock | start, stop, loop, `async_ensure_fresh`, `note_reconnect` | the inverter obeys for 60 s per beat; a loop and commands share one write; retries; cancellation in the middle of a write |
| Control loop | `control.py` `async_apply` and its callers | selection, command last told, stale mark, dwell, follow check | poll, user commands, switch, Battery Saver, test, reconnect | no lock across awaits; partial failures; lapses of the window between two looks |
| SOC guards | `control.py` `_update_limits`, `_update_guards` | Charge Limit and Battery Reserve, two latches with a stop each, charging to the reserve | poll, limit changes, save, restart | hysteresis while the limits move; readings missing, wrong, frozen; a reserve kept by the inverter itself |
| Grid Feed-in switch | `control.py` `async_set_grid_feed` | settings to put back, whether the switch stopped the export | turn on and off, track, restore | two registers, either write may fail; polls read them in between; the app changes them |
| Connection and identity | `coordinator.py`, `modbus.py` | link, write block, verified, mismatch, pinned serial | connect, reconnect, check identity, read, write, unload | the address can come to belong to another inverter; a shared link opens itself |
| Battery modes | `plans.py`, `control.py` `_choose_step`, `_carry_out`, `_mode_power` | zone, step, cooldowns | choose a step, carry it out, bound its power | oscillation between steps; a forbidden way reached in stages; a power of zero |
| Hand-back | `control.py` `_advance_handback` | phase, polls, back-off | advance, reset | several polls to give control back, doubling waits, withdrawn at any point |
| Reading checks | `reading_checks.py` | counts per check, the finding shown, what the model reports at all | run per poll, announce, dump and load | checks that mask each other, onset by counting, what a restart forgets |
| Energy totals | `energy_processor.py` | accepted totals, held reads, witness runs, offsets, daily snapshots | validate, take, keep, derive, roll, save, load | a glitch accepted, a true value held for ever, midnight, an answer of the user inside a poll, restart |
| Read planning | `coordinator.py` | wanted keys, planned blocks, dropped keys, stalls | plan, read, probe, drop, forget on new firmware | a stalling block fails the poll; the plan changes inside a poll |
| Control test | `control_test.py`, `control_test_core.py` | stage, results, what it found, a heartbeat of its own | start, run, cancel, restore, release | cancelled at any await, must leave the inverter as found; verdicts that nothing earned |
| Telemetry, models | `telemetry.py`, `models.py`, `const.py` | none | decode | word order, sign, control word layout |
| Set-up, flows, entities, repairs, diagnostics, logbook, services | the rest | Home Assistant's | plumbing and presentation | none of their own |
| Scripts | `scripts/` | none | developer tools outside the integration | none |

How they interact. The coordinator polls: it reconnects if it has to (which marks the
command stale and has the serial compared), reads the planned blocks, runs the checks and the
energy validation, and hands the readings to `ControlManager.async_poll`. That follows the
native reserve, works the guards out (unless the frame is suspect), lets the mode choose a
step, and applies it: setpoint register, then method word, each through the client's one
lock, after `Heartbeat.async_ensure_fresh`. Users and services call the same `async_apply`
from their own tasks. The heartbeat loop and every command pass the client's write block,
which the identity check sets and lifts.

### What has to be right

- Heartbeat: what is believed about control is granted by the inverter; one missed write is
  survived; a command gets an answer; control comes back.
- Control loop: what looks settled is what the inverter follows; a setpoint goes only to an
  inverter that obeys; after a lapse, a test or a switch-on only the control word settles
  the command; a mode does not outlive the switch; left alone, the loop settles.
- Guards: they fit the reading they were worked out from, never flicker, survive restarts.
- Modes and decisions: whatever is selected, the battery is not moved on past a limit; no
  setpoint is zero; a guard does not wait; the inverter is left to itself only while that
  helps; a mode neither flickers between its steps nor starves one.
- Grid feed: what the owner had set is on the inverter or remembered.
- Connection: no reading of a stranger is shown, no write reaches it, the right inverter is
  accepted again, nothing reopens an unloaded link.
- Energy totals: a total never falls by itself, a true counter is shown in the end, today's
  energy is what the inverter counted today, a value the user took is counted on from.
- Read planning: what is asked for and can be read is read; nothing is dropped without cause;
  an optional register never keeps the polls from succeeding for good.
- Control test: it ends, hands back, leaves the inverter as found, obeys a cancellation, and
  says "followed" only of a method that was.
- Reading checks: what is shown has failed for long enough, since when is true, and the
  events agree with it; a level of 0 that cannot be is never believed.

## 2. Plan

Done in this order, most important first: Heartbeat with its lease; ControlLoop; Connection;
SocGuards; GridFeed; ModeSteps; Decisions; EnergyTotals; ReadPlan; ControlTest;
ReadingChecks; ModePowers. All but ModePowers have theorems (section 5).

What would add most from here:

1. A composition of SocGuards, ModeSteps and Decisions with a battery that follows what is
   commanded, for what only the three together promise: the battery comes to rest at its
   limits.
2. The deviation status (`_update_deviation`): it is counted in polls, but runs on a user's
   change, too (control.py:1620).
3. Algorithms on one frame: register encoding and decoding, the derived powers.

## 3. The modules

A module is named for its component; `X.tla` holds the model, its slips (operators that
change one definition the way a plausible bug would, each placed before the definition it
replaces) and its properties, `MCX.tla` with `MCX*.cfg` an instance for TLC, `XProofs.tla`
the theorems (`ExportProofs` those of GridFeed and ModeSteps, `PollProofs` those of Connection,
ReadingChecks and ReadPlan, whose specifications are therefore named apart: `ModeSpec`,
`ChecksSpec`, `PlanSpec`).
A run is `tlc -config MCX.cfg MCX.tla`, the proofs are `tlapm XProofs.tla`. `MCXMore.cfg` checks the
type invariant of X and the properties that the run's own ones largely cover (section 4).

### Heartbeat, ControlLease

`Heartbeat` is `heartbeat.py` in discrete time. Ages (`sentAge`, `beatAge`, `windowAge`)
replace timestamps and stop just past the window. A write is `Lock` (with the second look at
the age after the wait), `Send` or `GiveUp`, the inverter's `Accept`, and `Succeed`, `Retry`,
`Fail` or `Refuse`; `Return` is what the loop or the command does then. `Stop` cancels the
loop inside any of these, and the frame on the wire may arrive all the same. `Tick` lets a
second pass unless something is due, which is the event loop being prompt: a task that can
go on does so within the second. `ControlLease` is what the rest of the integration relies
on (granted, believed; learn only after a grant, stop believing no later than it ends), and
`ImplementsLease` the refinement: it carries `InControlIsGranted`, that what is believed is
granted. `missed` and `steady` are history variables.

### ControlLoop

One action per stretch between awaits: `PollApplies` and `UserCommands` (everything
`async_apply` does up to its first await), `Authorized` or `Denied` (the heartbeat; a beat
too old to count is renewed, which can fail with the window still open),
`Answered` or `Failed` (each of the two writes), `Delivered`/`Commit` (what follows the
last), and the same for Battery Saver and the switches; besides `BeginTest`, `EndTest`,
`Restart`, `Disconnect`, `Reconnect` (with `mark_stale`), `Lapse`, `Beat`, `Forget` (the
inverter loses what it was told while it does not obey) and `Age` (the dwell and the grace
of the follow check). What the guards, the checks and a mode's plan come to is an arbitrary
`override`, chosen anew at every poll: whatever they decide, the loop has to carry it out.

The variable `trouble` is chosen at the start of a behaviour from `Troubles` and says what
may befall it: overlapping tasks, writes that fail before or after the inverter took them,
lapses the loop does not see, Battery Saver beside a mode. `SettledIsFollowed` needs the
calm (`SettledIsFollowedInCalm`); everything else holds under all of them.

### Connection

`answers` is the inverter that has the address, `link` the one the connection is up to. The
poll walks through `Stages` (dialling, the second the connection settles, device info
twice, blocks); writers look at the block, wait for the lock, and write. `configured` and
`shared` say how the entry was set up, and are chosen at the start of a behaviour; an entry keyed by
its host takes the serial as its key once one is known (`Claim`). Around the polls is the
life of the entry: `Setup` with its first poll, `SetupFails`, `Unload`, and a form that
moves it to another address and reloads it (`Reconfigure`, `AddAgain`), which takes another
inverter for the right one only where it has no serial to compare.
A shared link opens itself for a request (`Reached`) and can be opened by another user
(`OthersConnect`). `sources` and `shown` record whose readings a poll holds and publishes.

### SocGuards

Levels are whole percent on a short scale; `Work` is `_update_limits` followed by what
`async_apply` does to the guards. A frame (`FrameRead`) brings a level or none, a pack level
that may contradict it, the inverter's own reserve or none, and may be frozen. `native`
is chosen at the start. `judged` records the reading the latches were last worked out from,
so that `LimitsAreKept` can speak about it; `saved` is the store, written at any time and
loaded by `Restart`.

### GridFeed

The two registers, the frame a poll has read but not taken up, the turn of the switch with
its two writes in the order the code makes them, and what the owner last set (`own`).
`Races` names three moments in which the code loses the owner's settings (section 6); the
passing run and the theorems are about behaviours without them.

### ModeSteps

`ModeState` of plans.py for the one mode that adapts, Export Solar First. `Choose` is a poll with
any surplus, limit and state of the battery; `StartOver` is another mode having been
selected; instants are kept as ages (`since`, `away`). The zones are left only clearly
outside, `Chosen` is the walk towards zero over steps that still have to wait, and
`SwitchTo` sets the wait of the step that is left. `briefs` is a history variable: how often
in a row a step was brief.

### Decisions

`CarryOut` is `_carry_out`: which command a step becomes under the guards that are on
(`Guarding`), the ways they stop right now (`Stopping`), the surplus, and what was decided
before (`commanded`, `stopped`, `handback`). `OneWay` is `_one_way_automatic` with its
hand-back (`Advance`) for both kinds of inverter, those whose battery tracks a setpoint and
those that can only be held. The rest of `async_apply` is what resets this state: `Poll`,
`UserActs` (a mode selected, expired or set up anew), `SteppedAside`, `ChargedToReserve`;
`Deliver` leaves open whether the decision reaches the inverter, which is ControlLoop's to
say. The readings of a poll are any of `ReadingsFor` the step: which of them go together is
not assumed, except that a guard only stops a way it is on for. The invariants speak about
every decision that could come next (`Whatever`), not only about the one that did.

### ModePowers

The powers those two modules take from a set are worked out here: what the user sets is kept
within the ceilings that do not move (`Stored`), and each command within those of the poll
(`ControlPowerCeiling`, `ClampPower`); the mode that exports solar stays under the device's
cap (`SolarExportTarget`). `PowersOf` is every power the modes come to when each input is
missing, zero or set, and MCDecisions and MCModeSteps take exactly those, so that the zero
powers and missing limits the decisions are checked against are the ones the code produces.

### EnergyTotals

One lifetime counter of `energy_processor.py` with its daily counter and a value calculated
from it, through a poll in its two halves: `PollWorks` validates and derives, `PollKeeps`
publishes after the control writes of `async_poll`, and a refresh, a save, an answer of the
user (`TakeDeviceTotal`, `KeepShownTotal`, `SetTotal`) or the end of the program may come in
between. `Verdict` is the decision of `validate_totals` in one place: a rise the configured
power can have made is accepted, a first 0 is shown but anchors nothing, what is implausible
is held until a second read confirms it, the daily counter witnesses it (`NextRun`) or a day
has passed. `Snapshot` is the lifetime value today is counted from. `Misreads` are a 0, a wild
value, a missing total and a missing daily counter; `DeviceReset` starts the counter again;
`Save`, `Restart`, `Reload` and `StartAfresh` are the state file, which may be of the middle
of a poll, or an earlier version's (`Inherited`). `clean`, `made`, `mixed`, `moved` and
`taken` are history variables; `mixed` says that an acceptance is in use that belongs to
another total than the one it is kept with: an earlier version's 0, a state saved in the
middle of a poll (`Torn`), or a total that a correction taken up at a restart brings to 0 or
below.

### ReadPlan

`PlanBlocks` is `plan_blocks`: required registers grouped by address, gap, span and the
heartbeat register no read may cross; optional ones inside a required read or grouped apart.
`With` adds one register to the reads so far, `Group` does so for all of them by address.
`TrackWanted` replans when listeners come or go, `StartPoll` takes the plan of that moment,
`BlockAnswers` and `ProbeRegister` are one request each, answered, refused, busy or never
answered, and `UpdateFirmware` changes what the device has. `NoteStall` counts the polls a block
failed since it last answered and drops it. The variable `isolate` is the model that refuses any read with
a register it lacks. `failed` is a history of the failures the code's docstring would count:
those of a block's own read, with what the coordinator must have read before it. Like the
code's count, and unlike its log text ("in a row"), it goes on over busy answers and a change
of firmware (section 6).

### ControlTest

One run of `control_test.py`, an action per await: `Start` and `Begin` (the manager's heartbeat
stops), `First` (what will be put back), `Take` (its own heartbeat), then for each test
`PlanStep`, `SendBeat`, `SendSetpoint`, `SendWord`, `LetItLand`, `Watch` and the return to
the default; at last the setpoints found, the end of the heartbeat, bit 11, and `Release`.
Any write may be refused, with the inverter having taken it or not, a beat may fail, a frame may not
come (`Abort`), and the run may be cancelled at any await (`Cancel`; `CancelRestoring` in the
clean-up itself), the write it was waiting for landing all the same or not (`Lands`). `PlanTest`, `PickDecisive`, `Skips` and `Judged` are the functions of
`control_test_core.py`; whether the firmware follows a method (`follows`), what flows by
itself (`flow`) and the export cap are chosen at the start and hidden from the run. `sent`,
`spoiled`, `cancelled`, `cutShort` and `before` are history variables.

### ReadingChecks

The five checks of `reading_checks.py` on frames reduced to what they look at: `Fails` is
what each says of a frame, `Remember` what it learns, `Counted` and `Since` its count,
`Held` and `Finding` what is shown, `Fires` and `Track` the events that announce it. A poll may be
missed, or fail after its checks ran (what is found is then announced by the next one);
what the model was seen to report is saved late and loaded by `Restart`, all else is
forgotten. `frame`, `window`, `level`, `told`, `quiet` and `dark` are history variables.

## 4. The runs

| Run | Instance and why it is enough |
|---|---|
| `heartbeat` | One command beside the loop (a second would only wait for the same lock), window 9, interval 2, one retry: the smallest whole numbers that satisfy the budget `AMissedWriteFits`, in which every order of beat, retry, reuse and lapse occurs. `TheTimesFit` works the budget out for the seconds of `const.py` and every scan interval the options allow: 60 s suffice if failing requests take a second, and if they run into the 3 s timeout, from an interval of 4 s on. The proofs are for all times. |
| `control_loop` | Two commands on one method (so that only the setpoint changes), one on the other, one override, one user, the switch and the poll, under no trouble; under overlaps; under every failure, lapse and Battery Saver. The last are not combined with overlaps, which would take TLC hours. |
| `control_loop_follow` | The liveness of the loop with one command and a report to check, lapses included. |
| `connection` | Three inverters (the configured one and two that are not), two writers, own and shared link, entry keyed by serial or host, reads that fail; the entry is set up, moved, reloaded and unloaded at any moment. |
| `soc_guards` | Five levels with a hysteresis of 3 and a return band of 2, so that both bands overlap and reach both ends; each limit on or off, switched at any time; both kinds of reserve. A Charge Limit that moves between two levels is left to `MCSocGuardsMore`, which takes five minutes. The proofs are for all scales and sets of limits. |
| `grid_feed` | No cap and two caps in three modes. The proofs are for all caps. |
| `mode_steps` | Surpluses on both sides of zero and of the limit, the limits that `PowersOf` leaves with caps of none, zero and four (0 and 3), a deadband of one, waits that double from 2 to a cap of 5: every zone, every way between zones and every wait. |
| `decisions` | All seven modes, both kinds of inverter, surpluses of -3 to 3 and unknown, every set of guards and stops, every power `PowersOf` comes to with each input missing, zero or set; a tolerance above the tracking step and a hand-back threshold above the deadband, as in const.py, and a wait that doubles and then meets its cap. The proofs are for all scales. |
| `energy_totals` | Five units of time with a midnight after every second, power of one a unit, a hold of two, and at most two of: misreads, resets, answers, saves out of turn, restarts; the user sets the total to 0 or to 6, below and above what the device shows, so that offsets of both signs occur. Confirming, witnessing over three reads, holding for a day and taking all occur, and so does each with a midnight or a restart inside. The theorems have no bound. |
| `read_plan` | Three required and three optional registers of one and two words around the heartbeat register: reads that end for each of the three reasons, optional registers inside and between required ones. Every firmware that refuses or leaves unanswered any of the optional ones (`Mixed = FALSE`: not both, see section 6), one update, a busy answer, a lost link or a late answer, two stalls to drop. |
| `control_test` | Three tests over two methods and two setpoints, what flows by itself exactly what two of them ask for, one firmware that follows nothing and one that follows one method, and two failures or cancellations: enough for a failed write inside a clean-up that a cancellation started. The proofs are for any number of runs, faults and tests. |
| `reading_checks` | Eight frames, at least one for each check; three polls to hold, a freeze after two; seven units of time, so that a finding can hold, pass, and another hold. |

Deadlock is checked in every run but `energy_totals`, `control_test` and `reading_checks`,
which stop at the bound on time or on runs.

The further configurations are run the same way and find no error. `MCHeartbeatMore`:
`InControlIsGranted`, `NoRedundantBeat`, `OnlyCommandsBeatAfterStop`. `MCControlLoopMore`:
`OnlyTheWordSettles`. `MCGridFeedMore`: `NewSettingsAreAdopted`. `MCModeStepsMore`:
`BriefStepsWaitLonger`. `MCDecisionsMore`: `GuardsDoNotWait`. `MCConnectionMore`:
`VerdictIsEnforced`. `MCSocGuardsMore`: `StopsAreGuarded`, `NativeReserveIsFollowed`, and with a second Charge Limit
those of its run. Each of these also checks the module's `TypeOK`. `MCReadPlanMore` is `read_plan` with two faults in
place of one, which takes a few minutes.

### Fairness

Only what the event loop and the outside give by themselves: a task whose await is over
goes on (weak fairness of its next step), the coordinator polls for ever, time passes, a
request is answered or fails. `asyncio.Lock` is first come, first served, hence strong
fairness of `Lock` per waiter. The heartbeat of a connected inverter gets through
(`WF(Beat)`) and a reconnect does not fail for ever while somebody answers (`SF(Dial)`):
without these, nothing would ever be controlled. No fairness is assumed of users, the app,
lapses, link losses or refusals; where a property needs them to end, it says so in its
premise (`Untouched`, `ControlIsKept`, `TheConfiguredIsAccepted`). In ReadPlan every request is
answered or times out (`Requests`) and polls are started again; nothing is assumed of the
firmware, listeners or links. In ControlTest the run goes on after each await
(`WF(Step)`); nothing is assumed of the manager, the windows, failures or cancellations.
EnergyTotals and ReadingChecks have safety only.

## 5. The proofs

All theorems are about `Spec` for every value of the constants that satisfies the named
assumptions of the module.

- `HeartbeatProofs`. `TypeOK` and `Consistent` (each writer is where lock and stage say,
  every age the code goes by is at least the inverter's) are inductive and give
  `InControlIsGranted`. `AMissedWriteKeepsControl` is not inductive: it needs `OnSchedule`,
  the latest age at which each stage of a write can find the window, as a function of how
  many writes were missed and how many attempts this one has spent; the last of those bounds
  fits into the window by `AMissedWriteFits`. `SpecImplementsLease` maps every step to a step
  of the lease or to none.
- `ControlLoopProofs`. `BaseInv` says of every task where it stands and that the queue of the
  link holds exactly those that wait for it, once each; that alone gives
  `SetpointsNeedAuthority` (whoever queues a setpoint has just been granted the authority) and,
  as a step property, `OnlyTheWordSettles`, under every trouble. `NoModeWhileOff` needs
  `OffInv`: a task in the middle of switching off has `enabled` false, whatever commands and
  polls do meanwhile. `SettledIsFollowedInCalm` is the one that takes a real strengthening,
  `Calm`: one task at a time, and for the one there is (`CalmJob`), the inverter is still on
  the old method until the word goes out, and has the setpoint the word needs when it does.
- `SocGuardsProofs`. Every action but saving and restarting changes the latches through
  `Work`, so one lemma about it carries `StopsAreGuarded` and `LimitsAreKept`; the stored
  latches have to be as sound as those in use, which is the strengthening. `UpdateHolds`
  gives `StopsDoNotFlicker`, for every 1 <= Return <= Hysteresis.
- `ExportProofs`, about what leaves the house. GridFeed: `Kept` and `HalfDone` say what is
  remembered and what a turn has done so far; with `FramesAreCurrent` they are inductive when
  there are no races, and give `OwnSettingsAreNotLost` and `TurnsAreExact`. ModeSteps: the
  step of the deficit never has to wait; that its cooldown stays zero (`StepsInv`) is
  inductive and gives `TheWalkEnds`, and with what the zones mean, `NeedIsServedAtOnce`.
  `WaitsInv` says of every other step that its wait is a function of how often in a row it
  was brief, which takes the doubling up to the longest wait (`DoubledGrows`) and gives
  `BriefStepsWaitLonger`.
- `PollProofs`, about what a poll trusts. Connection: the verdict and the block change
  together; `OwnLink` says that on a link only a poll opens, once verified, the link is up to
  the expected inverter until it drops and then stays down until the next poll, and all a poll
  has read came over it; `KeyIsPinned`, that the serial an entry is keyed by is never another
  than the one pinned. That gives `ShownIsTheConfigured`. ReadingChecks: `ChecksInv` ties the
  counts to the history of the last polls: `PollsCount` says that a count is the length of
  the unbroken run at the end of the window, `FirstHolds` that what is shown is the first
  check whose count is full, and the two give `TheHeldFailureIsShown`. `Times` bounds when a
  count began by the last poll without a failure of its status (`SinceItBegan`); `Learned`
  carries what was stored over a restart (`AnOutageOutlastsARestart`,
  `ADropToZeroIsDistrusted`); `Announced` is `EventsAreTrue`. ReadPlan, in two steps. What
  `plan_blocks` makes of any set of registers (`PlanIsGood`): `GroupBySteps` unrolls the fold
  of `Group` into one state per register, `UpTo` is the induction over them (from the least
  number for which something fails), and what it carries, `Grouped`, is that every register
  of a read is `Tight`: it joins those before it. That alone bounds a read and keeps it off
  the heartbeat register (`TightIsOneRead`), and makes a read of optional registers one read
  whenever it is grouped again (`TightIsOneGroup`). Then `PlanInv`, what every step keeps: the
  plan is good for what is asked for and not given up, whoever replans in mid-poll; the
  blocks a poll has left are apart from what it gave up or is probing (`QueueHolds`) and,
  with what it has read, still hold the required registers (`ReadOrLeft`), which are all read
  once an optional block comes up (`HeadCounts`); the code's count of stalls is the count of
  failures until it gives the block up (`StallsCounted`); and a register is
  given up with a tight block whose count is full (`Caused`). The three invariants of
  the run follow.
- `DecisionsProofs`. What a decision may do is a fact about `CarryOut`, proved in layers: a
  hold, the hand-back (`HandedBackObeys`), the tracked setpoint (`TrackedIsClose`),
  self-consumption one way (`OneWayIsRight`), any step (`CarryOutIsRight`). Only the last two
  need the invariant: a setpoint may be kept from an earlier decision, so that no command
  ever went out with a zero one has to be carried along. `StopsAreObeyed` and
  `SetpointsAreSound` follow for all powers, bands and times that are ordered as
  `PowersAreOrdered` and `TimesAreOrdered` say. `AdvanceHelps` follows the hand-back through
  its phases and gives `HandedBackWhileItHelps`; a comparison of `CarryOut` with and without
  the guards gives `GuardsDoNotWait`.
- `EnergyTotalsProofs`. What is published is the baseline the next read is judged by
  (`PublishedIsTheBaseline`), and what was taken stays it (`TakenIsTheBaseline`); with the
  types and `Timed` (no acceptance or hold lies in the future) these are inductive. A lemma
  about `Published` says that whatever the verdict, the total is not less than a baseline
  that anchors it. They give `PublishedTotalsNeverFall` and `TakenTotalsCountOn`.
  `HonestCountersAreShown` rests on `HonestInv`: since the reads are honest (`clean`), the
  total stands in one of three ways to the counter (`Followed`: shown, a first read over a 0,
  held since an acceptance no later than `clean`), and each verdict leads from one of them to
  one of them; the total is above 0 once accepted (`AboveZero`), which is where `mixed` and
  negative offsets are needed. `TodayAlwaysFollows` adds `DailyInv`: the dates (`Dated`), the
  snapshot a fresh poll makes (`SnapshotMade`), that it is the counter at midnight while the
  day lasts (`DailyFollows`), and what keeps the clamp of a calculated value from biting while
  a total is held over a midnight (`HeldDaily`).
- `ControlTestProofs`. `Remembers` (a run that has written knows what it found), `Obeys` (a
  cancelled one is on its way back), `Cleans` (how far a clean-up has come: zeros for the
  keys already written, then the setpoints found) and `Releases` are inductive together,
  with one lemma for each, and give `ReleasedInTheEnd`, `CancelIsObeyed` and `LeftAsFound`.
  `Cleans` is the strengthening that matters: that a clean-up with every write accepted ends
  where the run began needs to know at every await in it which setpoints are still to come.
  `SpecVerdictsAreEarned` needs another invariant, `EarnInv`: while nothing fails the command
  of the test at hand is in force at each stage of it, a decisive plan asks for a power that
  does not flow by itself (the lemmas about `PickDecisive`), and so the streak of polls on
  target is full or empty.

Every assumption used is a named ASSUME of the component's module, which TLC evaluates in its
runs. Only model-checked: all liveness properties (fairness and ENABLED are outside the
prover), and with them ReadPlan's `PollsGoOnSucceeding`, and what is said of ModePowers. Induction over data is done by hand where it is needed, since the library's
induction theorems cannot be instantiated: from a least counterexample (`LeastNumber`,
`UpTo`), for a property written as a set.

## 6. Where the code departs from what it says

Each of these is shown by TLC; the first five with a configuration kept here, to be run as
`tlc -config MCX....cfg MCX.tla`, which ends in the violation named.

- `MCControlLoopWritesOff.cfg` (`NothingIsWrittenWhenOff`): a reconnect marks the command
  stale although Modbus Control is off (`mark_stale`, control.py:734), and the next poll
  writes the default method word. The comment at control.py:365 says "Nothing is written at
  all while the gate is off."
- `MCConnectionStranger.cfg` (`StrangersAreNotWritten`): after a reconnect the write block is
  what it was before the outage until the connection has settled and the serial is read
  (modbus.py:369), so a write can reach another inverter, against the docstring of
  `_check_identity` (coordinator.py:485). On a shared link a write that already waited can
  do so, too.
- `MCSocGuardsSuspect.cfg` (`SuspectFramesMoveNoGuard`): a native reserve that is followed
  (control.py:1074), or a limit changed by the user, works the guards out from readings known
  to be suspect; the comment at reading_checks.py:244 says such a frame never moves a guard.
- `MCGridFeedHalf.cfg` (`OwnSettingsAreNotLost`): a turn that allows an export the app had
  stopped, and fails after its first write, leaves settings nobody made, which the next poll
  adopts (control.py:913), against the docstring at control.py:889.
- `MCReadPlanProbe.cfg` (`PollsGoOnSucceeding`, with a firmware that refuses one optional register
  and never answers another in the same read): the refused read is probed one register at a
  time (coordinator.py:1095), the stall in the probe is not counted, and what the probe had
  found refused is lost with it, so that every later poll does the same and fails. The
  docstring of `_async_read_block` (coordinator.py:1035) says an optional block is kept from
  failing the polls.

Without a configuration of their own; where a property and a change to it are named, TLC finds
it:

- `SettledIsFollowed` of ControlLoop, with any single kind of trouble in `Troubles`: a failed
  write leaves the inverter following something else than what was committed; a window that
  closes and opens between two looks goes unseen; Battery Saver settles a stale command by
  the word alone (control.py:1837); overlapping commands are committed in another order than
  the inverter received them (control.py:1754).
- `NothingIsWrittenDuringTest`, with `{"overlap"}`: a command waiting for its authority when
  the control test begins writes into it (control.py:1808).
- `AutomaticHoldsNoSetpoint`: going from a battery mode to a feed mode, or being switched
  off, leaves a setpoint Automatic never releases (control.py:1811).
- `StrangersAreFoundOut` on a shared link (drop `~shared`): one that somebody else has
  reopened between two polls is never compared again (coordinator.py:614).
- `ChargingIsWanted` of SocGuards: Charge to Battery Reserve turned off while there is no SOC
  reading stays on (control.py:1019).
- `OwnSettingsAreNotLost` of GridFeed with `{"frames"}`, and `TurnsAreExact` with
  `{"stopped"}`: a frame read between the two writes of a turn is adopted after it
  (control.py:915); what the owner sets in the app while the switch holds the export off is
  overwritten (control.py:936).
- `TakenCountsOn` with `taken' = held.device` also while a poll is under way: a take during the
  poll's control writes is overwritten by what that poll had worked out (coordinator.py:1188),
  although the docstring says each total "continues from the inverter's value from the next
  poll on" (coordinator.py:833).
- `VerdictsAreEarned` without `Damping <= Settle`: the options allow a poll every 30 s
  (config_flow.py:272), and a test waits 60 s for its command to be followed
  (control_test_core.py:47), so that fewer polls than the three that have to agree
  (const.py:981) come in time, and a method the firmware follows is reported not followed.
- `HonestCounterIsShown` without `mixed`: a 0 baseline that an earlier version accepted holds
  the counter (energy_processor.py:258), as does a state saved in the middle of a poll, which
  has the acceptance times and the rollover of a frame whose totals it does not have
  (coordinator.py:331).
- A device that was reset under a negative offset reads at most 0 after the correction: the
  total is held and never asked about (`HeldOverADay`, coordinator.py:673).
- A snapshot made of a total that is held or missing over midnight leaves today's energy off
  until the next one, hence `made` and `clean` in `TodayFollowsTheDevice`; the clamp keeps a
  calculated value that was too high (energy_processor.py:568).
- Stalls are counted by the first address of a block (`NoteStall`, coordinator.py:1082): the
  count outlasts a firmware change, busy answers and outages, and a slow required read that
  uses the poll's budget up is counted against the optional block that came last. So a lost
  link, or a failure under the firmware before an update, can be the last that costs a block
  the device has, although the log says it failed polls "in a row while the rest succeeded"
  (coordinator.py:1087). `DroppedForCause` counts such failures and does not exclude this.
- `ReleasedInTheEnd` without `~cutShort`: a second cancellation while `_restore` is at an
  await skips `release()` and `end_test()` (control_test.py:300 to 309); the manager stays
  locked out until another run ends. A cancellation while a heartbeat is being stopped is
  swallowed (`async_stop` suppresses it), so the run goes on.
- `LeftAsFound` without `~spoiled`: with the window lapsed the clean-up is skipped, and the
  manager's heartbeat, restarted by `end_test`, keeps the last command of the test in force
  until the next poll (control_test.py:481).
- A measure that never comes is on target (`OnTarget`, models.py:583), so a method without
  one is "followed".
- `ADropToZeroIsDistrusted` without `level`: after a start one frame with no packs and a
  level of 0 is believed, and stays so until a real level comes (reading_checks.py:168). A
  finding that stands over a restart is announced as failed twice, with no end between
  (`Restart` forgets `announced`).

## 7. Not modelled

- The wall clock: `dt.now()` may be set back or forward; ages in Heartbeat are elapsed time.
- pymodbus and transaction ids: a request is answered, refused or fails.
- What the published data shows between a write and the next poll (coordinator.py:1310).
- The natural battery power and `_exporting_at_limit` as sums of readings: Decisions takes the
  surplus as given. Fractions of a watt: `_one_way_automatic` rounds, so the setpoint is the
  whole number below.
- `_update_deviation` (how well a setpoint is met) and all logging and wording. The verdict on
  one reading (`deviation_state`) is in ControlTest as far as it is ACTIVE.
- Energy: counters that reset daily, totals calculated from several others and the migration
  of state files; each counter is validated by itself, so one stands for all.
- The control test's report: modes seen, trace samples, comparison of two reports; a
  cancellation before the first frame, which leaves the state "running".
- Reading checks: a check that raises (reading_checks.py:279), which passes the poll, and the
  readings kept of a failed one (coordinator.py:765).
- Telemetry: decoding and arithmetic on one frame.
- Set-up, configuration flows, entities, repairs, diagnostics, logbook, services: they call
  the operations above or present state kept elsewhere.
- `scripts/`: developer tools outside the integration.
