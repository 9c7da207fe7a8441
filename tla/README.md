# SteamOS Time Guardian: TLA+ verification project

SteamOS Time Guardian is a user daemon for the Steam Deck.  It detects which game
is in front, counts play time per accounting day, runs an optional countdown timer,
warns when time runs low, and restricts play (levels 0 to 3, the upper two end in
closing the game).  This directory holds TLA+ models of the daemon, the TLC
configurations that check them and the TLAPS proofs about them.

## 1. Inventory of the system

| Component | Source (daemon/src/stg unless given) | State it keeps | Operations |
|---|---|---|---|
| Policy engine | engine.py, models.py, clock.py | day key, play time of the day, current game and session, timer, suspended flag, restriction, four baselines, heatmap queue | tick, set/stop game, suspend/resume, five timer operations, grant, update_config, shutdown, start-up |
| Storage | storage.py | SQLite rows: sessions, events, adjustments, timer, notification marks, heatmap buckets | one transaction per call; open, migrate, back up, quarantine |
| Service | service.py | lock, tasks, detector queue, last plugin signals | RPC handlers, detector consumer, tick loop, dispatch of events, start/stop |
| Enforcement | enforcement.py | generation, one task | arm, cancel, grace, close request, SIGTERM, SIGKILL |
| Detectors | detectors/*.py | last state per source, priority and key of the composite | started, changed, stopped, error |
| Schedule | schedule.py | none | accounting day, its start, limit of a day, allowed periods |
| Configuration | config.py | JSON file, files set aside | load, migrate, validate, save |
| Event bus, IPC | events.py, ipc.py | bounded subscriber queues, connections | publish, subscribe, request/response, event stream |
| Decky plugin | decky-plugin/main.py, decky-plugin/src/index.tsx | bridge task, last game reported | heartbeat, foreground report, toasts, close request |
| Notifications, texts, CLI, TUI, diagnostics, paths, logging | notifications.py, i18n.py, cli.py, tui.py, ... | none that matters here | display, parsing, one-shot commands |

**How they interact.** Every RPC, detector event and turn of the tick loop takes the
service's lock, calls the engine and releases the lock without awaiting in between.
The engine writes to SQLite as it goes (each storage call commits by itself) and
returns a list of events.  The caller dispatches them *after* releasing the lock:
to the event bus (and so to the plugin), to the desktop notifier, and to the
enforcement manager, whose task later looks at the engine again.

**What is hard.** Time comes from two clocks that disagree after a suspend or a clock
change, and the day may change inside an interval, go forward or go back.  Play time
lives in memory and in rows that are written at different moments, so a crash between
two commits leaves a state no test sets up.  Three sources report games, each with its
own delay and its own gaps.  The restriction is a cached value.
Warnings must be given once although remaining time may go back up.  Dispatch and
enforcement run outside the lock.  The list of hazards is in `PROJECT.json`, each at
its line.

**What makes each part correct.**

* Engine and storage: play time is neither invented nor lost; what the engine
  enforces is what the database says; a crash costs a bounded amount; each threshold
  is announced once; timers start only when play is allowed; a restriction follows
  its causes.
* Service and enforcement: a restriction leads to enforcement of the current game; no
  process is signalled below level 2, for another game, or after a cancellation.
* Detectors: when everything is seen, the game that is timed runs and a game that runs
  is timed; a game that ended is not timed for ever.
* Schedule: every instant lies between the start of its day and the next; the countdown
  ends where the day does; an overnight period belongs to the day it begins on.
* Configuration and storage start-up: a failure, a crash or a loss of power leaves the
  owner's settings and the history on the disk, and the daemon comes to serve; a database
  is set aside only when it is damaged.
* Event bus, IPC and bridge: queues stay bounded and still deliver the newest event, the
  bridge comes back after a restart, a stop comes to its end by itself.

The code does not keep all of this: section 3 lists where it does not.

## 2. Modules

| Module | What it is |
|---|---|
| `Engine` | engine.py with the rows it reads and writes, and the service's handlers as actions |
| `PlayLedger` | abstract specification: what accounting of play time promises |
| `EngineLedger` | the refinement mapping from `Engine` to `PlayLedger` |
| `EngineAudit` | `Engine` with an observer: active time, warnings heard |
| `EngineFaults` | `EngineAudit` with database writes that fail in a tick |
| `EngineProofs` | the inductive invariant of `Engine`: types, ledger, heatmap queue, timer row |
| `EngineTimerProofs` | what each part of a handler leaves alone; how far the timer's row is behind, when a timer may start, a tick after a tick |
| `EngineLedgerProofs` | `Engine` implements `PlayLedger`; how much counted time a crash can lose; no time is created or lost |
| `EngineWarningProofs` | no warning is given twice |
| `Enforcement` | dispatch of events outside the lock (service.py) and the enforcement flow (enforcement.py) |
| `EnforcementProofs` | theorems about `Enforcement` |
| `Detection` | log follower, scan of /proc, arbitration, reports of the plugin, consumer |
| `DetectionProofs` | theorems about `Detection` |
| `Schedule` | schedule.py in a zone whose clock is changed once |
| `ScheduleProofs` | theorems about `Schedule` |
| `ConfigStore` | load, save and update of the configuration file |
| `Database` | opening, migrating, setting aside and closing the database |
| `Daemon` | start, service and stop of the process, event bus and bridge; composes `ConfigStore` and `Database` |
| `DaemonProofs` | theorems about `Daemon` and its two parts |
| `MCLedger`, `MCTimer`, `MCPolicy`, `MCOvercount`, `MCEnforcement`, `MCDetection`, `MCSchedule`, `MCDaemon` | instances for TLC |

### State and actions of `Engine`

`mem` is the `GuardianEngine` object (or `None` when the process is not running), `db`
what the tables hold, `out` the events the last handler returned, `cfg` the name of
the configuration (in memory and on disk), `wall` and `mono` the two clocks.

| Model | Code |
|---|---|
| `mem.day_key`, `played_today`, `game`, `session_duration`, `timer`, `suspended` | attributes of the same names (`current_game`) |
| `mem.reason`, `level` | `restriction_reason`, `restriction_level` |
| `mem.tick_mono`, `tick_wall`, `checkpoint_mono`, `persist_mono` | `_last_tick_mono`, `_last_tick_wall`, `_last_checkpoint_mono`, `_last_timer_persist_mono` |
| `mem.pending`, `db.buckets` | `_pending_usage_buckets`, table usage_buckets, summed per day |
| `db.closed[d]`, `db.open` | sum of the closed sessions of day d, the row with no ended_at |
| `db.adjustment[d]` | sum of the day's rows in daily_adjustments |
| `db.timer`, `timer_marks`, `daily_marks` | timer_state, notification_marks |

A handler is a function on the record `[mem, db, out]`, composed of the same parts in
the same order as the Python method, and keeps its name; `Tick` is the largest.  An
action applies it: `Commit(grant_daily_time(Ticked, C, n))` ticks and then grants, as
`_engine_action` does.  A refused call (DomainError) leaves the state its tick left.

*Crashes.*  Handlers are atomic to each other and not to a crash: `TickStages`,
`RollStages`, `CloseStages`, `AdjustStages`, `GrantStages` and `UpdateStages` list the
states between two commits of a handler, and `Crash`, `UpdateDies` and `BootDies`
keep the database of one of them.  `AdjustDies` is the death of timer.adjust after it has
cleared the marks and before it has set that of a threshold it landed on (`AdjustCut`);
it is an action of its own because for the observer of the warnings time has been added.

### State and actions of `Enforcement`

The asyncio loop runs one task at a time.  `turn` is the task that has it, `todo[t]`
what task t has still to dispatch, `flow` the task of `EnforcementManager` with the
phase it waits in.  `eng` keeps of the engine what dispatch and enforcement read: the
game, the reason and the level.  The actions `PolicyHandler`, `ConfigUpdated`,
`GameReported` and `GameCleared` are the handlers; `Dispatch`, `Notify` and `Notified`
are `_dispatch`, cut where it awaits notify-send; the others are `_run`, cut at its
sleeps and at the scans of /proc.  `asked` and `overlap` are history: the present game
has been asked to close, and a handler has overtaken the dispatch of another task.

* `Enforcement` does not say why a restriction comes or goes: each tick may change it
  to any reason and level.  That over-approximates `Engine`.
* The lock is taken and released without an await in between, so a handler is one step.
  `EventBus.publish` does not suspend.
* asyncio never resumes a cancelled task, so that a flow is gone when it is cancelled;
  the generation number guards the same thing a second time and is left out.
* Sleeps end at any moment.  Consecutive notifications are one.  The silencing of
  detectors by Decky is in `Detection`, the order of the steps of `stop()` in `Daemon`.

### State and actions of `Detection`

Steam is external: `listed` is its running list, `procs` the processes of each game;
`ProcessStarts`, `ProcessEnds` and `GameEnds` change them and write the log, `Renamed`
writes a line with another name, `Rotated` rotates the file.  `parser`, `last` and
`arbiter` are the attributes of `SteamLogParser`, `ProcfsDetector` and
`CompositeDetector`; `queue` leads to `_consume_detector`, `current` is the engine's
game with its source, `recent` is `decky_signal_is_recent`.  `plugin` has the reports
whose 750 ms run and those under way.  `ReadLog`, `Scan`, `Consume` and `ReportArrives`
are one turn of the loop or handler each.

* The arbitration handles an event in the step that emits it: it takes them first in,
  first out, and looks at nothing else.
* The scan walks /proc in a thread (procfs.py:42) and its result is compared and emitted
  when the thread is done; `Scan` does both at the moment of the walk.  Until the next
  scan the detector is behind either way, and the properties speak of settled states.
* A scan may prefer any of several games with processes and any of their names; the
  code prefers the larger number of processes.  /proc/*/environ can be read; a
  note of the repository (docs/steam-deck-validation-2026-07-22.md:122) reports a device
  on which the scan recovered nothing.
* `MainRunningApp` is one of the games that run.  Ignored names and App IDs, which only
  the scan looks at, are left out.
* `mishap` and `overlap` are history: a fault since the daemon started (lines skipped at
  a rotation, another name, the follower ended, a report lost or overtaken), and two
  games running together.  `MCDetection` does not follow a behaviour beyond a fault;
  `Restart` leads to a state that is also reached without one.

### State and actions of `ConfigStore`, `Database` and `Daemon`

`file` and `corrupt` are the configuration file and those set aside, `config` the
settings in memory, `owner` (history) what the owner asked for last and whether defaults
were written over it.  `db` and `wal` are
the database and its write-ahead log, `shelf` the databases set aside, `history` every
row ever committed.  `cstep` and `dstep` say how far load, save and open have come:
each change of the disk is a step of its own, and the process may die, or the call
raise, at each.  `Daemon` runs the two in the order of `GuardianService.__init__`,
serves, and stops in the order of `stop()`: tasks, engine, server, database.

* Settings are opaque: valid, of the older schema, rejected (`Invalid`: ConfigError or
  JSONDecodeError, after which load sets the file aside), or `Malformed`: not UTF-8, a
  section that is no object, a time zone that is no string, whose exceptions load does not
  catch.
* `SetAside(moved)`: load ignores an OSError of the move to quarantine and saves its
  defaults over a file that stayed.
* A move or a replacement of the file is durable when `save` has synchronised the
  directory.  `saving.undo` has the states of the disk a loss of power may bring back
  until then; a state comes back with what the owner had asked for in it, so that an
  update not yet acknowledged is not required to survive.
* SQLite is external: a commit goes to the log, a checkpoint moves the log to the main
  file, a log without its database is discarded.  Closing a sound database may or may
  not have emptied its log when it is set aside.
* A handler is reduced to an open or closed session, a row and an event.
* `WaitsForClients`: from Python 3.12 on `Server.wait_closed` waits for connections.
  A server that has stopped listening (`closing`) still serves the connections it has
  accepted: sessions, updates and checkpoints go on until the process ends.  `Held` is a
  stop in which only the bridge's connection is left to wait for.
* The backup before a migration is left out: nothing reads it.

### `Schedule`

Instants and local readings are numbers of slots; a zone has an offset before and one
after a transition, and a reading that occurs twice or not at all has the earlier
offset, as `ZoneInfo` has with `fold=0`.  The functions keep their names.  A second has
`Second` slots: `seconds_until_reset` truncates to whole seconds, as `int()` does.

### Abstractions of `Engine`

* Seconds are small integers.  The split of an interval at the day boundary rounds
  down where the code has floating point; what is before and after the boundary adds
  up to the interval in both.
* The clocks do not move inside a handler.
* Time zone, reset clock and weekday are tables of a configuration
  (`accounting_day`, `day_start`, `limit`, `allowed`).
* A timer generation is a fresh UUID, never used again: the marks kept are those of
  the current one, and a new timer starts with none.
* Games are equal when `_same_game` says so.  Names, texts, payloads and the log table
  `events` are left out, as is `timezone.offset_changed`, which changes nothing else.
* `enforce_retention` deletes rows older than the retention period; the modelled
  horizon is shorter (`RetentionAssumption`), so it deletes nothing here.
* Suspend and resume signals arrive from the simulator only: no detector of the
  repository sends one.  A machine that sleeps is `SetWall`: the wall clock jumps and
  the monotonic clock stands.

## 3. Runs

| Run | Specification | Shows | States, about |
|---|---|---|---|
| `ledger` | `AuditSpec` | accounting, two games, a day change, clock jumps, crashes; implements `PlayLedger` | 30,000 |
| `timer` | `FairAuditSpec` | timer, warnings, restriction by allowed period and its refresh | 44,000 |
| `policy` | `FairAuditSpec` | limits, grants, changes of configuration and reset clock; restriction catches up, orphan sessions are closed | 89,000 |
| `enforcement` | `FairSpec` | pursuit of a restricted game, no flow without cause or for a game that has gone, flows end | 763,000 |
| `detection` | `Spec` | the game that is timed runs, a game that runs is timed | 919,000 |
| `schedule` | `Spec` | accounting day, its start, countdown, allowed periods | 302,000 |
| `daemon` | `FairSpec` | settings and history kept, service resumed, stop, bridge | 259,000 |
| `overcount` | `FaultSpec` | finding 1 | stops at the violation |
| `lost` | `Spec` | finding 2 | stops at the violation |
| `stuck` | `FairSpec` | finding 3 | stops at the violation |
| `quarantine` | `Spec` | finding 4 | stops at the violation |
| `undercount` | `AuditSpec` | finding 5 | stops at the violation |

What the properties say:

* `LedgerAgrees`: play time in memory = closed sessions of the day + running session;
  an open row exactly while a game is timed.
* `PendingOfSession`: the heatmap queue belongs to the running session and its day.
* `Conservation`: recorded + unsaved + not yet ticked time = time a game was active,
  as counted by an observer (a crash forgets what was not durable).
* `LossWithinInterval`: play time counted and not stored is at most a checkpoint interval, as
  the documentation says; `undercount` refutes it.  `LossBounded`, a theorem without a run
  of its own, is the bound that holds: play time not stored, counted or not, is less than a
  checkpoint interval and two tick intervals, one for the play since the last tick, one
  because a roll-over resets the baseline before it counts the new day's slice.
* `ImplementsLedger`: `Engine` implements `PlayLedger`; only a purge removes durable
  time, a restart changes nothing.
* `TimerRowAgrees`, `RefundBounded`: the stored timer is the one in memory, with at
  least its time; and what the owner has left, the time no tick has counted yet
  included, is less than a checkpoint and a tick interval behind it.  That covers a death
  inside a handler too: it leaves the row as it was or as the handler has saved it.
* `WarnedOnce`: no threshold is announced twice in a scope unless time was added.
* `SecondTickIsNoop`: a tick after a tick at the same instant does nothing.
* `NoStartWhileRestricted`: a timer starts or resumes only if the level *at that
  moment* is 0.
* `RestrictionCatchesUp`, `OrphanClosed`: the liveness properties of the engine.
* `PursuedUnlessOvertaken`: when everything is dispatched, a game under level 2 or 3 is
  pursued or has been asked to close, provided that no handler ran while another task
  was in the middle of its dispatch (`lost` shows that the condition is needed).
* `NoFlowWithoutCause`: under the same condition no flow is left without a game or a
  reason.
* `FlowOfPresentGame`: overtaken or not, when everything is dispatched a flow pursues the
  game in front and no other: each end of a game leaves a cancellation behind.
* `EnforcementSettles`: when the service comes to rest every flow ends, overtaken or not,
  and a game still restricted has been asked to close.
* `TimedGameRuns`, `RunningGameIsTimed`: when every line, process and report has been
  seen, the timed game is one Steam lists, and if a game has processes one is timed.  The
  second excludes games that run together: the end of the one seen last ends the
  session although the other runs on.
* `DayIsInterval`, `StartLiesInDay`, `CountdownIsExact`: the accounting day, its start and
  the countdown agree; the countdown is in whole seconds, so that the day changes less than
  a second after it.  `DayIsInterval` and `CountdownIsExact` leave out a day whose reset
  clock lies inside the skipped or repeated hour (`Plain`).  In the skipped hour the day
  begins before the start `accounting_day_start` gives, against its docstring (see below);
  in the repeated hour it begins, goes back and begins again.
* `AllowedInPeriods`: a period covers the instants from its beginning, on one of its
  days, to its end.
* `SettingsKept`, `SettingsInForce`: the owner's last settings are in a file, unless load
  could not move it and wrote defaults over it, and the daemon that serves runs on those in
  its file.
* `HistoryKept`: each committed row is in the database, its log or a database set aside,
  unless a process died between moving a database and moving its log.
* `StopLeavesNothing`: a stop that ran to its end leaves neither an open session nor a
  log, unless a request was served after `engine.shutdown`, by the listening server or on
  a connection accepted before.
* `ServesInTheEnd`: a daemon that was not asked to stop comes to serve, unless its database
  is of a later version or its file is malformed.
* `StopCompletes`: a stop comes to the end of the process or to the wait for the bridge, by
  its own steps: systemd's SIGKILL is possible only in that wait.
* `NewestEventSeen`, `BridgeReturns`: a connected bridge sees the newest event, and finds a
  daemon that was restarted.

**Bounds.** Two to four units of each clock, with a day of two or three units and a
checkpoint every two, contain a day change, a checkpoint before and after it, and a
tick that comes late by `MaxTickGap`.  `MCUndercount` trades the second game
and the clock jumps for six units of the monotonic clock, so that a checkpoint, a
roll-over and the ticks after it all fit in; a tick may be three units
late there, longer than the checkpoint interval of two.  A timer of four units in `MCTimer`
is as long as a checkpoint and a tick interval together, the first refund that
`RefundBounded` excludes.  `WallTargets` contains instants before and after the reset, so
that the day goes forward and back.  Two games are enough for a
change of game; they are symmetric.  Two configurations are enough for every pair
(before, after) of limit and reset clock that `update_config` compares.  Adjustments
and grants have both signs and zero, one of them beyond the cap.  Two tasks are enough
for one to overtake another, two levels for a plan above and below the level in force.
In `Detection` one process per game, two lines and two reports let a source be behind
by the start and the end of a game; in `Schedule` a week of three days of six slots has
a day before, of and after each transition and each period; in `Daemon` two faults are a
fault and one more during its recovery, and a queue of one is full at the second event.
`VIEW` drops `out`:
no action reads it, the properties of those runs see the events in `said`, and the fairness
does not look at it, so that states that differ in `out` alone have the same successors and
the same properties.

**Fairness.** `_tick_loop` runs as long as the service does, and systemd restarts a
service that failed (`Restart=on-failure`): weak fairness of `TickLoop` and `Boot`, in the
runs `timer` and `policy`.  It is stated of states: again and again no tick is pending, and
the service runs.  Because a tick after a tick does nothing (`SecondTickIsNoop`, a theorem)
and a start leads to a running service, that is the weak fairness of the two actions.
In `Enforcement` the loop runs its ready tasks and sleeps, scans and notify-send (5 s) end: weak fairness of each task's
dispatch and of the flow.  In `Detection` the follower is woken by inotify or its
timeout, the scan by its interval, the consumer by its queue; a report that is due is
sent and served, and the signal ages.  In `Daemon` systemd restarts a process that was
not asked to stop and kills one whose stop waits for the bridge, the process
takes its own steps of starting and saving, and the bridge tries again.  The steps of a
stop are strongly fair: requests that are served meanwhile disable them for a moment (a
save is under way), but `asyncio.Lock` is first come, first served, and the other clients
open one connection per request.
Nothing else is assumed fair: no user, game, clock or handler has to act, and a
stopped daemon need not be started.  That one exception ends the loop is a hazard of
its own, outside this model.

### Findings

1. `overcount` (engine.py:216): a database write that fails inside a tick makes the
   next tick count the interval again.
2. `lost` (service.py:508): a stop or clear event that waited behind a notification
   cancels the enforcement that a later handler armed; nothing arms it again.
3. `stuck` (composite.py:39, steam_log.py:170): after a rotation the log is read from its
   end; if the removal of the game is among the lines skipped, the scan of /proc sees that
   it is gone, but what it says is dropped because the log has the higher priority.
   The same happens when the follower has failed or the game's name has changed.
4. `quarantine` (storage.py:146): a lock or a full disk while opening has a sound database
   set aside and replaced by an empty one.
5. `undercount` (engine.py:620): a crash can lose more counted time than the checkpoint
   interval of docs/limitations.md:37, because a roll-over moves the checkpoint baseline
   before it counts the slice of the new day.  The run has a tick three units late with a
   checkpoint interval of two: what is exceeded is exceeded by less than a tick interval.

Four more disagreements have no run; the models reach each of them, and the property
concerned excludes it by name, so that it says the code does nothing else of the kind.

* schedule.py:98, excluded by `Plain`: the docstring (lines 87-88) says that a reset clock in
  the skipped hour moves "to the first representable local instant after the gap".  The
  round trip keeps the offset from before the gap: a reset at 02:30, in a gap from 02:00 to
  03:00, gives 03:30, while `accounting_day` begins the day at 03:00.  For half an hour the
  present lies before the start of its own day, and a tick that splits its interval at that
  start puts all of it on the day before.
* config.py:294, excluded by `owner.lost`: docs/configuration.md:19 says "A corrupt file moves
  to `config.corrupt-<UTC>.json`, safe defaults are regenerated".  A failing move is ignored,
  and the defaults replace the file; if it was valid and only reading it failed, for a
  moment, the owner's settings are gone.
* config.py:289, excluded by `file = Malformed`: docs/troubleshooting.md:37 says "The daemon
  quarantines invalid config as `config.corrupt-*.json` and installs defaults".  load catches
  OSError, JSONDecodeError and ConfigError; UnicodeDecodeError (line 282), AttributeError
  (line 121) and TypeError (line 128) end the process with the file in place, and every
  restart, one in 3 s and so below systemd's start limit, ends the same way.
* ipc.py:67, excluded by `Held`: with Python 3.12 a stop waits for the bridge's connection and
  the bridge for the daemon, until systemd kills the process, before the database is closed.
  docs/steam-deck-validation-2026-07-22.md:271 reports it from a device.

Observations made while modelling, without a run of their own: a roll-over into a day
without allowance restricts play without any notice, because the threshold has no
earlier value to be crossed from (engine.py:512, 589); heatmap and totals are written in
two transactions, and a crash leaves more in the heatmap than in the totals
(engine.py:187, 610, 654); an expired `notify_only` timer hides the daily limit and the
allowed periods (engine.py:568); SIGKILL follows the copy of the option made when the
flow was armed (enforcement.py:198, 239); a request served after `engine.shutdown` opens a
session that only the next start closes (service.py:147).

## 4. Proofs

TLC checks the properties on small instances; the theorems state them for every value
of the constants: any configuration tables, games, days, clocks, tasks, zones, settings,
rows, lengths of the log, and any number of faults.  Every invariant and every action
property that a passing run checks is the statement of a theorem.

| Module | Theorem | Property |
|---|---|---|
| `EngineProofs` | `TypeCorrect`, `LedgerCorrect`, `QueueCorrect`, `TimerCorrect` (from `Invariance`) | `TypeOK`, `LedgerAgrees`, `PendingOfSession`, `TimerRowAgrees` |
| `EngineTimerProofs` | `RefundIsBounded`, `StartsUnrestricted`, `SecondTickIsIdle` | `RefundBounded`, `NoStartWhileRestricted`, `SecondTickIsNoop` |
| `EngineLedgerProofs` | `EngineIsLedger`, `LossIsBounded`, `TimeIsConserved` | `ImplementsLedger`, `LossBounded`, `Conservation` |
| `EngineWarningProofs` | `WarningsAreNotRepeated` | `WarnedOnce` |
| `EnforcementProofs` | `TypeCorrect`, `PursuitIsKept`, `FlowsHaveCause`, `OnlyPresentGamePursued` (from `Invariance`) | `TypeOK`, `PursuedUnlessOvertaken`, `NoFlowWithoutCause`, `FlowOfPresentGame` |
| `DetectionProofs` | `TypeCorrect`, `TimedGamesRun`, `RunningGamesAreTimed` (from `Invariance`) | `TypeOK`, `TimedGameRuns`, `RunningGameIsTimed` |
| `ScheduleProofs` | `DaysAreIntervals`, `StartsLieInTheirDays`, `CountdownsAreExact`, `PeriodsAreKept` (from `TypeCorrect`) | `DayIsInterval`, `StartLiesInDay`, `CountdownIsExact`, `AllowedInPeriods` |
| `DaemonProofs` | `TypeCorrect`, `SettingsAreKept`, `SettingsAreInForce`, `HistoryIsKept`, `StopIsClean` (from `Invariance`) | `TypeOK`, `SettingsKept`, `SettingsInForce`, `HistoryKept`, `StopLeavesNothing` |

**Assumptions.** All are named ASSUMEs of the component modules, evaluated by TLC in the
runs.  `Engine`: the clocks are naturals, the tables have their types (a checkpoint
interval is at least 1, as `validate_config` demands), a timer lasts at least
`MinTimer > 0`.  `EngineAudit`: there are finitely many days, so that they have a sum.
`Detection`: there are finitely many games, and the bounds on the log and on the reports
are naturals.  `Schedule`: a day and a week have a positive length, the two offsets of a
zone differ by less than a day, a second has a positive number of slots, reset clock and ends of periods are readings of a day.
`Enforcement`: levels are 0 to 3.  `Database`: there is at least one schema.  Everywhere
`None` or `Absent` is distinct from the values it stands beside.  Nothing is assumed of
the calendar in `Engine`: its results hold for any time zone and for days that go back.
`MaxTickGap` in `LossBounded` and `RefundBounded` is the longest time between two ticks; it
is a guard of `Advance`, not an assumption on the code.

### The inductive invariants

*Engine.*  `TypeOK` alone is not inductive: `checkpoint_session` writes to the open
row and must know that there is one, and that its duration fits.  `IInv` is the
conjunction of the four invariants; `Good(s)` says the same of a handler's state.  The
`...Type` lemmas show that each operation keeps the types, the `...Good` lemmas that
each part of a handler keeps `Good`; `Frame` serves all parts that leave the fields of
the ledger and of the timer alone.  `RollGood` passes through the state between the
closing of the old session and the re-reading of the day, where the ledger does not
hold.  A crash keeps only the database, so that `StagesGood`, `CrashGood` and
`UpdateStagesGood` need no more than its type and a consistent timer row; `BootGood`
rebuilds the rest.  `NextIInv` has one case per action.

*Timer.*  That the row is a little behind now says nothing of the next tick.  `Lagging`
ties the lag to the clocks: it is at most the time from the last checkpoint of the timer
to the last tick, and zero unless the timer runs.  A tick adds the elapsed time to both
sides and then checkpoints when the interval is reached (`TickTimer`); every other
handler leaves the timer alone or stores it (`Handles`, `StepHandles`).  `OwedBounded` is
the bound on the lag, and `GapInv` bounds the time no tick has counted.  The same lemma
gives `StartsUnrestricted`: a handler sets a timer going only if the level after its own
tick is 0, and that level is the one the state calls for, not a cached one.
`SecondTickIsIdle` needs what a tick leaves behind: `Settled` says that the baselines
and the day are those of the present, that no checkpoint is due and that the restriction
is up to date.  In a settled state each part of a tick is the identity.

*Loss.*  The same scheme for the session's row: `Trailing` bounds the unsaved time by the
time from the last checkpoint to the last tick, plus one tick interval for the roll-over
that moves the checkpoint to the present before it counts the slice of the new day
(`UnsavedBounded`); the time no tick has counted adds another.

*Conservation.*  `ConsInv` adds the equation itself to the invariant above.  What a
handler adds to the sum over all days it takes out of the time not yet ticked
(`TickTotal`); every other part leaves the total of each day alone (the `...Same`
lemmas), and a crash forgets in the observer's account what it forgets in memory.  The sum
is a fold, of which the prover knows only that some function is chosen.  `SumDefined`
shows that a function with the fold's equation exists, `SumAtOne` that changing one day's
summand changes the sum by as much, both by the smallest counterexample (`SmallestSet`).

*Warnings.*  `WarnedOnce` speaks of the past, which the database does not keep.  `Recalls`
says that whatever was announced since time was last added is marked in the database, not
only in memory: a restart reads the marks back.  A handler marks a threshold before it
announces it, so that a crash in between loses a warning and never repeats one.  Marks are
removed only when time is added or the history is cleared, and either starts the account of
what was announced anew.

*Refinement.*  `Durable` and `Counted` are the refinement mapping at a state in the middle
of a handler.  Each part of a handler goes from a state to one that it is `Below`:
neither has fallen on any day; `Below` is transitive, so the parts add up to a step
`Count` of the ledger.  A crash keeps the database of some stage: there it is enough that
what is durable has not fallen (`Kept`), which is a `Stop`.  A start counts exactly what
was durable (`RecoverSame`, `BootSame`).  Only `history.clear` maps to `Purge`.

*Enforcement.*  What the flow becomes is decided by the last of the waiting operations
that arms or cancels.  `NotOvertaken`: without an overtaking one task at most dispatches,
the last deciding operation is the one that the engine's present state asks for
(`EndsRight`), and where none decides the flow is already right (`Settled`).
`GoneGameCancelled` holds without the condition: a flow for a game that has gone has a
cancellation waiting in some task.

*Detection.*  Both properties speak of settled states only, and most states are not
settled.  `DetInv` says what is owed in every state.  `Queued` and `InOrder`: what the
waiting events will leave is what the source in charge reported, so that a stop never hits
a game it is not about.  `Followed`: of a game that Steam no longer lists, whatever the
reader knows or will be told also ends in lines it has not read.  `Sequential`: while games
run one at a time, there is a place in the unread lines before which everything has ended,
and the listed game starts there.  `Reported` and `Served`: the plugin's word is of the
present or a report is due, and with a source in charge a game is timed.  All but the
types and `Always` hold until something goes wrong; `stuck` shows that they may not
afterwards.  A turn of the reader is a fold over its lines: `Turn` lists the states in
between, and `Closes` and `Knows` are carried from line to line.  That the fold has such
states (`Feeds`) and what they satisfy is shown by the smallest counterexample
(`Smallest`).  The proof has no bound on the log: two unread lines in the run are a choice
of TLC's, and nothing depends on them.

*Schedule.*  A reading belongs to day d exactly when it lies between the reset of d and
that of d + 1 (`DayOfReading`, by division with remainder); the rest compares instants
and readings on the two sides of the transition.  The functions have no state, so that
the theorems are statements about every instant.

*Daemon.*  `SaveInv` says what the file holds at each step of a load or a save, `UndoInv`
that each state of the disk a loss of power may bring back keeps the settings too, `OpenInv`
that a log is without its database only between the two moves of a quarantine,
`PhaseInv` where the two stores are in each phase of the service, `StopInv` what a stop
has done when it comes to each of its steps.  One lemma per action.

**Only model-checked.**  Liveness under fairness is outside the prover's reach:
`RestrictionCatchesUp`, `OrphanClosed`, `EnforcementSettles`, `ServesInTheEnd`,
`StopCompletes`, `NewestEventSeen` and `BridgeReturns` are shown on the instances above
and not beyond them.

**Induction.**  The library's induction schemes have a predicate as a parameter, which the
provers cannot instantiate.  Sums and folds are treated with the theorem that a nonempty
set has a minimal element under a well-founded relation (`WFMin`), which is about sets:
the counterexamples form a set, and the smallest of them is none.

## 5. Plan

All that was planned is modelled, and what the prover can reach is proved.  Left for an
extension are the hazards of `PROJECT.json` that carry a note instead of a property: the
two transactions of heatmap and session (engine.py:654), a roll-over whose
`open_session` raises (engine.py:618), the processes signalled after the level was judged
(enforcement.py:229) and the end of the tick loop by an exception (service.py:438).

## 6. Not modelled

Translations, command line, terminal interface, diagnostics, paths and
logging are input and output without state of their own.  Reports, summaries and
exports only read.  Installation scripts are outside the program; of the systemd unit
only the restart and the timeout of a stop are used.  Left out of modelled components: deletion
by retention (the horizon is shorter), the end of the tick loop by an exception
(service.py:438), the choice of the processes to signal (it reads /proc), the override
by `--simulation`, the format and limits of RPC messages, and a roll-over whose
`open_session` raises (engine.py:618), after which every checkpoint raises.
