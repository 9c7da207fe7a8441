------------------------------- MODULE Engine -------------------------------
(***************************************************************************)
(* The policy engine of the daemon (daemon/src/stg/engine.py) together     *)
(* with the rows of the SQLite database it reads and writes (storage.py).  *)
(*                                                                         *)
(* One step is one handler: the service calls the engine under a lock and  *)
(* without awaiting, so a handler is atomic for every other handler.  It   *)
(* is not atomic for a crash: each storage call commits on its own, so     *)
(* Crash may happen between any two of the commits of a handler.           *)
(*                                                                         *)
(* A handler is a function on the record                                   *)
(*    s = [mem |-> engine object, db |-> database, out |-> events returned]*)
(* composed of the same parts, in the same order, as the method.           *)
(*                                                                         *)
(* Time is counted in abstract units.  The calendar is a table of the      *)
(* configuration (which accounting day an instant belongs to, when a day   *)
(* starts, its limit, the instants of the allowed periods): time zone,     *)
(* reset clock and weekday enter the engine only through those tables.     *)
(***************************************************************************)
EXTENDS Integers, Sequences, FiniteSets

CONSTANTS
    None,            \* no game, no open session row, no limit, no process
    Games,           \* identities of games, equal when _same_game says so
    MaxWall,         \* last instant of the wall clock that is modelled
    MaxMono,         \* last value of CLOCK_MONOTONIC that is modelled
    WallTargets,     \* instants the wall clock may be set to
    MaxTickGap,      \* longest time the tick loop lets pass between ticks
    Days,            \* accounting days (day keys)
    Config,          \* the configurations, by name
    ClockTolerance,  \* wall/monotonic discrepancy that is still "reliable"
    SuspendGap,      \* discrepancy that is taken for a suspend
    RetentionSpan,   \* history.retention_days, in units of time
    MinTimer,        \* 60 seconds
    MaxTimer,        \* 24 hours
    TimerDurations,  \* arguments of timer.start
    TimerActions,    \* its action arguments
    Adjustments,     \* arguments of timer.adjust
    Grants,          \* arguments of daily.grant
    MaxAdjustment    \* bound on the sum of one day's adjustments

Wall     == 0 .. MaxWall
Profiles == DOMAIN Config
Actions  == {"inherit", "notify_only", "soft", "close", "block"}

ConfigType ==
    [accounting_day : [Wall -> Days],
     day_start      : [Days -> Int],
     limit          : [Days -> Nat \cup {None}],
     allowed        : SUBSET Wall,
     level          : 0 .. 3,
     count_only     : BOOLEAN,
     thresholds     : SUBSET (Nat \ {0}),
     notify_zero    : BOOLEAN,
     checkpoint     : Nat \ {0}]

ASSUME ClockAssumption ==
    /\ MaxWall \in Nat /\ MaxMono \in Nat /\ MaxTickGap \in Nat \ {0}
    /\ ClockTolerance \in Nat /\ SuspendGap \in Nat /\ WallTargets \subseteq Wall

ASSUME ConfigAssumption == \A p \in Profiles : Config[p] \in ConfigType

ASSUME TimerAssumption ==
    /\ MinTimer \in Nat \ {0} /\ MaxTimer \in Nat /\ MinTimer <= MaxTimer
    /\ TimerDurations \subseteq Nat /\ TimerActions \subseteq Actions
    /\ Adjustments \subseteq Int

ASSUME GrantAssumption == Grants \subseteq Int /\ MaxAdjustment \in Nat

\* The modelled horizon is shorter than the retention period, so that
\* enforce_retention finds no row older than its cutoff.
ASSUME RetentionAssumption == RetentionSpan \in Nat /\ RetentionSpan > MaxWall

-----------------------------------------------------------------------------
VARIABLES
    wall,   \* clock.now_utc()
    mono,   \* clock.monotonic()
    cfg,    \* name of the configuration in force (also the one on disk)
    mem,    \* the GuardianEngine object; None while the service is not running
    db,     \* what the database holds
    out     \* the events the last handler returned

vars == <<wall, mono, cfg, mem, db, out>>

TimerStates == {"idle", "running", "paused", "expired"}
Reasons     == {"none", "daily_limit", "timer_expired", "outside_allowed_period"}
Timer       == [state : TimerStates, remaining : 0 .. MaxTimer, action : Actions]
IdleTimer   == [state |-> "idle", remaining |-> 0, action |-> "inherit"]
NoSeconds   == [d \in Days |-> 0]

Mem ==
    [day_key          : Days,
     played_today     : Nat,
     game             : Games \cup {None},
     session_duration : Nat,
     timer            : Timer,
     suspended        : BOOLEAN,
     reason           : Reasons,
     level            : 0 .. 3,
     tick_mono        : Nat,
     tick_wall        : Wall,
     checkpoint_mono  : Nat,
     persist_mono     : Nat,
     pending          : [Days -> Nat]]

SessionRow == [day : Days, duration : Nat]

\* closed[d] is the sum of the durations of the closed sessions of day d and
\* open the row without ended_at.  Marks of the timer are those of its current
\* generation: a generation is never used again once replaced.
Db ==
    [closed      : [Days -> Nat],
     open        : SessionRow \cup {None},
     adjustment  : [Days -> Int],
     timer       : Timer,
     daily_marks : [Days -> SUBSET Nat],
     timer_marks : SUBSET Nat,
     buckets     : [Days -> Nat]]

\* None is no value of any kind it stands beside.
ASSUME NoneAssumption ==
    None \notin Games /\ None \notin Int /\ None \notin SessionRow /\ None \notin Mem

Kinds ==
    {"game.started", "game.stopped", "game.metadata_updated", "session.rotated_at_daily_reset",
     "session.recovered", "daily.reset", "daily.adjusted", "config.updated",
     "timer.started", "timer.paused", "timer.resumed", "timer.cancelled",
     "timer.adjusted", "timer.expired", "timer.paused_after_restart",
     "system.suspended", "system.resumed", "system.suspend_inferred",
     "system.resume_inferred", "clock.changed", "enforcement.new_game_blocked",
     "enforcement.game_started_while_restricted"}

Event ==
    [kind : Kinds]
    \cup [kind : {"notification.warning"}, scope : {"timer", "daily"},
          threshold : Nat]
    \cup [kind : {"restriction.cleared", "allowance.exhausted",
                  "restriction.activated"},
          reason : Reasons, level : 0 .. 3, notice : BOOLEAN]

TypeOK ==
    /\ wall \in Wall
    /\ mono \in Nat
    /\ cfg \in Profiles
    /\ mem \in Mem \cup {None}
    /\ db \in Db
    /\ out \in Seq(Event)

Emit(s, e) == [s EXCEPT !.out = Append(@, e)]
Note(s, kind) == Emit(s, [kind |-> kind])

-----------------------------------------------------------------------------
(* Storage *)

close_session(d, duration) ==
    IF d.open = None
    THEN d
    ELSE [d EXCEPT !.closed[d.open.day] = @ + duration, !.open = None]

open_session(d, day) == [d EXCEPT !.open = [day |-> day, duration |-> 0]]

checkpoint_session(s) ==
    [s EXCEPT !.db.open.duration = s.mem.session_duration]

\* Faulty variant: the row of the open session is not part of the sum.
usage_for_day_closed_only(d, day) == d.closed[day]

usage_for_day(d, day) ==
    d.closed[day] + IF d.open # None /\ d.open.day = day THEN d.open.duration ELSE 0

save_timer(s) == [s EXCEPT !.db.timer = s.mem.timer]

-----------------------------------------------------------------------------
(* Allowance, restriction and warnings *)

Max0(n) == IF n > 0 THEN n ELSE 0

\* The base limit is that of the day `now' falls in, the adjustments are those
\* of the engine's day_key; the two differ before a roll-over.
EffectiveLimit(s, c) ==
    LET base == c.limit[c.accounting_day[wall]]
    IN  IF base = None THEN None ELSE Max0(base + s.db.adjustment[s.mem.day_key])

ActionLevel(action, configured) ==
    CASE action = "inherit"     -> configured
      [] action = "notify_only" -> 0
      [] action = "soft"        -> 1
      [] action = "close"       -> 2
      [] action = "block"       -> 3

Exhausted(s, c) ==
    LET limit == EffectiveLimit(s, c)
    IN  limit # None /\ s.mem.played_today >= limit

ReasonOf(s, c) ==
    IF s.mem.timer.state = "expired" THEN "timer_expired"
    ELSE IF Exhausted(s, c) THEN "daily_limit"
    ELSE IF wall \notin c.allowed THEN "outside_allowed_period"
    ELSE "none"

LevelOf(s, c) ==
    LET reason == ReasonOf(s, c)
    IN  IF reason = "timer_expired" THEN ActionLevel(s.mem.timer.action, c.level)
        ELSE IF reason = "none" THEN 0
        ELSE c.level

\* _refresh_restriction with emit=False
SetRestriction(s, c) ==
    [s EXCEPT !.mem = [@ EXCEPT !.reason = ReasonOf(s, c), !.level = LevelOf(s, c)]]

refresh_restriction(s, c) ==
    LET t == SetRestriction(s, c)
        r == t.mem.reason
        l == t.mem.level
    IN  IF r = s.mem.reason /\ l = s.mem.level
        THEN t
        ELSE Emit(t, [kind   |-> IF r = "none" THEN "restriction.cleared"
                                 ELSE IF l = 0 THEN "allowance.exhausted"
                                 ELSE "restriction.activated",
                      reason |-> r,
                      level  |-> l,
                      notice |-> r = "outside_allowed_period" \/ ~c.notify_zero])

warning_snapshot(s, c) ==
    LET limit == EffectiveLimit(s, c)
    IN  [day   |-> s.mem.day_key,
         daily |-> IF limit = None THEN None ELSE Max0(limit - s.mem.played_today),
         timer |-> IF s.mem.timer.state = "idle" THEN None ELSE s.mem.timer.remaining]

Due(c) == c.thresholds \cup IF c.notify_zero THEN {0} ELSE {}

Crossed(c, before, after) ==
    IF before = None \/ after = None
    THEN {}
    ELSE {t \in Due(c) : after < before /\ after <= t /\ t <= before}

Least(S) == CHOOSE n \in S : \A m \in S : n <= m

\* Every threshold crossed is marked, only the lowest new one is announced.
Announce(s, scope, new) ==
    IF new = {}
    THEN s
    ELSE Emit(s, [kind |-> "notification.warning", scope |-> scope,
                  threshold |-> Least(new)])

\* Faulty variant: a threshold already marked is announced again.
WarnTimerAgain(s, c, previous) ==
    LET crossed == Crossed(c, previous.timer, warning_snapshot(s, c).timer)
    IN  Announce([s EXCEPT !.db.timer_marks = @ \cup crossed], "timer", crossed)

WarnTimer(s, c, previous) ==
    LET now     == warning_snapshot(s, c)
        crossed == Crossed(c, previous.timer, now.timer)
    IN  Announce([s EXCEPT !.db.timer_marks = @ \cup crossed],
                 "timer", crossed \ s.db.timer_marks)

\* Faulty variant: the marks of the day are read but not written.
WarnDailyUnmarked(s, c, previous) ==
    LET now     == warning_snapshot(s, c)
        crossed == IF previous.day = now.day
                   THEN Crossed(c, previous.daily, now.daily)
                   ELSE {}
    IN  Announce(s, "daily", crossed \ s.db.daily_marks[now.day])

WarnDaily(s, c, previous) ==
    LET now     == warning_snapshot(s, c)
        crossed == IF previous.day = now.day
                   THEN Crossed(c, previous.daily, now.daily)
                   ELSE {}
    IN  Announce([s EXCEPT !.db.daily_marks[now.day] = @ \cup crossed],
                 "daily", crossed \ s.db.daily_marks[now.day])

warning_events(s, c, previous) == WarnDaily(WarnTimer(s, c, previous), c, previous)

ClearDailyMarks(s) == [s EXCEPT !.db.daily_marks[s.mem.day_key] = {}]
ClearTimerMarks(s) == [s EXCEPT !.db.timer_marks = {}]

-----------------------------------------------------------------------------
(* tick() *)

Elapsed(s) == Max0(mono - s.mem.tick_mono)

Abs(n) == IF n < 0 THEN -n ELSE n

\* How much more wall time than monotonic time passed since the last tick.
Discrepancy(s) == wall - s.mem.tick_wall - Elapsed(s)

NoteClock(s) ==
    IF Discrepancy(s) > SuspendGap
    THEN Note(Note(s, "system.suspend_inferred"), "system.resume_inferred")
    ELSE IF Abs(Discrepancy(s)) > ClockTolerance THEN Note(s, "clock.changed")
    ELSE s

\* Whether the interval since the last tick may be attributed to wall time.
Reliable(s) ==
    /\ ~s.mem.suspended
    /\ Elapsed(s) > 0
    /\ wall > s.mem.tick_wall
    /\ Abs(Discrepancy(s)) <= ClockTolerance

\* The part of n, elapsed between the instants from and to, before boundary.
SplitBefore(n, from, to, boundary) ==
    IF to <= from \/ boundary <= from THEN 0
    ELSE IF boundary >= to THEN n
    ELSE (n * (boundary - from)) \div (to - from)

Played(m, n, reliable) ==
    [m EXCEPT !.played_today = @ + n,
              !.session_duration = @ + n,
              !.pending[m.day_key] = @ + IF reliable THEN n ELSE 0]

account_game_elapsed(s, n, reliable) ==
    IF s.mem.game # None /\ n > 0
    THEN [s EXCEPT !.mem = Played(@, n, reliable)]
    ELSE s

flush_usage_buckets(s) ==
    [s EXCEPT !.db.buckets = [d \in Days |-> s.db.buckets[d] + s.mem.pending[d]],
              !.mem.pending = NoSeconds]

\* Faulty variant: the queue survives the roll-over.
RollFlushSkipped(s) == s

\* _roll_day in the order of its commits: flush, close, open, then the rest.
RollFlush(s) == IF s.mem.game = None THEN s ELSE flush_usage_buckets(s)

\* Faulty variant: the old session is closed with its last checkpoint.
RollCloseStale(s) ==
    IF s.mem.game = None
    THEN s
    ELSE [s EXCEPT !.db = close_session(@, @.open.duration)]

RollClose(s) ==
    IF s.mem.game = None
    THEN s
    ELSE [s EXCEPT !.db = close_session(@, s.mem.session_duration)]

\* Faulty variant: the new session goes on from the duration of the old one.
RollOpenContinued(s, new) ==
    IF s.mem.game = None
    THEN s
    ELSE Note([s EXCEPT !.db = open_session(@, new), !.mem.checkpoint_mono = mono],
              "session.rotated_at_daily_reset")

RollOpen(s, new) ==
    IF s.mem.game = None
    THEN s
    ELSE Note([s EXCEPT
                !.db = open_session(@, new),
                !.mem = [@ EXCEPT !.session_duration = 0, !.checkpoint_mono = mono]],
              "session.rotated_at_daily_reset")

\* Faulty variant: every roll-over starts from zero, even back to a day played on.
RollKeyFresh(s, new) ==
    Note([s EXCEPT !.mem = [@ EXCEPT !.day_key = new, !.played_today = 0]], "daily.reset")

RollKey(s, new) ==
    Note([s EXCEPT !.mem = [@ EXCEPT !.day_key = new,
                                     !.played_today = usage_for_day(s.db, new)]],
         "daily.reset")

roll_day(s, new) == RollKey(RollOpen(RollClose(RollFlush(s)), new), new)

\* The interval since the last tick, up to the day boundary it may contain.
AccountBefore(s, c) ==
    LET new == c.accounting_day[wall]
        n   == IF s.mem.suspended THEN 0
               ELSE IF new = s.mem.day_key THEN Elapsed(s)
               ELSE SplitBefore(Elapsed(s), s.mem.tick_wall, wall, c.day_start[new])
    IN  account_game_elapsed(s, n, Reliable(s))

AccountElapsed(s, c) ==
    LET new    == c.accounting_day[wall]
        before == SplitBefore(Elapsed(s), s.mem.tick_wall, wall, c.day_start[new])
        rolled == roll_day(AccountBefore(s, c), new)
    IN  IF new = s.mem.day_key THEN AccountBefore(s, c)
        ELSE IF s.mem.suspended THEN rolled
        ELSE flush_usage_buckets(
                 account_game_elapsed(rolled, Elapsed(s) - before, Reliable(s)))

TimerCounts(s, c) ==
    /\ s.mem.timer.state = "running"
    /\ ~s.mem.suspended
    /\ ~c.count_only \/ s.mem.game # None

\* Faulty variant: the remaining time is not clamped at zero.
TimerElapseUnclamped(s, c) ==
    LET left == s.mem.timer.remaining - Elapsed(s)
    IN  IF ~TimerCounts(s, c) THEN s
        ELSE IF left > 0 THEN [s EXCEPT !.mem.timer.remaining = left]
        ELSE Note(save_timer([s EXCEPT !.mem.timer =
                    [@ EXCEPT !.remaining = left, !.state = "expired"]]), "timer.expired")

TimerElapse(s, c) ==
    LET left == Max0(s.mem.timer.remaining - Elapsed(s))
    IN  IF ~TimerCounts(s, c) THEN s
        ELSE IF left > 0 THEN [s EXCEPT !.mem.timer.remaining = left]
        ELSE Note(save_timer([s EXCEPT !.mem.timer =
                    [@ EXCEPT !.remaining = 0, !.state = "expired"]]), "timer.expired")

\* Faulty variant: measured from the last tick instead of the last checkpoint.
CheckpointDueByTick(s, c) ==
    s.mem.game # None /\ mono - s.mem.tick_mono >= c.checkpoint

CheckpointDue(s, c) ==
    s.mem.game # None /\ mono - s.mem.checkpoint_mono >= c.checkpoint

CheckpointRow(s, c) == IF CheckpointDue(s, c) THEN checkpoint_session(s) ELSE s

CheckpointFlush(s, c) ==
    IF CheckpointDue(s, c)
    THEN flush_usage_buckets([s EXCEPT !.mem.checkpoint_mono = mono])
    ELSE s

\* Faulty variant: off by one.
PersistTimerLate(s, c) ==
    IF s.mem.timer.state = "running" /\ mono - s.mem.persist_mono > c.checkpoint
    THEN save_timer([s EXCEPT !.mem.persist_mono = mono])
    ELSE s

PersistTimer(s, c) ==
    IF s.mem.timer.state = "running" /\ mono - s.mem.persist_mono >= c.checkpoint
    THEN save_timer([s EXCEPT !.mem.persist_mono = mono])
    ELSE s

\* Faulty variant: the monotonic baseline is forgotten.
SetBaselinesWallOnly(s) == [s EXCEPT !.mem.tick_wall = wall]

SetBaselines(s) ==
    [s EXCEPT !.mem = [@ EXCEPT !.tick_mono = mono, !.tick_wall = wall]]

\* Everything a tick writes before it looks at warnings and restrictions.
TickRecord(s, c) ==
    PersistTimer(CheckpointFlush(CheckpointRow(
        TimerElapse(AccountElapsed(NoteClock(s), c), c), c), c), c)

\* Faulty variant: the restriction is left as it was.
TickWithoutRefresh(s, c) ==
    SetBaselines(warning_events(TickRecord(s, c), c, warning_snapshot(s, c)))

Tick(s, c) ==
    SetBaselines(refresh_restriction(
        warning_events(TickRecord(s, c), c, warning_snapshot(s, c)), c))

\* The states between the commits of a roll-over, if one is due.
RollStages(s, new) ==
    IF new = s.mem.day_key
    THEN {}
    ELSE {RollFlush(s), RollClose(RollFlush(s)), roll_day(s, new)}

\* The states a tick goes through, one for each of its commits.
TickStages(s, c) ==
    LET a == AccountBefore(s, c)
        b == AccountElapsed(s, c)
        t == TimerElapse(b, c)
        r == CheckpointRow(t, c)
        f == CheckpointFlush(r, c)
        p == PersistTimer(f, c)
        w == WarnTimer(p, c, warning_snapshot(s, c))
    IN  {s, b, t, r, f, p, w} \cup RollStages(a, c.accounting_day[wall])

-----------------------------------------------------------------------------
(* The other handlers, as functions on the state their tick leaves. *)

\* Faulty variant: the queue of the session survives it.
close_current_game_unflushed(s) ==
    IF s.mem.game = None
    THEN [s EXCEPT !.mem.session_duration = 0]
    ELSE Note([s EXCEPT !.db = close_session(@, s.mem.session_duration),
                        !.mem = [@ EXCEPT !.game = None, !.session_duration = 0]],
              "game.stopped")

close_current_game(s) ==
    LET t == flush_usage_buckets(s)
    IN  IF s.mem.game = None
        THEN [s EXCEPT !.mem.session_duration = 0]
        ELSE Note([t EXCEPT !.db = close_session(@, s.mem.session_duration),
                            !.mem = [@ EXCEPT !.game = None, !.session_duration = 0]],
                  "game.stopped")

NoteRestricted(s) ==
    IF s.mem.level >= 3 THEN Note(s, "enforcement.new_game_blocked")
    ELSE IF s.mem.level = 2 THEN Note(s, "enforcement.game_started_while_restricted")
    ELSE s

OpenGame(s, g) ==
    NoteRestricted(Note(
        [s EXCEPT
            !.db = open_session(@, s.mem.day_key),
            !.mem = [@ EXCEPT !.game = g, !.session_duration = 0, !.checkpoint_mono = mono]],
        "game.started"))

set_game(s, g) ==
    LET closed == close_current_game(s)
    IN  IF s.mem.game = g THEN Note(s, "game.metadata_updated")
        ELSE IF closed.db.open # None THEN closed   \* DatabaseError: no session
        ELSE OpenGame(closed, g)

stop_game(s, c) == refresh_restriction(close_current_game(s), c)

suspend(s) ==
    IF s.mem.suspended THEN s
    ELSE Note([s EXCEPT !.mem.suspended = TRUE], "system.suspended")

resume(s, c) ==
    LET new    == c.accounting_day[wall]
        based  == SetBaselines(s)
        rolled == IF new = s.mem.day_key THEN based ELSE roll_day(based, new)
    IN  IF s.mem.suspended
        THEN Note([rolled EXCEPT !.mem.suspended = FALSE], "system.resumed")
        ELSE rolled

\* Faulty variant: the restriction is not looked at.
start_timer_unguarded(s, seconds, action) ==
    IF seconds \notin MinTimer .. MaxTimer
    THEN s
    ELSE Note(ClearTimerMarks(save_timer(
            [s EXCEPT !.mem.timer = [state     |-> "running",
                                     remaining |-> seconds,
                                     action    |-> action]])), "timer.started")

start_timer(s, seconds, action) ==
    IF s.mem.level >= 1 \/ seconds \notin MinTimer .. MaxTimer
    THEN s
    ELSE Note(ClearTimerMarks(save_timer(
            [s EXCEPT !.mem.timer = [state     |-> "running",
                                     remaining |-> seconds,
                                     action    |-> action]])), "timer.started")

\* Faulty variant: the pause is not saved.
pause_timer_unsaved(s) ==
    IF s.mem.timer.state # "running" THEN s
    ELSE Note([s EXCEPT !.mem.timer.state = "paused"], "timer.paused")

pause_timer(s) ==
    IF s.mem.timer.state # "running" THEN s
    ELSE Note(save_timer([s EXCEPT !.mem.timer.state = "paused"]), "timer.paused")

resume_timer(s) ==
    IF s.mem.level >= 1 \/ s.mem.timer.state # "paused" THEN s
    ELSE Note(save_timer([s EXCEPT !.mem.timer.state = "running"]), "timer.resumed")

cancel_timer(s, c) ==
    IF s.mem.timer.state = "idle" THEN s
    ELSE refresh_restriction(
            Note(ClearTimerMarks(save_timer([s EXCEPT !.mem.timer = IdleTimer])),
                 "timer.cancelled"), c)

\* The timer's new remaining time and the state that goes with it.
Adjusted(timer, seconds) ==
    LET sum  == timer.remaining + seconds
        left == IF sum > MaxTimer THEN MaxTimer ELSE Max0(sum)
    IN  [timer EXCEPT !.remaining = left,
                      !.state = IF left = 0 THEN "expired"
                                ELSE IF @ = "expired" THEN "paused" ELSE @]

\* Landing exactly on a threshold is a new baseline, not a crossing.
RearmTimer(s, c) ==
    [s EXCEPT !.db.timer_marks = {s.mem.timer.remaining} \cap c.thresholds]

adjust_timer(s, c, seconds) ==
    LET saved   == save_timer([s EXCEPT !.mem.timer = Adjusted(@, seconds)])
        rearmed == IF seconds > 0 THEN RearmTimer(saved, c) ELSE saved
    IN  IF s.mem.timer.state = "idle" \/ seconds = 0
        THEN s
        ELSE refresh_restriction(
                warning_events(Note(rearmed, "timer.adjusted"), c,
                               warning_snapshot(s, c)), c)

Granted(s, seconds) == [s EXCEPT !.db.adjustment[s.mem.day_key] = @ + seconds]

grant_daily_time(s, c, seconds) ==
    LET granted == Granted(s, seconds)
        rearmed == IF seconds > 0 THEN ClearDailyMarks(granted) ELSE granted
    IN  IF seconds = 0
        THEN s
        ELSE refresh_restriction(
                warning_events(Note(rearmed, "daily.adjusted"), c,
                               warning_snapshot(s, c)), c)

\* Marks of a scope whose remaining time grew are cleared.
RearmGrown(s, c, previous) ==
    LET now == warning_snapshot(s, c)
        t   == IF previous.timer # None /\ now.timer # None /\ now.timer > previous.timer
               THEN ClearTimerMarks(s) ELSE s
    IN  IF /\ previous.day = now.day
           /\ previous.daily # None
           /\ now.daily # None
           /\ now.daily > previous.daily
        THEN ClearDailyMarks(t)
        ELSE t

\* old is the configuration the snapshot was taken with, new the one stored.
update_config(s, old, new) ==
    LET previous == warning_snapshot(s, old)
        day      == new.accounting_day[wall]
        rolled   == IF day = s.mem.day_key THEN s ELSE roll_day(s, day)
        rearmed  == RearmGrown(rolled, new, previous)
    IN  Note(refresh_restriction(warning_events(rearmed, new, previous), new),
             "config.updated")

shutdown(s) ==
    LET t == IF s.mem.game = None THEN s
             ELSE close_current_game(checkpoint_session(s))
    IN  IF t.mem.timer.state = "running" THEN save_timer(t) ELSE t

\* Faulty variants: the orphan session is discarded, or left open.
RecoverSessionDiscarded(s) == [s EXCEPT !.db.open = None]

RecoverSessionIgnored(s) == s

\* GuardianEngine.__init__ on the database a previous process left.
RecoverSession(s) ==
    IF s.db.open = None THEN s
    ELSE Note([s EXCEPT !.db = close_session(@, @.open.duration)], "session.recovered")

RecoverTimer(s) ==
    IF s.mem.timer.state # "running" THEN s
    ELSE Note(save_timer([s EXCEPT !.mem.timer.state = "paused"]),
              "timer.paused_after_restart")

LoadedEngine(d, c) ==
    [day_key          |-> c.accounting_day[wall],
     played_today     |-> usage_for_day(d, c.accounting_day[wall]),
     game             |-> None,
     session_duration |-> 0,
     timer            |-> d.timer,
     suspended        |-> FALSE,
     reason           |-> "none",
     level            |-> 0,
     tick_mono        |-> mono,
     tick_wall        |-> wall,
     checkpoint_mono  |-> mono,
     persist_mono     |-> mono,
     pending          |-> NoSeconds]

Loaded(d, c) == [mem |-> LoadedEngine(d, c), db |-> d, out |-> <<>>]

boot(d, c) == SetRestriction(RecoverTimer(RecoverSession(Loaded(d, c))), c)

clear_history(s) ==
    IF s.db.open # None
    THEN s
    ELSE [s EXCEPT !.mem.played_today = 0,
                   !.db = [@ EXCEPT !.closed = NoSeconds,
                                    !.adjustment = NoSeconds,
                                    !.daily_marks = [d \in Days |-> {}],
                                    !.timer_marks = {},
                                    !.buckets = NoSeconds]]

\* The states between two commits of the handlers that follow a tick: a session
\* is checkpointed, its buckets flushed, its row closed; the timer is saved or an
\* adjustment stored and the marks are not cleared yet.
CloseStages(s) ==
    IF s.mem.game = None
    THEN {}
    ELSE {flush_usage_buckets(s), RollClose(RollFlush(s)), checkpoint_session(s),
          flush_usage_buckets(checkpoint_session(s))}

AdjustStages(s) ==
    IF s.mem.timer.state = "idle"
    THEN {}
    ELSE {save_timer([s EXCEPT !.mem.timer = Adjusted(@, n)]) : n \in Adjustments \ {0}}

\* The same, with the marks cleared and not set anew.
AdjustCut(s, seconds) ==
    ClearTimerMarks(save_timer([s EXCEPT !.mem.timer = Adjusted(@, seconds)]))

WithinBound(s, seconds) ==
    Abs(s.db.adjustment[s.mem.day_key] + seconds) <= MaxAdjustment

GrantStages(s) == {Granted(s, n) : n \in {k \in Grants \ {0} : WithinBound(s, k)}}

CrashStages(s, c) ==
    LET t == Tick(s, c)
    IN  TickStages(s, c) \cup {t}
        \cup CloseStages(t) \cup AdjustStages(t) \cup GrantStages(t)

\* config.update after it has stored the file: the tick, then the roll-over that
\* a new reset clock makes due.
UpdateStages(s, old, new) ==
    LET t == Tick(s, old)
    IN  TickStages(s, old) \cup {t} \cup RollStages(t, new.accounting_day[wall])

-----------------------------------------------------------------------------
(* The service: one action per RPC, detector event, timer or failure. *)

Running == mem # None
S       == [mem |-> mem, db |-> db, out |-> <<>>]
C       == Config[cfg]
Ticked  == Tick(S, C)

Step(t) ==
    /\ \E u \in {t} : mem' = u.mem /\ db' = u.db /\ out' = u.out
    /\ UNCHANGED <<wall, mono>>

Commit(t) == Step(t) /\ UNCHANGED cfg

Init ==
    /\ wall \in Wall
    /\ mono = 0
    /\ cfg \in Profiles
    /\ mem = None
    /\ db = [closed      |-> NoSeconds,
             open        |-> None,
             adjustment  |-> NoSeconds,
             timer       |-> IdleTimer,
             daily_marks |-> [d \in Days |-> {}],
             timer_marks |-> {},
             buckets     |-> NoSeconds]
    /\ out = <<>>

\* Both clocks advance; the tick loop bounds how long the engine goes unticked.
Advance ==
    /\ wall < MaxWall
    /\ mono < MaxMono
    /\ Running => mono + 1 - mem.tick_mono <= MaxTickGap
    /\ wall' = wall + 1
    /\ mono' = mono + 1
    /\ out' = <<>>
    /\ UNCHANGED <<cfg, mem, db>>

\* The wall clock alone moves: it is set, or the machine slept for a while.
SetWall ==
    \E w \in WallTargets \ {wall} :
        /\ wall' = w
        /\ out' = <<>>
        /\ UNCHANGED <<mono, cfg, mem, db>>

\* The tick loop, and the RPCs that tick and report (status.get, ...).
TickLoop == Running /\ Commit(Ticked)

\* A detector or the plugin reports a game, or that no game is in front.
GameReported == Running /\ \E g \in Games : Commit(set_game(Ticked, g))

GameCleared == Running /\ Commit(stop_game(Ticked, C))

Suspend == Running /\ Commit(suspend(Ticked))

Resume == Running /\ Commit(resume(Ticked, C))

\* The timer and grant RPCs.  A refused call still ticks (_engine_action).
StartTimer ==
    /\ Running
    /\ \E n \in TimerDurations, a \in TimerActions : Commit(start_timer(Ticked, n, a))

PauseTimer == Running /\ Commit(pause_timer(Ticked))

ResumeTimer == Running /\ Commit(resume_timer(Ticked))

CancelTimer == Running /\ Commit(cancel_timer(Ticked, C))

AdjustTimer == Running /\ \E n \in Adjustments : Commit(adjust_timer(Ticked, C, n))

GrantDailyTime ==
    /\ Running
    /\ \E n \in Grants :
        /\ WithinBound(Ticked, n)
        /\ Commit(grant_daily_time(Ticked, C, n))

UpdateConfig ==
    /\ Running
    /\ \E p \in Profiles : cfg' = p /\ Step(update_config(Ticked, C, Config[p]))

\* history.clear neither ticks nor refreshes the restriction.
ClearHistory == Running /\ Commit(clear_history(S))

\* The simulator's service_restart_checkpoint.
RestartCheckpoint ==
    /\ Running
    /\ Commit(IF mem.game = None THEN S ELSE checkpoint_session(S))

\* Orderly stop: what the handler leaves in the database survives.
Shutdown ==
    /\ Running
    /\ mem' = None
    /\ db' = shutdown(Ticked).db
    /\ out' = shutdown(Ticked).out
    /\ UNCHANGED <<wall, mono, cfg>>

\* The process dies, between handlers or between two commits of a handler.
Crash ==
    /\ Running
    /\ \E t \in CrashStages(S, C) : db' = t.db
    /\ mem' = None
    /\ out' = <<>>
    /\ UNCHANGED <<wall, mono, cfg>>

\* It dies in config.update, with the new configuration already on disk.
UpdateDies ==
    /\ Running
    /\ \E p \in Profiles :
        /\ cfg' = p
        /\ \E t \in UpdateStages(S, C, Config[p]) : db' = t.db
    /\ mem' = None
    /\ out' = <<>>
    /\ UNCHANGED <<wall, mono>>

\* It dies in timer.adjust, between clearing the marks and setting them anew.
AdjustDies ==
    /\ Running
    /\ Ticked.mem.timer.state # "idle"
    /\ \E n \in {k \in Adjustments : k > 0} : db' = AdjustCut(Ticked, n).db
    /\ mem' = None
    /\ out' = <<>>
    /\ UNCHANGED <<wall, mono, cfg>>

Boot == ~Running /\ Commit(boot(db, C))

\* It dies again on the way up, with the orphan session closed and no more.
BootDies ==
    /\ ~Running
    /\ db' = RecoverSession(Loaded(db, C)).db
    /\ out' = <<>>
    /\ UNCHANGED <<wall, mono, cfg, mem>>

Next ==
    \/ Advance \/ SetWall \/ TickLoop
    \/ GameReported \/ GameCleared \/ Suspend \/ Resume
    \/ StartTimer \/ PauseTimer \/ ResumeTimer \/ CancelTimer \/ AdjustTimer
    \/ GrantDailyTime \/ UpdateConfig \/ ClearHistory \/ RestartCheckpoint
    \/ Shutdown \/ Crash \/ UpdateDies \/ AdjustDies \/ Boot \/ BootDies

Spec == Init /\ [][Next]_vars

\* _tick_loop never stops while the service runs, and systemd restarts the
\* service: weak fairness of TickLoop and Boot, stated of the states they lead to.
\* A tick leaves nothing for a tick at the same instant (SecondTickIsNoop), so
\* that a loop that keeps ticking comes again and again to a state in which no
\* tick would change anything; a start leads to a running service.
TickPending == Running /\ \E t \in {Ticked} : t.mem # mem \/ t.db # db

Fairness ==
    /\ []<>~TickPending
    /\ []<>Running

-----------------------------------------------------------------------------
(* Properties *)

\* engine.py keeps the play time of the day in memory and the database keeps
\* sessions: whatever interleaving of ticks, roll-overs, clock changes, crashes
\* and restarts led here, the allowance the engine enforces is exactly the
\* closed sessions of its day plus the session it is timing, there is an open
\* row exactly while a game is timed, and it belongs to that day.
Balanced(m, d) ==
    /\ m.played_today = d.closed[m.day_key] + m.session_duration
    /\ (m.game # None) <=> (d.open # None)
    /\ d.open # None => /\ d.open.day = m.day_key
                        /\ d.open.duration <= m.session_duration
    /\ m.game = None => m.session_duration = 0

LedgerAgrees == Running => Balanced(mem, db)

\* A crash can only give timer time back and never changes what the timer is:
\* the stored row has the state and action of the timer in memory and at least
\* its remaining time, and a timer has time left exactly while it is running or
\* paused, in memory and in the database.
TimerConsistent(timer) ==
    (timer.remaining > 0) <=> (timer.state \in {"running", "paused"})

Behind(row, timer) ==
    /\ TimerConsistent(timer)
    /\ timer.state = row.state
    /\ timer.action = row.action
    /\ timer.remaining <= row.remaining

TimerRowAgrees ==
    /\ TimerConsistent(db.timer)
    /\ Running => Behind(db.timer, mem.timer)

\* What a crash gives back of the timer: what the owner has used up by now, the
\* time since the last tick included, is less than one checkpoint interval and
\* one tick interval ahead of the stored row.  A death inside a handler leaves
\* the row as it was or as that handler saved it, so it gives back no more.
Uncounted == IF TimerCounts(S, C) THEN mono - mem.tick_mono ELSE 0

RefundBounded ==
    Running => \E p \in Profiles :
        db.timer.remaining - Max0(mem.timer.remaining - Uncounted)
            < Config[p].checkpoint + MaxTickGap

\* Play time queued for the heatmap belongs to the running session and to its
\* accounting day: a roll-over leaves nothing of the old day in the queue.
QueueOfSession(m) ==
    \A d \in Days : m.pending[d] <= IF d = m.day_key THEN m.session_duration ELSE 0

PendingOfSession == Running => QueueOfSession(mem)

\* A timer starts or resumes only when the effective restriction level, judged
\* at the moment of the call and not at the last tick, is 0: a limit that ran
\* out, a timer that expired or a period that ended since then refuses it.
TimerStarts ==
    /\ Running /\ mem.timer.state # "running"
    /\ mem' # None /\ mem'.timer.state = "running"

NoStartWhileRestricted == [][TimerStarts => LevelOf(Ticked, C) = 0]_vars

\* service.py:310: "Engine actions call tick again, but the second delta is
\* zero": at an unmoved clock a tick after a tick changes and announces nothing.
SecondTickIsNoop ==
    Running => LET t == [Ticked EXCEPT !.out = <<>>] IN Tick(t, C) = t

\* start_timer and history.clear do not refresh the restriction, and time that
\* passes outdates it: whenever reason or level are not what the state and the
\* clock call for, the next tick of the service loop puts them right.
Outdated ==
    Running /\ (mem.reason # ReasonOf(S, C) \/ mem.level # LevelOf(S, C))

RestrictionCatchesUp == Outdated ~> ~Outdated

\* A session a crash left open is closed by the restart that systemd makes.
OrphanClosed == (~Running /\ db.open # None) ~> (db.open = None)

=============================================================================
