---------------------------- MODULE EngineProofs ----------------------------
(***************************************************************************)
(* Proofs about the engine, for every calendar, configuration, set of      *)
(* games, horizon and argument the constants of Engine admit.              *)
(*                                                                         *)
(* The handlers are functions on a state s = [mem, db, out], so the        *)
(* invariant is stated once for such a state, as Good(s), and each         *)
(* function is shown to keep it; IInv says the same of the variables.      *)
(* TypeOK is not inductive by itself: checkpoint_session writes to the row *)
(* of the running session, and that there is one follows from the ledger.  *)
(***************************************************************************)
EXTENDS Engine, WellFoundedInduction, TLAPS

State == [mem : Mem, db : Db, out : Seq(Event)]

\* A handler's state has a typed engine, database and event list.
LEMMA Parts ==
  ASSUME NEW s \in State
  PROVE  s.mem \in Mem /\ s.db \in Db /\ s.out \in Seq(Event)
BY DEF State

\* The types of the fields that the ledger and the timer are about.
LEMMA Fields ==
  ASSUME NEW s \in State
  PROVE  /\ s.mem.day_key \in Days
         /\ s.mem.played_today \in Nat
         /\ s.mem.session_duration \in Nat
         /\ s.mem.pending \in [Days -> Nat]
         /\ s.mem.timer \in Timer
         /\ s.db.closed \in [Days -> Nat]
         /\ s.db.timer \in Timer
         /\ s.db.open # None => s.db.open \in SessionRow
BY DEF State, Mem, Db

\* Replacing the engine object, the database or both keeps the type.
LEMMA SetMem ==
  ASSUME NEW s \in State, NEW m \in Mem
  PROVE  [s EXCEPT !.mem = m] \in State
BY DEF State

\* Replacing the database keeps the type.
LEMMA SetDb ==
  ASSUME NEW s \in State, NEW d \in Db
  PROVE  [s EXCEPT !.db = d] \in State
BY DEF State

\* Replacing both keeps the type.
LEMMA SetBoth ==
  ASSUME NEW s \in State, NEW d \in Db, NEW m \in Mem
  PROVE  [s EXCEPT !.db = d, !.mem = m] \in State
BY DEF State

\* An event appended to the ones a handler returns (_record_event).
LEMMA EmitType ==
  ASSUME NEW s \in State, NEW e \in Event
  PROVE  Emit(s, e) \in State
BY DEF Emit, State

\* The same for an event without details.
LEMMA NoteType ==
  ASSUME NEW s \in State, NEW k \in Kinds
  PROVE  Note(s, k) \in State
BY EmitType DEF Note, Event

\* _flush_usage_buckets keeps the type.
LEMMA FlushType ==
  ASSUME NEW s \in State
  PROVE  flush_usage_buckets(s) \in State
<1> DEFINE b == [d \in Days |-> s.db.buckets[d] + s.mem.pending[d]]
           e == [s.db EXCEPT !.buckets = b]
           m == [s.mem EXCEPT !.pending = NoSeconds]
<1>1. s.db.buckets \in [Days -> Nat] /\ s.mem.pending \in [Days -> Nat]
  BY Parts DEF Mem, Db
<1>2. b \in [Days -> Nat] /\ NoSeconds \in [Days -> Nat]
  BY <1>1 DEF NoSeconds
<1> HIDE DEF b
<1>3. e \in Db /\ m \in Mem
  BY <1>2, Parts DEF Mem, Db
<1>4. flush_usage_buckets(s) = [s EXCEPT !.db = e, !.mem = m]
  BY DEF flush_usage_buckets, b, State
<1> HIDE DEF e, m
<1> QED BY <1>3, <1>4, SetBoth

\* close_session keeps the type of the database.
LEMMA CloseType ==
  ASSUME NEW d \in Db, NEW n \in Nat
  PROVE  close_session(d, n) \in Db
<1> DEFINE f == [d.closed EXCEPT ![d.open.day] = @ + n]
<1>1. CASE d.open # None
  <2>1. d.open.day \in Days /\ f \in [Days -> Nat]
    BY <1>1 DEF Db, SessionRow
  <2> HIDE DEF f
  <2>2. [d EXCEPT !.closed = f, !.open = None] \in Db
    BY <2>1 DEF Db
  <2>3. close_session(d, n) = [d EXCEPT !.closed = f, !.open = None]
    BY <1>1 DEF close_session, f
  <2> QED BY <2>2, <2>3
<1> QED BY <1>1 DEF close_session

\* open_session keeps the type of the database.
LEMMA OpenType ==
  ASSUME NEW d \in Db, NEW day \in Days
  PROVE  open_session(d, day) \in Db
BY DEF open_session, Db, SessionRow

\* usage_for_day returns a natural number.
LEMMA UsageType ==
  ASSUME NEW d \in Db, NEW day \in Days
  PROVE  usage_for_day(d, day) \in Nat
BY DEF usage_for_day, Db, SessionRow

\* checkpoint_session writes to an existing row.
LEMMA CheckpointType ==
  ASSUME NEW s \in State, s.db.open # None
  PROVE  checkpoint_session(s) \in State
BY DEF checkpoint_session, State, Mem, Db, SessionRow

\* save_timer keeps the type.
LEMMA SaveTimerType ==
  ASSUME NEW s \in State
  PROVE  save_timer(s) \in State
BY DEF save_timer, State, Mem, Db

\* Counting play time keeps the type of the engine.
LEMMA PlayedType ==
  ASSUME NEW m \in Mem, NEW n \in Nat, NEW r \in BOOLEAN
  PROVE  Played(m, n, r) \in Mem
<1> DEFINE a == m.played_today + n
           b == m.session_duration + n
           p == [m.pending EXCEPT ![m.day_key] = @ + IF r THEN n ELSE 0]
<1>1. a \in Nat /\ b \in Nat /\ p \in [Days -> Nat]
  BY DEF Mem
<1>2. Played(m, n, r) = [m EXCEPT !.played_today = a, !.session_duration = b, !.pending = p]
  BY DEF Played, Mem
<1> HIDE DEF a, b, p
<1> QED BY <1>1, <1>2 DEF Mem

\* _account_game_elapsed keeps the type.
LEMMA AccountType ==
  ASSUME NEW s \in State, NEW n \in Nat, NEW r \in BOOLEAN
  PROVE  account_game_elapsed(s, n, r) \in State
BY Parts, SetMem, PlayedType DEF account_game_elapsed

\* The steps of _roll_day keep the type: the flush,
LEMMA RollFlushType ==
  ASSUME NEW s \in State
  PROVE  RollFlush(s) \in State
BY FlushType DEF RollFlush

\* the close of the old session,
LEMMA RollCloseType ==
  ASSUME NEW s \in State
  PROVE  RollClose(s) \in State
BY Parts, SetDb, CloseType DEF RollClose, Mem

\* the new session,
LEMMA RollOpenType ==
  ASSUME NEW s \in State, NEW day \in Days, mono \in Nat
  PROVE  RollOpen(s, day) \in State
<1> DEFINE m == [s.mem EXCEPT !.session_duration = 0, !.checkpoint_mono = mono]
           e == open_session(s.db, day)
<1>1. m \in Mem /\ e \in Db
  BY Parts, OpenType DEF Mem
<1> HIDE DEF m, e
<1>2. [s EXCEPT !.db = e, !.mem = m] \in State
  BY <1>1, SetBoth
<1>3. Note([s EXCEPT !.db = e, !.mem = m], "session.rotated_at_daily_reset") \in State
  BY <1>2, NoteType DEF Kinds
<1> QED BY <1>3 DEF RollOpen, m, e

\* the new day,
LEMMA RollKeyType ==
  ASSUME NEW s \in State, NEW day \in Days
  PROVE  RollKey(s, day) \in State
<1> DEFINE u == usage_for_day(s.db, day)
           m == [s.mem EXCEPT !.day_key = day, !.played_today = u]
<1>1. u \in Nat
  BY Parts, UsageType
<1> HIDE DEF u
<1>2. m \in Mem
  BY <1>1, Parts DEF Mem
<1> HIDE DEF m
<1>3. Note([s EXCEPT !.mem = m], "daily.reset") \in State
  BY <1>2, SetMem, NoteType DEF Kinds
<1> QED BY <1>3 DEF RollKey, m, u

\* and all of them.
LEMMA RollType ==
  ASSUME NEW s \in State, NEW day \in Days, mono \in Nat
  PROVE  roll_day(s, day) \in State
BY RollFlushType, RollCloseType, RollOpenType, RollKeyType DEF roll_day

\* Setting the tick's baselines keeps the type.
LEMMA BaselinesType ==
  ASSUME NEW s \in State, wall \in Wall, mono \in Nat
  PROVE  SetBaselines(s) \in State
BY DEF SetBaselines, State, Mem

\* _effective_daily_limit is a number of seconds or no limit.
LEMMA LimitType ==
  ASSUME NEW s \in State, NEW c \in ConfigType, wall \in Wall
  PROVE  EffectiveLimit(s, c) \in Nat \cup {None}
<1>1. c.accounting_day[wall] \in Days /\ s.mem.day_key \in Days
  BY Parts DEF ConfigType, Mem
<1>2. c.limit[c.accounting_day[wall]] \in Nat \cup {None}
  BY <1>1 DEF ConfigType
<1>3. s.db.adjustment[s.mem.day_key] \in Int
  BY <1>1, Parts DEF Db
<1> QED BY <1>2, <1>3 DEF EffectiveLimit, Max0

\* The reason and level computed by _refresh_restriction are typed.
LEMMA RestrictionType ==
  ASSUME NEW s \in State, NEW c \in ConfigType
  PROVE  SetRestriction(s, c) \in State
<1> DEFINE r == ReasonOf(s, c)
           l == LevelOf(s, c)
           m == [s.mem EXCEPT !.reason = r, !.level = l]
<1>1. r \in Reasons
  BY DEF ReasonOf, Reasons
<1>2. s.mem.timer.action \in Actions /\ c.level \in 0 .. 3
  BY Parts DEF Mem, Timer, ConfigType
<1>3. l \in 0 .. 3
  BY <1>2 DEF LevelOf, ActionLevel, Actions
<1> HIDE DEF r, l
<1>4. m \in Mem
  BY <1>1, <1>3, Parts DEF Mem
<1> HIDE DEF m
<1>5. [s EXCEPT !.mem = m] \in State
  BY <1>4, SetMem
<1> QED BY <1>5 DEF SetRestriction, m, r, l

\* _refresh_restriction, with its event, keeps the type.
LEMMA RefreshType ==
  ASSUME NEW s \in State, NEW c \in ConfigType
  PROVE  refresh_restriction(s, c) \in State
<1> DEFINE t == SetRestriction(s, c)
           e == [kind   |-> IF t.mem.reason = "none" THEN "restriction.cleared"
                                 ELSE IF t.mem.level = 0 THEN "allowance.exhausted"
                                 ELSE "restriction.activated",
                      reason |-> t.mem.reason,
                      level  |-> t.mem.level,
                      notice |-> t.mem.reason = "outside_allowed_period" \/ ~c.notify_zero]
<1>1. t \in State
  BY RestrictionType
<1> HIDE DEF t
<1>2. t.mem.reason \in Reasons /\ t.mem.level \in 0 .. 3
  BY <1>1, Parts DEF Mem
<1>3. e \in Event
  BY <1>2 DEF Event
<1> HIDE DEF e
<1>4. Emit(t, e) \in State
  BY <1>1, <1>3, EmitType
<1> QED BY <1>1, <1>4 DEF refresh_restriction, e, t

-----------------------------------------------------------------------------
(* The invariant of a state between two parts of a handler. *)

Good(s) ==
    /\ s \in State
    /\ Balanced(s.mem, s.db)
    /\ QueueOfSession(s.mem)
    /\ TimerConsistent(s.db.timer)
    /\ Behind(s.db.timer, s.mem.timer)

\* All that Balanced and QueueOfSession read, and all that the timer's part reads.
LedgerPart(s) ==
    <<s.mem.day_key, s.mem.played_today, s.mem.game, s.mem.session_duration,
      s.mem.pending, s.db.closed, s.db.open>>

TimerPart(s) == <<s.mem.timer, s.db.timer>>

\* A part of a handler that writes neither ledger nor timer keeps Good.
LEMMA Frame ==
  ASSUME NEW s, Good(s), NEW t \in State,
         LedgerPart(t) = LedgerPart(s), TimerPart(t) = TimerPart(s)
  PROVE  Good(t)
BY DEF Good, LedgerPart, TimerPart, Balanced, QueueOfSession

\* Returning an event keeps Good.
LEMMA EmitGood ==
  ASSUME NEW s, Good(s), NEW e \in Event
  PROVE  Good(Emit(s, e))
BY EmitType, Frame DEF Emit, Good, State, LedgerPart, TimerPart

\* Returning an event without details keeps Good.
LEMMA NoteGood ==
  ASSUME NEW s, Good(s), NEW k \in Kinds
  PROVE  Good(Note(s, k))
BY EmitGood DEF Note, Event

\* _flush_usage_buckets empties the queue and keeps Good.
LEMMA FlushGood ==
  ASSUME NEW s, Good(s)
  PROVE  Good(flush_usage_buckets(s))
<1>1. flush_usage_buckets(s) \in State /\ s \in State
  BY FlushType DEF Good
<1>2. /\ flush_usage_buckets(s).mem = [s.mem EXCEPT !.pending = NoSeconds]
      /\ flush_usage_buckets(s).db.closed = s.db.closed
      /\ flush_usage_buckets(s).db.open = s.db.open
      /\ flush_usage_buckets(s).db.timer = s.db.timer
  BY <1>1 DEF flush_usage_buckets, State, Db
<1> QED BY <1>1, <1>2 DEF Good, Balanced, QueueOfSession, NoSeconds, Mem, State

\* _account_game_elapsed adds the same time to the day and to the session.
LEMMA AccountGood ==
  ASSUME NEW s, Good(s), NEW n \in Nat, NEW r \in BOOLEAN
  PROVE  Good(account_game_elapsed(s, n, r))
<1> DEFINE t == account_game_elapsed(s, n, r)
<1>1. t \in State /\ s \in State
  BY AccountType DEF Good
<1>2. CASE s.mem.game # None /\ n > 0
  <2>1. t.db = s.db /\ t.mem = Played(s.mem, n, r)
    BY <1>1, <1>2 DEF account_game_elapsed, State
  <2>2. s.mem \in Mem /\ s.db \in Db
    BY <1>1, Parts
  <2>3. /\ t.mem.day_key = s.mem.day_key
        /\ t.mem.game = s.mem.game
        /\ t.mem.timer = s.mem.timer
        /\ t.mem.played_today = s.mem.played_today + n
        /\ t.mem.session_duration = s.mem.session_duration + n
    BY <2>1, <2>2 DEF Played, Mem
  <2>4. \A d \in Days : t.mem.pending[d] <= s.mem.pending[d] + IF d = s.mem.day_key THEN n ELSE 0
    BY <2>1, <2>2 DEF Played, Mem
  <2> HIDE DEF t
  <2>5. Balanced(t.mem, t.db)
    BY <1>1, <1>2, <2>1, <2>3, Fields DEF Good, Balanced, SessionRow
  <2>6. QueueOfSession(t.mem)
    BY <1>1, <2>3, <2>4, Fields DEF Good, QueueOfSession
  <2>7. Good(t)
    BY <1>1, <2>1, <2>3, <2>5, <2>6 DEF Good
  <2> QED BY <2>7 DEF t
<1> QED BY <1>1, <1>2 DEF account_game_elapsed

\* The state in the middle of _roll_day, once the new session is open.
LEMMA RollOpened ==
  ASSUME NEW s, Good(s), NEW day \in Days, mono \in Nat
  PROVE  LET t == RollOpen(RollClose(RollFlush(s)), day)
         IN  /\ t \in State
             /\ t.mem.session_duration = 0
             /\ \A d \in Days : t.mem.pending[d] = 0
             /\ t.mem.game = s.mem.game
             /\ t.mem.timer = s.mem.timer
             /\ t.db.timer = s.db.timer
             /\ t.db.open = IF s.mem.game = None THEN None
                            ELSE [day |-> day, duration |-> 0]
<1> DEFINE a == RollFlush(s)
           b == RollClose(a)
           t == RollOpen(b, day)
<1>1. a \in State /\ b \in State /\ t \in State /\ s \in State
  BY RollFlushType, RollCloseType, RollOpenType DEF Good
<1>2. CASE s.mem.game = None
  <2>1. a = s /\ b = s /\ t = s
    BY <1>2 DEF RollFlush, RollClose, RollOpen
  <2>2. s.mem.session_duration = 0 /\ s.db.open = None
    BY <1>2 DEF Good, Balanced
  <2>3. \A d \in Days : s.mem.pending[d] = 0
    BY <2>2, <1>1, Fields DEF Good, QueueOfSession
  <2> QED BY <1>1, <1>2, <2>1, <2>2, <2>3
<1>3. CASE s.mem.game # None
  <2>1. a.mem = [s.mem EXCEPT !.pending = NoSeconds] /\ a.db.timer = s.db.timer
    BY <1>1, <1>3 DEF RollFlush, flush_usage_buckets, State, Db
  <2>2. a.mem.game = s.mem.game /\ a.mem.timer = s.mem.timer /\ a.mem.pending = NoSeconds
    BY <1>1, <2>1, Parts DEF Mem
  <2> HIDE DEF a
  <2>3. b.mem = a.mem /\ b.db = close_session(a.db, a.mem.session_duration)
    BY <1>1, <1>3, <2>2 DEF RollClose, State
  <2>4. b.db.timer = a.db.timer
    BY <1>1, <2>3, Parts DEF close_session, Db
  <2> HIDE DEF b
  <2>5. /\ t.mem = [b.mem EXCEPT !.session_duration = 0, !.checkpoint_mono = mono]
        /\ t.db = open_session(b.db, day)
    BY <1>1, <1>3, <2>2, <2>3 DEF RollOpen, Note, Emit, State
  <2>6. /\ t.mem.session_duration = 0
        /\ t.mem.pending = NoSeconds
        /\ t.mem.game = s.mem.game
        /\ t.mem.timer = s.mem.timer
    BY <1>1, <2>2, <2>3, <2>5, Parts DEF Mem
  <2>7. t.db.open = [day |-> day, duration |-> 0] /\ t.db.timer = s.db.timer
    BY <1>1, <2>1, <2>4, <2>5, Parts DEF open_session, Db
  <2>8. t.mem.pending[1] = t.mem.pending[1] /\ \A d \in Days : NoSeconds[d] = 0
    BY DEF NoSeconds
  <2> QED BY <1>1, <1>3, <2>6, <2>7, <2>8 DEF a, b
<1> QED BY <1>2, <1>3

\* _roll_day starts the new day with what the database holds of it.
LEMMA RollGood ==
  ASSUME NEW s, Good(s), NEW day \in Days, mono \in Nat
  PROVE  Good(roll_day(s, day))
<1> DEFINE t == RollOpen(RollClose(RollFlush(s)), day)
           k == RollKey(t, day)
<1>1. /\ t \in State
      /\ t.mem.session_duration = 0
      /\ \A d \in Days : t.mem.pending[d] = 0
      /\ t.mem.game = s.mem.game
      /\ t.mem.timer = s.mem.timer
      /\ t.db.timer = s.db.timer
      /\ t.db.open = IF s.mem.game = None THEN None ELSE [day |-> day, duration |-> 0]
  BY RollOpened
<1> HIDE DEF t
<1>2. k \in State
  BY <1>1, RollKeyType
<1>3. /\ k.mem = [t.mem EXCEPT !.day_key = day, !.played_today = usage_for_day(t.db, day)]
      /\ k.db = t.db
  BY <1>1 DEF RollKey, Note, Emit, State
<1>4. /\ k.mem.day_key = day
      /\ k.mem.played_today = usage_for_day(t.db, day)
      /\ k.mem.session_duration = 0
      /\ k.mem.pending = t.mem.pending
      /\ k.mem.game = s.mem.game
      /\ k.mem.timer = s.mem.timer
  BY <1>1, <1>3, Parts DEF Mem
<1>5. usage_for_day(t.db, day) = t.db.closed[day]
  BY <1>1, Fields DEF usage_for_day
<1> HIDE DEF k
<1>6. Balanced(k.mem, k.db)
  BY <1>1, <1>2, <1>3, <1>4, <1>5, NoneAssumption, Fields DEF Balanced, SessionRow
<1>7. QueueOfSession(k.mem)
  BY <1>1, <1>4 DEF QueueOfSession
<1>8. Good(k)
  BY <1>1, <1>2, <1>3, <1>4, <1>6, <1>7 DEF Good
<1> QED BY <1>8 DEF k, t, roll_day

\* _split_elapsed_at_boundary returns a part of the interval: with the
\* quotient rounded down it is neither negative nor more than the whole.
LEMMA SplitType ==
  ASSUME NEW n \in Nat, NEW from \in Int, NEW to \in Int, NEW b \in Int
  PROVE  SplitBefore(n, from, to, b) \in 0 .. n
<1>1. CASE to <= from \/ b <= from
  BY <1>1 DEF SplitBefore
<1>2. CASE ~(to <= from \/ b <= from) /\ b >= to
  BY <1>2 DEF SplitBefore
<1>3. CASE ~(to <= from \/ b <= from) /\ ~(b >= to)
  <2> DEFINE x == b - from
             y == to - from
  <2>1. x \in Nat /\ y \in Nat \ {0} /\ x <= y
    BY <1>3
  <2>2. SplitBefore(n, from, to, b) = (n * x) \div y
    BY <1>3 DEF SplitBefore
  <2> HIDE DEF x, y
  <2>3. n * x \in Nat /\ n * x <= n * y
    BY <2>1
  <2>4. (n * x) \div y \in 0 .. n
    BY <2>1, <2>3
  <2> QED BY <2>2, <2>4
<1> QED BY <1>1, <1>2, <1>3

\* A tick never sees a negative interval.
LEMMA ElapsedType ==
  ASSUME NEW s \in State, mono \in Nat
  PROVE  Elapsed(s) \in Nat
<1>1. s.mem.tick_mono \in Nat
  BY Parts DEF Mem
<1> QED BY <1>1 DEF Elapsed, Max0

\* The part of a tick's interval that falls before a day boundary.
LEMMA SplitElapsed ==
  ASSUME NEW s \in State, NEW c \in ConfigType, NEW d \in Days, wall \in Wall, mono \in Nat
  PROVE  SplitBefore(Elapsed(s), s.mem.tick_wall, wall, c.day_start[d]) \in 0 .. Elapsed(s)
<1>1. Elapsed(s) \in Nat
  BY ElapsedType
<1>2. s.mem.tick_wall \in Int /\ wall \in Int
  BY Parts, ClockAssumption DEF Mem, Wall
<1>3. c.day_start[d] \in Int
  BY DEF ConfigType
<1> QED BY <1>1, <1>2, <1>3, SplitType

\* Noting a clock change keeps Good.
LEMMA NoteClockGood ==
  ASSUME NEW s, Good(s)
  PROVE  Good(NoteClock(s))
<1>1. Good(Note(Note(s, "system.suspend_inferred"), "system.resume_inferred"))
  BY NoteGood DEF Kinds
<1>2. Good(Note(s, "clock.changed"))
  BY NoteGood DEF Kinds
<1> QED BY <1>1, <1>2 DEF NoteClock

\* The interval up to the day boundary is accounted for.
LEMMA AccountBeforeGood ==
  ASSUME NEW s, Good(s), NEW c \in ConfigType, wall \in Wall, mono \in Nat
  PROVE  Good(AccountBefore(s, c))
<1> DEFINE new == c.accounting_day[wall]
           n == IF s.mem.suspended THEN 0
                ELSE IF new = s.mem.day_key THEN Elapsed(s)
                ELSE SplitBefore(Elapsed(s), s.mem.tick_wall, wall, c.day_start[new])
<1>1. s \in State /\ new \in Days
  BY DEF Good, ConfigType
<1>2. n \in Nat
  BY <1>1, ElapsedType, SplitElapsed
<1>3. Reliable(s) \in BOOLEAN
  BY DEF Reliable
<1> HIDE DEF n
<1>4. Good(account_game_elapsed(s, n, Reliable(s)))
  BY <1>2, <1>3, AccountGood
<1> QED BY <1>4 DEF AccountBefore, n

\* The whole interval is accounted for, across a boundary too.
LEMMA AccountElapsedGood ==
  ASSUME NEW s, Good(s), NEW c \in ConfigType, wall \in Wall, mono \in Nat
  PROVE  Good(AccountElapsed(s, c))
<1> DEFINE new    == c.accounting_day[wall]
           before == SplitBefore(Elapsed(s), s.mem.tick_wall, wall, c.day_start[new])
           rest   == Elapsed(s) - before
           rolled == roll_day(AccountBefore(s, c), new)
<1>1. s \in State /\ new \in Days
  BY DEF Good, ConfigType
<1>2. rest \in Nat
  BY <1>1, ElapsedType, SplitElapsed
<1>3. Good(AccountBefore(s, c))
  BY AccountBeforeGood
<1>4. Good(rolled)
  BY <1>1, <1>3, RollGood
<1> HIDE DEF rest, rolled
<1>5. Reliable(s) \in BOOLEAN
  BY DEF Reliable
<1>6. Good(flush_usage_buckets(account_game_elapsed(rolled, rest, Reliable(s))))
  BY <1>2, <1>4, <1>5, AccountGood, FlushGood
<1> QED BY <1>3, <1>4, <1>6 DEF AccountElapsed, rest, rolled

\* Saving a consistent timer makes row and memory equal.
LEMMA SaveTimerGood ==
  ASSUME NEW s, s \in State, Balanced(s.mem, s.db), QueueOfSession(s.mem),
         TimerConsistent(s.mem.timer)
  PROVE  Good(save_timer(s))
<1>1. save_timer(s) \in State
  BY SaveTimerType
<1>2. /\ save_timer(s).mem = s.mem
      /\ save_timer(s).db.timer = s.mem.timer
      /\ save_timer(s).db.open = s.db.open
      /\ save_timer(s).db.closed = s.db.closed
  BY DEF save_timer, State, Db
<1>3. Behind(s.mem.timer, s.mem.timer)
  BY Fields DEF Behind, Timer
<1> QED BY <1>1, <1>2, <1>3 DEF Good, Balanced

\* A timer replaced in memory and saved.
LEMMA NewTimerGood ==
  ASSUME NEW s, Good(s), NEW tm \in Timer, TimerConsistent(tm)
  PROVE  Good(save_timer([s EXCEPT !.mem.timer = tm]))
<1> DEFINE t == [s EXCEPT !.mem.timer = tm]
<1>1. t \in State
  BY DEF Good, State, Mem
<1>2. t.mem.timer = tm /\ LedgerPart(t) = LedgerPart(s)
  BY DEF Good, State, Mem, LedgerPart
<1> HIDE DEF t
<1>3. Balanced(t.mem, t.db) /\ QueueOfSession(t.mem)
  BY <1>2 DEF LedgerPart, Good, Balanced, QueueOfSession
<1>4. Good(save_timer(t))
  BY <1>1, <1>2, <1>3, SaveTimerGood
<1> QED BY <1>4 DEF t

\* The running timer only loses time, and is saved when it expires.
LEMMA TimerElapseGood ==
  ASSUME NEW s, Good(s), NEW c \in ConfigType, mono \in Nat
  PROVE  Good(TimerElapse(s, c))
<1> DEFINE left == Max0(s.mem.timer.remaining - Elapsed(s))
           t    == [s EXCEPT !.mem.timer.remaining = left]
           dead == [s.mem.timer EXCEPT !.remaining = 0, !.state = "expired"]
<1>1. /\ s \in State
      /\ s.mem.timer \in Timer
      /\ s.db.timer \in Timer
      /\ Elapsed(s) \in Nat
  BY ElapsedType, Fields DEF Good
<1>2. /\ left \in Nat /\ left <= s.mem.timer.remaining
      /\ left \in 0 .. MaxTimer /\ 0 \in 0 .. MaxTimer
  BY <1>1, TimerAssumption DEF Max0, Timer
<1> HIDE DEF left
<1>3. CASE TimerCounts(s, c) /\ left > 0
  <2>1. t \in State
    BY <1>1, <1>2 DEF State, Mem, Timer
  <2>2. /\ t.mem.timer = [s.mem.timer EXCEPT !.remaining = left]
        /\ t.db = s.db
        /\ LedgerPart(t) = LedgerPart(s)
    BY <1>1 DEF State, Mem, LedgerPart
  <2>3. s.mem.timer.state = "running"
    BY <1>3 DEF TimerCounts
  <2>a. /\ t.mem.timer.remaining = left
        /\ t.mem.timer.state = "running"
        /\ t.mem.timer.action = s.mem.timer.action
    BY <1>1, <2>2, <2>3 DEF Timer
  <2>b. s.mem.timer.remaining \in Nat /\ s.db.timer.remaining \in Nat
    BY <1>1 DEF Timer
  <2>c. Behind(s.db.timer, s.mem.timer)
    BY DEF Good
  <2> HIDE DEF t
  <2>4. Behind(t.db.timer, t.mem.timer)
    BY <1>2, <1>3, <2>2, <2>3, <2>a, <2>b, <2>c DEF Behind, TimerConsistent
  <2>5. Good(t)
    BY <2>1, <2>2, <2>4 DEF Good, LedgerPart, Balanced, QueueOfSession
  <2> QED BY <1>3, <2>5 DEF TimerElapse, t, left
<1>4. CASE TimerCounts(s, c) /\ ~(left > 0)
  <2>1. dead \in Timer /\ dead.remaining = 0 /\ dead.state = "expired"
    BY <1>1, <1>2 DEF Timer, TimerStates
  <2> HIDE DEF dead
  <2>2. Good(save_timer([s EXCEPT !.mem.timer = dead]))
    BY <2>1, NewTimerGood DEF TimerConsistent
  <2>3. Good(Note(save_timer([s EXCEPT !.mem.timer = dead]), "timer.expired"))
    BY <2>2, NoteGood DEF Kinds
  <2> QED BY <1>4, <2>3 DEF TimerElapse, left, dead
<1> QED BY <1>3, <1>4 DEF TimerElapse

\* checkpoint_session makes the row as long as the session in memory.
LEMMA CheckpointGood ==
  ASSUME NEW s, Good(s), s.mem.game # None
  PROVE  Good(checkpoint_session(s))
<1> DEFINE t == checkpoint_session(s)
<1>1. s \in State /\ s.db.open # None /\ s.db.open.day = s.mem.day_key
  BY DEF Good, Balanced
<1>2. t \in State
  BY <1>1, CheckpointType
<1>3. /\ t.mem = s.mem
      /\ t.db.closed = s.db.closed
      /\ t.db.timer = s.db.timer
      /\ t.db.open = [s.db.open EXCEPT !.duration = s.mem.session_duration]
  BY <1>1 DEF checkpoint_session, State, Db
<1>4. s.db.open \in SessionRow /\ s.mem.session_duration \in Nat
  BY <1>1, Fields
<1>5. t.db.open \in SessionRow /\ t.db.open.day = s.mem.day_key
      /\ t.db.open.duration = s.mem.session_duration
  BY <1>1, <1>3, <1>4 DEF SessionRow
<1> HIDE DEF t
<1>6. Balanced(t.mem, t.db)
  BY <1>3, <1>4, <1>5, NoneAssumption DEF Good, Balanced
<1>7. Good(t)
  BY <1>2, <1>3, <1>6 DEF Good
<1> QED BY <1>7 DEF t

\* The checkpoint of a tick: its row,
LEMMA CheckpointRowGood ==
  ASSUME NEW s, Good(s), NEW c
  PROVE  Good(CheckpointRow(s, c))
BY CheckpointGood DEF CheckpointRow, CheckpointDue

\* its baseline and its buckets,
LEMMA CheckpointFlushGood ==
  ASSUME NEW s, Good(s), NEW c, mono \in Nat
  PROVE  Good(CheckpointFlush(s, c))
<1> DEFINE t == [s EXCEPT !.mem.checkpoint_mono = mono]
<1>1. t \in State /\ LedgerPart(t) = LedgerPart(s) /\ TimerPart(t) = TimerPart(s)
  BY DEF Good, State, Mem, LedgerPart, TimerPart
<1> HIDE DEF t
<1>2. Good(flush_usage_buckets(t))
  BY <1>1, Frame, FlushGood
<1> QED BY <1>2 DEF CheckpointFlush, t

\* and the timer's row.
LEMMA PersistTimerGood ==
  ASSUME NEW s, Good(s), NEW c, mono \in Nat
  PROVE  Good(PersistTimer(s, c))
<1> DEFINE t == [s EXCEPT !.mem.persist_mono = mono]
<1>1. t \in State /\ LedgerPart(t) = LedgerPart(s) /\ TimerPart(t) = TimerPart(s)
  BY DEF Good, State, Mem, LedgerPart, TimerPart
<1> HIDE DEF t
<1>2. Good(t)
  BY <1>1, Frame
<1>3. Good(save_timer(t))
  BY <1>2, SaveTimerGood DEF Good, Behind
<1> QED BY <1>3 DEF PersistTimer, t

-----------------------------------------------------------------------------
\* A non-empty set of thresholds has a least element.
LEMMA LeastType ==
  ASSUME NEW T \in SUBSET Nat, T # {}
  PROVE  Least(T) \in T /\ Least(T) \in Nat
<1> DEFINE R == OpToRel(<, Nat)
<1>1. IsWellFoundedOn(R, Nat)
  BY NatLessThanWellFounded
<1>2. \A x, y \in Nat : y < x => <<y, x>> \in R
  BY DEF OpToRel
<1> HIDE DEF R
<1>3. PICK x \in T : \A y \in T : ~ (<<y, x>> \in R)
  BY <1>1, WFMin
<1>4. ASSUME NEW y \in T PROVE x <= y
  <2>1. ~(y < x)
    BY <1>2, <1>3
  <2> QED BY <2>1
<1> QED BY <1>4 DEF Least

\* The thresholds crossed are thresholds.
LEMMA CrossedType ==
  ASSUME NEW c \in ConfigType, NEW before, NEW after
  PROVE  Crossed(c, before, after) \in SUBSET Nat
<1>1. Due(c) \in SUBSET Nat
  BY DEF Due, ConfigType
<1> QED BY <1>1 DEF Crossed

\* _threshold_events announces the lowest of the new marks.
LEMMA AnnounceGood ==
  ASSUME NEW s, Good(s), NEW scope \in {"timer", "daily"}, NEW new \in SUBSET Nat
  PROVE  Good(Announce(s, scope, new))
<1>1. CASE new # {}
  <2> DEFINE e == [kind |-> "notification.warning", scope |-> scope,
                   threshold |-> Least(new)]
  <2>1. e \in Event
    BY <1>1, LeastType DEF Event
  <2> HIDE DEF e
  <2>2. Good(Emit(s, e))
    BY <2>1, EmitGood
  <2> QED BY <1>1, <2>2 DEF Announce, e
<1> QED BY <1>1 DEF Announce

\* Warnings of the timer write marks only.
LEMMA WarnTimerGood ==
  ASSUME NEW s, Good(s), NEW c \in ConfigType, NEW previous
  PROVE  Good(WarnTimer(s, c, previous))
<1> DEFINE crossed == Crossed(c, previous.timer, warning_snapshot(s, c).timer)
           t       == [s EXCEPT !.db.timer_marks = @ \cup crossed]
<1>1. crossed \in SUBSET Nat
  BY CrossedType
<1> HIDE DEF crossed
<1>2. t \in State /\ LedgerPart(t) = LedgerPart(s) /\ TimerPart(t) = TimerPart(s)
  BY <1>1 DEF Good, State, Db, LedgerPart, TimerPart
<1> HIDE DEF t
<1>3. Good(t)
  BY <1>2, Frame
<1>4. Good(Announce(t, "timer", crossed \ s.db.timer_marks))
  BY <1>1, <1>3, AnnounceGood
<1> QED BY <1>4 DEF WarnTimer, t, crossed

\* Warnings of the day write marks only.
LEMMA WarnDailyGood ==
  ASSUME NEW s, Good(s), NEW c \in ConfigType, NEW previous
  PROVE  Good(WarnDaily(s, c, previous))
<1> DEFINE now     == warning_snapshot(s, c)
           crossed == IF previous.day = now.day
                      THEN Crossed(c, previous.daily, now.daily)
                      ELSE {}
           t       == [s EXCEPT !.db.daily_marks[now.day] = @ \cup crossed]
<1>1. crossed \in SUBSET Nat
  BY CrossedType
<1>2. now.day = s.mem.day_key
  BY DEF warning_snapshot
<1> HIDE DEF crossed, now
<1>3. t \in State /\ LedgerPart(t) = LedgerPart(s) /\ TimerPart(t) = TimerPart(s)
  <2>1. s \in State /\ now.day \in Days
    BY <1>2, Fields DEF Good
  <2> DEFINE marks == [s.db.daily_marks EXCEPT ![now.day] = @ \cup crossed]
  <2>2. marks \in [Days -> SUBSET Nat]
    BY <1>1, <2>1, Parts DEF Db
  <2>3. t = [s EXCEPT !.db = [s.db EXCEPT !.daily_marks = marks]]
    BY <2>1 DEF State, Db
  <2> HIDE DEF marks
  <2>4. [s.db EXCEPT !.daily_marks = marks] \in Db
    BY <2>1, <2>2, Parts DEF Db
  <2> QED BY <2>1, <2>3, <2>4 DEF State, Db, LedgerPart, TimerPart
<1> HIDE DEF t
<1>4. Good(t)
  BY <1>3, Frame
<1>5. Good(Announce(t, "daily", crossed \ s.db.daily_marks[now.day]))
  BY <1>1, <1>4, AnnounceGood
<1> QED BY <1>5 DEF WarnDaily, t, crossed, now

\* _warning_events keeps Good.
LEMMA WarningGood ==
  ASSUME NEW s, Good(s), NEW c \in ConfigType, NEW previous
  PROVE  Good(warning_events(s, c, previous))
BY WarnTimerGood, WarnDailyGood DEF warning_events

\* Computing the restriction touches neither ledger nor timer.
LEMMA RestrictionGood ==
  ASSUME NEW s, Good(s), NEW c \in ConfigType
  PROVE  Good(SetRestriction(s, c))
<1> DEFINE t == SetRestriction(s, c)
<1>1. s \in State /\ t \in State
  BY RestrictionType DEF Good
<1>2. LedgerPart(t) = LedgerPart(s) /\ TimerPart(t) = TimerPart(s)
  BY <1>1 DEF SetRestriction, State, Mem, LedgerPart, TimerPart
<1> QED BY <1>1, <1>2, Frame

\* _refresh_restriction keeps Good.
LEMMA RefreshGood ==
  ASSUME NEW s, Good(s), NEW c \in ConfigType
  PROVE  Good(refresh_restriction(s, c))
<1> DEFINE t == refresh_restriction(s, c)
<1>1. s \in State /\ t \in State /\ SetRestriction(s, c) \in State
  BY RefreshType, RestrictionType DEF Good
<1>2. t.mem = SetRestriction(s, c).mem /\ t.db = SetRestriction(s, c).db
  BY <1>1 DEF refresh_restriction, Emit, State
<1> HIDE DEF t
<1>3. Good(t)
  BY <1>1, <1>2, RestrictionGood DEF Good
<1> QED BY <1>3 DEF t

\* Setting the baselines keeps Good.
LEMMA BaselinesGood ==
  ASSUME NEW s, Good(s), wall \in Wall, mono \in Nat
  PROVE  Good(SetBaselines(s))
<1> DEFINE t == SetBaselines(s)
<1>1. s \in State /\ t \in State
  BY BaselinesType DEF Good
<1>2. LedgerPart(t) = LedgerPart(s) /\ TimerPart(t) = TimerPart(s)
  BY <1>1 DEF SetBaselines, State, Mem, LedgerPart, TimerPart
<1> QED BY <1>1, <1>2, Frame

\* What a tick records keeps Good.
LEMMA TickRecordGood ==
  ASSUME NEW s, Good(s), NEW c \in ConfigType, wall \in Wall, mono \in Nat
  PROVE  Good(TickRecord(s, c))
<1> DEFINE a == AccountElapsed(NoteClock(s), c)
<1>1. Good(a)
  BY NoteClockGood, AccountElapsedGood
<1> HIDE DEF a
<1>2. Good(TimerElapse(a, c))
  BY <1>1, TimerElapseGood
<1>3. Good(CheckpointRow(TimerElapse(a, c), c))
  BY <1>2, CheckpointRowGood
<1>4. Good(PersistTimer(CheckpointFlush(CheckpointRow(TimerElapse(a, c), c), c), c))
  BY <1>3, CheckpointFlushGood, PersistTimerGood
<1> QED BY <1>4 DEF TickRecord, a

\* tick() keeps Good.
LEMMA TickGood ==
  ASSUME NEW s, Good(s), NEW c \in ConfigType, wall \in Wall, mono \in Nat
  PROVE  Good(Tick(s, c))
<1>1. Good(warning_events(TickRecord(s, c), c, warning_snapshot(s, c)))
  BY TickRecordGood, WarningGood
<1> QED BY <1>1, RefreshGood, BaselinesGood DEF Tick

\* What a crash in a roll-over leaves in the database, whatever commit it comes
\* after: rows of their type and a consistent timer.
LEMMA RollStagesGood ==
  ASSUME NEW s, Good(s), NEW new \in Days, mono \in Nat, NEW t \in RollStages(s, new)
  PROVE  t.db \in Db /\ TimerConsistent(t.db.timer)
<1> DEFINE f == RollFlush(s)
<1>1. Good(roll_day(s, new)) /\ Good(f)
  BY RollGood, FlushGood DEF RollFlush
<1>2. t \in {f, RollClose(f), roll_day(s, new)}
  BY DEF RollStages
<1> HIDE DEF f
<1>3. RollClose(f).db \in Db /\ RollClose(f).db.timer = f.db.timer
  <2>1. f \in State /\ RollClose(f) \in State
    BY <1>1, RollCloseType DEF Good
  <2> QED BY <2>1, Parts DEF RollClose, close_session, State, Db
<1>4. TimerConsistent(RollClose(f).db.timer)
  BY <1>1, <1>3 DEF Good
<1>5. ASSUME NEW u, Good(u) PROVE u.db \in Db /\ TimerConsistent(u.db.timer)
  BY <1>5, Parts DEF Good
<1> QED BY <1>1, <1>2, <1>3, <1>4, <1>5

\* The same for a crash in a tick.
LEMMA StagesGood ==
  ASSUME NEW s, Good(s), NEW c \in ConfigType, wall \in Wall, mono \in Nat,
         NEW t \in TickStages(s, c)
  PROVE  t.db \in Db /\ TimerConsistent(t.db.timer)
<1> DEFINE a == AccountBefore(s, c)
           b == AccountElapsed(s, c)
           e == TimerElapse(b, c)
           r == CheckpointRow(e, c)
           f == CheckpointFlush(r, c)
           p == PersistTimer(f, c)
           w == WarnTimer(p, c, warning_snapshot(s, c))
           day == c.accounting_day[wall]
<1>1. Good(a) /\ Good(b)
  BY AccountBeforeGood, AccountElapsedGood
<1>2. Good(e)
  BY <1>1, TimerElapseGood
<1>3. Good(r)
  BY <1>2, CheckpointRowGood
<1>4. Good(f)
  BY <1>3, CheckpointFlushGood
<1>5. Good(p)
  BY <1>4, PersistTimerGood
<1>6. Good(w)
  BY <1>5, WarnTimerGood
<1>7. day \in Days
  BY DEF ConfigType
<1>8. t \in {s, b, e, r, f, p, w} \/ t \in RollStages(a, day)
  BY DEF TickStages
<1> HIDE DEF a, b, e, r, f, p, w, day
<1>9. ASSUME NEW u, Good(u) PROVE u.db \in Db /\ TimerConsistent(u.db.timer)
  BY <1>9, Parts DEF Good
<1>10. CASE t \in RollStages(a, day)
  BY <1>1, <1>7, <1>10, RollStagesGood
<1>11. CASE t \in {s, b, e, r, f, p, w}
  BY <1>1, <1>2, <1>3, <1>4, <1>5, <1>6, <1>9, <1>11
<1> QED BY <1>8, <1>10, <1>11

-----------------------------------------------------------------------------
\* _close_current_game moves the session into the closed ones.
LEMMA CloseGameGood ==
  ASSUME NEW s, Good(s)
  PROVE  Good(close_current_game(s)) /\ close_current_game(s).db.open = None
<1>1. s \in State /\ s.mem \in Mem
  BY Parts DEF Good
<1>2. CASE s.mem.game = None
  <2>1. s.mem.session_duration = 0 /\ s.db.open = None
    BY <1>2 DEF Good, Balanced
  <2> DEFINE t == [s EXCEPT !.mem.session_duration = 0]
  <2>2. t \in State /\ t.db = s.db
    BY <1>1 DEF State, Mem
  <2>3. LedgerPart(t) = LedgerPart(s) /\ TimerPart(t) = TimerPart(s)
    BY <1>1, <2>1 DEF State, Mem, LedgerPart, TimerPart
  <2> HIDE DEF t
  <2>4. Good(t)
    BY <2>2, <2>3, Frame
  <2> QED BY <1>2, <2>1, <2>2, <2>4 DEF close_current_game, t
<1>3. CASE s.mem.game # None
  <2> DEFINE f == flush_usage_buckets(s)
             m == [f.mem EXCEPT !.game = None, !.session_duration = 0]
             e == close_session(f.db, s.mem.session_duration)
             t == [f EXCEPT !.db = e, !.mem = m]
  <2>1. Good(f) /\ f \in State /\ s.mem.session_duration \in Nat
    BY <1>1, FlushGood, Fields DEF Good
  <2>2. /\ f.mem = [s.mem EXCEPT !.pending = NoSeconds]
        /\ f.db.open = s.db.open
    BY <1>1 DEF flush_usage_buckets, State, Db
  <2>3. /\ f.mem.pending = NoSeconds
        /\ f.mem.session_duration = s.mem.session_duration
        /\ f.mem.game = s.mem.game
    BY <1>1, <2>2 DEF Mem
  <2> HIDE DEF f
  <2>4. m \in Mem /\ e \in Db
    BY <2>1, Parts, CloseType DEF Mem
  <2>5. f.db.open # None /\ f.db.open \in SessionRow /\ f.db.open.day = f.mem.day_key
    BY <1>3, <2>1, <2>3, Fields DEF Good, Balanced
  <2>6. /\ e.open = None
        /\ e.timer = f.db.timer
        /\ e.closed[f.mem.day_key] = f.db.closed[f.mem.day_key] + s.mem.session_duration
    BY <2>1, <2>5, Parts, Fields DEF close_session, Db
  <2>7. /\ m.day_key = f.mem.day_key
        /\ m.played_today = f.mem.played_today
        /\ m.game = None
        /\ m.session_duration = 0
        /\ m.pending = NoSeconds
        /\ m.timer = f.mem.timer
    BY <2>1, <2>3, Parts DEF Mem
  <2>8. t \in State /\ t.mem = m /\ t.db = e
    BY <2>1, <2>4, SetBoth DEF State
  <2> HIDE DEF m, e, t
  <2>9. Balanced(m, e)
    <3>1. f.mem.played_today = f.db.closed[f.mem.day_key] + s.mem.session_duration
      BY <2>1, <2>3 DEF Good, Balanced
    <3>2. e.closed[f.mem.day_key] \in Nat
      BY <2>1, <2>4, Fields DEF Db
    <3> QED BY <3>1, <3>2, <2>6, <2>7 DEF Balanced
  <2>10. QueueOfSession(m)
    BY <2>7 DEF QueueOfSession, NoSeconds
  <2>11. Good(t)
    BY <2>1, <2>6, <2>7, <2>8, <2>9, <2>10 DEF Good
  <2>12. Good(Note(t, "game.stopped"))
    BY <2>11, NoteGood DEF Kinds
  <2>13. Note(t, "game.stopped").db = t.db
    BY <2>8 DEF Note, Emit, State
  <2>14. close_current_game(s) = Note(t, "game.stopped")
    BY <1>3 DEF close_current_game, t, m, e, f
  <2> QED BY <2>6, <2>8, <2>12, <2>13, <2>14
<1> QED BY <1>2, <1>3

\* set_game opens a session of the engine's day.
LEMMA OpenGameGood ==
  ASSUME NEW s, Good(s), s.db.open = None, NEW g \in Games, mono \in Nat
  PROVE  Good(OpenGame(s, g))
<1> DEFINE e == open_session(s.db, s.mem.day_key)
           m == [s.mem EXCEPT !.game = g, !.session_duration = 0, !.checkpoint_mono = mono]
           t == [s EXCEPT !.db = e, !.mem = m]
<1>1. s \in State /\ s.mem \in Mem /\ s.db \in Db
  BY Parts DEF Good
<1>2. e \in Db /\ m \in Mem
  BY <1>1, OpenType, Fields DEF Mem
<1>3. t \in State /\ t.mem = m /\ t.db = e
  BY <1>1, <1>2, SetBoth DEF State
<1>4. /\ m.day_key = s.mem.day_key
      /\ m.played_today = s.mem.played_today
      /\ m.game = g
      /\ m.session_duration = 0
      /\ m.pending = s.mem.pending
      /\ m.timer = s.mem.timer
  BY <1>1 DEF Mem
<1>5. /\ e.open = [day |-> s.mem.day_key, duration |-> 0]
      /\ e.closed = s.db.closed
      /\ e.timer = s.db.timer
  BY <1>1 DEF open_session, Db
<1>6. s.mem.session_duration = 0
  BY DEF Good, Balanced
<1> HIDE DEF t, m, e
<1>7. Balanced(m, e)
  <2>1. s.mem.played_today = s.db.closed[s.mem.day_key] + 0 /\ s.mem.day_key \in Days
    BY <1>1, <1>6, Fields DEF Good, Balanced
  <2>2. e.open \in SessionRow /\ e.open.day = s.mem.day_key /\ e.open.duration = 0
    BY <1>5, <2>1 DEF SessionRow
  <2> QED BY <1>4, <1>5, <2>1, <2>2, NoneAssumption DEF Balanced
<1>8. QueueOfSession(m)
  BY <1>4, <1>6 DEF Good, QueueOfSession
<1>9. Good(t)
  BY <1>3, <1>4, <1>5, <1>7, <1>8 DEF Good
<1>10. Good(Note(t, "game.started"))
  BY <1>9, NoteGood DEF Kinds
<1>11. ASSUME NEW u, Good(u) PROVE Good(NoteRestricted(u))
  BY <1>11, NoteGood DEF NoteRestricted, Kinds
<1>12. Good(NoteRestricted(Note(t, "game.started")))
  BY <1>10, <1>11
<1> QED BY <1>12 DEF OpenGame, t, m, e

\* set_game keeps Good; its second open row never happens.
LEMMA SetGameGood ==
  ASSUME NEW s, Good(s), NEW g \in Games, mono \in Nat
  PROVE  Good(set_game(s, g))
<1>1. Good(Note(s, "game.metadata_updated"))
  BY NoteGood DEF Kinds
<1> QED BY <1>1, CloseGameGood, OpenGameGood DEF set_game

\* stop_game keeps Good.
LEMMA StopGameGood ==
  ASSUME NEW s, Good(s), NEW c \in ConfigType
  PROVE  Good(stop_game(s, c))
BY CloseGameGood, RefreshGood DEF stop_game

\* The suspended flag is no part of ledger or timer.
LEMMA SetSuspendedGood ==
  ASSUME NEW s, Good(s), NEW b \in BOOLEAN
  PROVE  Good([s EXCEPT !.mem.suspended = b])
<1> DEFINE t == [s EXCEPT !.mem.suspended = b]
<1>1. t \in State /\ LedgerPart(t) = LedgerPart(s) /\ TimerPart(t) = TimerPart(s)
  BY DEF Good, State, Mem, LedgerPart, TimerPart
<1> QED BY <1>1, Frame

\* suspend keeps Good.
LEMMA SuspendGood ==
  ASSUME NEW s, Good(s)
  PROVE  Good(suspend(s))
BY SetSuspendedGood, NoteGood DEF suspend, Kinds

\* resume, with its roll-over, keeps Good.
LEMMA ResumeGood ==
  ASSUME NEW s, Good(s), NEW c \in ConfigType, wall \in Wall, mono \in Nat
  PROVE  Good(resume(s, c))
<1> DEFINE new    == c.accounting_day[wall]
           rolled == IF new = s.mem.day_key THEN SetBaselines(s)
                     ELSE roll_day(SetBaselines(s), new)
<1>1. new \in Days
  BY DEF ConfigType
<1>2. Good(rolled)
  BY <1>1, BaselinesGood, RollGood
<1> HIDE DEF rolled
<1>3. Good([rolled EXCEPT !.mem.suspended = FALSE])
  BY <1>2, SetSuspendedGood
<1>4. Good(Note([rolled EXCEPT !.mem.suspended = FALSE], "system.resumed"))
  BY <1>3, NoteGood DEF Kinds
<1> QED BY <1>2, <1>4 DEF resume, rolled

-----------------------------------------------------------------------------
\* Clearing the timer's marks keeps Good.
LEMMA ClearTimerMarksGood ==
  ASSUME NEW s, Good(s)
  PROVE  Good(ClearTimerMarks(s))
<1> DEFINE t == ClearTimerMarks(s)
<1>1. t \in State /\ LedgerPart(t) = LedgerPart(s) /\ TimerPart(t) = TimerPart(s)
  BY DEF Good, ClearTimerMarks, State, Db, LedgerPart, TimerPart
<1> QED BY <1>1, Frame

\* Clearing the day's marks keeps Good.
LEMMA ClearDailyMarksGood ==
  ASSUME NEW s, Good(s)
  PROVE  Good(ClearDailyMarks(s))
<1> DEFINE t == ClearDailyMarks(s)
<1>1. t \in State /\ LedgerPart(t) = LedgerPart(s) /\ TimerPart(t) = TimerPart(s)
  BY DEF Good, ClearDailyMarks, State, Db, LedgerPart, TimerPart
<1> QED BY <1>1, Frame

\* start_timer stores a timer with time left, by MinTimer > 0.
LEMMA StartTimerGood ==
  ASSUME NEW s, Good(s), NEW n \in TimerDurations, NEW a \in TimerActions
  PROVE  Good(start_timer(s, n, a))
<1> DEFINE tm == [state |-> "running", remaining |-> n, action |-> a]
           t  == save_timer([s EXCEPT !.mem.timer = tm])
<1>1. CASE n \in MinTimer .. MaxTimer
  <2>1. tm \in Timer /\ TimerConsistent(tm)
    BY <1>1, TimerAssumption DEF Timer, TimerStates, TimerConsistent
  <2> HIDE DEF tm
  <2>2. Good(t)
    BY <2>1, NewTimerGood
  <2> HIDE DEF t
  <2>3. Good(Note(ClearTimerMarks(t), "timer.started"))
    BY <2>2, ClearTimerMarksGood, NoteGood DEF Kinds
  <2> QED BY <2>3 DEF start_timer, t, tm
<1> QED BY <1>1 DEF start_timer

\* A timer that changes between running and paused keeps its time.
LEMMA TimerStateGood ==
  ASSUME NEW s, Good(s), s.mem.timer.state \in {"running", "paused"},
         NEW x \in {"running", "paused"}
  PROVE  Good(save_timer([s EXCEPT !.mem.timer.state = x]))
<1> DEFINE tm == [s.mem.timer EXCEPT !.state = x]
<1>1. s \in State /\ s.mem.timer \in Timer
  BY Fields DEF Good
<1>2. tm \in Timer /\ tm.state = x /\ tm.remaining = s.mem.timer.remaining
  BY <1>1 DEF Timer, TimerStates
<1>3. TimerConsistent(s.mem.timer)
  BY DEF Good, Behind
<1> HIDE DEF tm
<1>4. TimerConsistent(tm)
  BY <1>2, <1>3 DEF TimerConsistent
<1>5. Good(save_timer([s EXCEPT !.mem.timer = tm]))
  BY <1>2, <1>4, NewTimerGood
<1> QED BY <1>5 DEF tm

\* pause_timer keeps Good.
LEMMA PauseTimerGood ==
  ASSUME NEW s, Good(s)
  PROVE  Good(pause_timer(s))
BY TimerStateGood, NoteGood DEF pause_timer, Kinds

\* resume_timer keeps Good.
LEMMA ResumeTimerGood ==
  ASSUME NEW s, Good(s)
  PROVE  Good(resume_timer(s))
BY TimerStateGood, NoteGood DEF resume_timer, Kinds

\* cancel_timer keeps Good.
LEMMA CancelTimerGood ==
  ASSUME NEW s, Good(s), NEW c \in ConfigType
  PROVE  Good(cancel_timer(s, c))
<1>1. IdleTimer \in Timer /\ TimerConsistent(IdleTimer)
  BY TimerAssumption DEF IdleTimer, Timer, TimerStates, Actions, TimerConsistent
<1>2. Good(save_timer([s EXCEPT !.mem.timer = IdleTimer]))
  BY <1>1, NewTimerGood
<1>3. Good(Note(ClearTimerMarks(save_timer([s EXCEPT !.mem.timer = IdleTimer])), "timer.cancelled"))
  BY <1>2, ClearTimerMarksGood, NoteGood DEF Kinds
<1> QED BY <1>3, RefreshGood DEF cancel_timer

\* adjust_timer gives a timer that has time left exactly while it runs
\* or is paused, whatever the amount.
LEMMA AdjustedType ==
  ASSUME NEW tm \in Timer, TimerConsistent(tm), tm.state # "idle", NEW n \in Int
  PROVE  Adjusted(tm, n) \in Timer /\ TimerConsistent(Adjusted(tm, n))
<1> DEFINE sum  == tm.remaining + n
           left == IF sum > MaxTimer THEN MaxTimer ELSE Max0(sum)
           st   == IF left = 0 THEN "expired"
                   ELSE IF tm.state = "expired" THEN "paused" ELSE tm.state
<1>1. sum \in Int
  BY DEF Timer
<1> HIDE DEF sum
<1>2. left \in 0 .. MaxTimer /\ left \in Nat
  BY <1>1, TimerAssumption DEF Max0
<1> HIDE DEF left
<1>3. st \in TimerStates /\ (left > 0 <=> st \in {"running", "paused"})
  BY <1>2 DEF Timer, TimerStates
<1> HIDE DEF st
<1>4. Adjusted(tm, n) = [tm EXCEPT !.remaining = left, !.state = st]
  BY DEF Adjusted, st, left, sum, Timer
<1>5. /\ Adjusted(tm, n) \in Timer
      /\ Adjusted(tm, n).remaining = left
      /\ Adjusted(tm, n).state = st
  BY <1>2, <1>3, <1>4 DEF Timer
<1> QED BY <1>3, <1>5 DEF TimerConsistent

\* The timer adjusted and saved.
LEMMA SavedGood ==
  ASSUME NEW s, Good(s), s.mem.timer.state # "idle", NEW n \in Adjustments
  PROVE  Good(save_timer([s EXCEPT !.mem.timer = Adjusted(@, n)]))
<1>1. s.mem.timer \in Timer /\ TimerConsistent(s.mem.timer) /\ n \in Int
  BY Fields, TimerAssumption DEF Good, Behind
<1>2. Adjusted(s.mem.timer, n) \in Timer /\ TimerConsistent(Adjusted(s.mem.timer, n))
  BY <1>1, AdjustedType
<1> QED BY <1>2, NewTimerGood

\* Its marks cleared as well.
LEMMA AdjustCutGood ==
  ASSUME NEW s, Good(s), s.mem.timer.state # "idle", NEW n \in Adjustments
  PROVE  Good(AdjustCut(s, n))
BY SavedGood, ClearTimerMarksGood DEF AdjustCut

\* adjust_timer keeps Good.
LEMMA AdjustTimerGood ==
  ASSUME NEW s, Good(s), NEW c \in ConfigType, NEW n \in Adjustments
  PROVE  Good(adjust_timer(s, c, n))
<1> DEFINE saved   == save_timer([s EXCEPT !.mem.timer = Adjusted(@, n)])
           rearmed == IF n > 0 THEN RearmTimer(saved, c) ELSE saved
<1>1. CASE s.mem.timer.state # "idle"
  <2>3. Good(saved)
    BY <1>1, SavedGood
  <2> HIDE DEF saved
  <2>4. Good(RearmTimer(saved, c))
    <3> DEFINE t == RearmTimer(saved, c)
    <3>1. saved.mem.timer.remaining \in Nat
      BY <2>3, Fields DEF Good, Timer
    <3>2. t \in State /\ LedgerPart(t) = LedgerPart(saved) /\ TimerPart(t) = TimerPart(saved)
      BY <2>3, <3>1 DEF Good, RearmTimer, State, Db, LedgerPart, TimerPart
    <3> QED BY <2>3, <3>2, Frame
  <2>5. Good(rearmed)
    BY <2>3, <2>4
  <2> HIDE DEF rearmed
  <2>6. Good(Note(rearmed, "timer.adjusted"))
    BY <2>5, NoteGood DEF Kinds
  <2>7. Good(warning_events(Note(rearmed, "timer.adjusted"), c, warning_snapshot(s, c)))
    BY <2>6, WarningGood
  <2>8. Good(refresh_restriction(warning_events(Note(rearmed, "timer.adjusted"), c,
                                                warning_snapshot(s, c)), c))
    BY <2>7, RefreshGood
  <2> QED BY <2>8 DEF adjust_timer, rearmed, saved
<1> QED BY <1>1 DEF adjust_timer

\* An adjustment changes neither ledger nor timer.
LEMMA GrantedGood ==
  ASSUME NEW s, Good(s), NEW n \in Grants
  PROVE  Good(Granted(s, n))
<1> DEFINE t   == Granted(s, n)
           adj == [s.db.adjustment EXCEPT ![s.mem.day_key] = @ + n]
<1>1. s \in State /\ s.mem.day_key \in Days /\ n \in Int
  BY Fields, GrantAssumption DEF Good
<1>2. adj \in [Days -> Int]
  BY <1>1, Parts DEF Db
<1>3. t = [s EXCEPT !.db = [s.db EXCEPT !.adjustment = adj]]
  BY <1>1 DEF Granted, State, Db
<1> HIDE DEF adj, t
<1>4. t \in State /\ LedgerPart(t) = LedgerPart(s) /\ TimerPart(t) = TimerPart(s)
  BY <1>1, <1>2, <1>3 DEF State, Db, LedgerPart, TimerPart
<1>5. Good(t)
  BY <1>4, Frame
<1> QED BY <1>5 DEF t

\* grant_daily_time keeps Good.
LEMMA GrantGood ==
  ASSUME NEW s, Good(s), NEW c \in ConfigType, NEW n \in Grants
  PROVE  Good(grant_daily_time(s, c, n))
<1> DEFINE rearmed == IF n > 0 THEN ClearDailyMarks(Granted(s, n)) ELSE Granted(s, n)
<1>1. Good(rearmed)
  BY GrantedGood, ClearDailyMarksGood
<1> HIDE DEF rearmed
<1>2. Good(Note(rearmed, "daily.adjusted"))
  BY <1>1, NoteGood DEF Kinds
<1>3. Good(warning_events(Note(rearmed, "daily.adjusted"), c, warning_snapshot(s, c)))
  BY <1>2, WarningGood
<1>4. Good(refresh_restriction(warning_events(Note(rearmed, "daily.adjusted"), c,
                                              warning_snapshot(s, c)), c))
  BY <1>3, RefreshGood
<1> QED BY <1>4 DEF grant_daily_time, rearmed

\* update_config, with its roll-over, keeps Good.
LEMMA UpdateConfigGood ==
  ASSUME NEW s, Good(s), NEW old \in ConfigType, NEW new \in ConfigType,
         wall \in Wall, mono \in Nat
  PROVE  Good(update_config(s, old, new))
<1> DEFINE previous == warning_snapshot(s, old)
           day      == new.accounting_day[wall]
           rolled   == IF day = s.mem.day_key THEN s ELSE roll_day(s, day)
           rearmed  == RearmGrown(rolled, new, previous)
<1>1. day \in Days
  BY DEF ConfigType
<1>2. Good(rolled)
  BY <1>1, RollGood
<1> HIDE DEF previous, rolled
<1>3. Good(rearmed)
  BY <1>2, ClearTimerMarksGood, ClearDailyMarksGood DEF RearmGrown
<1> HIDE DEF rearmed
<1>4. Good(refresh_restriction(warning_events(rearmed, new, previous), new))
  BY <1>3, WarningGood, RefreshGood
<1>5. Good(Note(refresh_restriction(warning_events(rearmed, new, previous), new), "config.updated"))
  BY <1>4, NoteGood DEF Kinds
<1> QED BY <1>5 DEF update_config, rearmed, rolled, previous

\* shutdown keeps Good.
LEMMA ShutdownGood ==
  ASSUME NEW s, Good(s)
  PROVE  Good(shutdown(s))
<1> DEFINE t == IF s.mem.game = None THEN s ELSE close_current_game(checkpoint_session(s))
<1>1. Good(t)
  BY CheckpointGood, CloseGameGood
<1> HIDE DEF t
<1>2. Good(save_timer(t))
  BY <1>1, SaveTimerGood DEF Good, Behind
<1> QED BY <1>1, <1>2 DEF shutdown, t

\* The same for a crash in what follows the tick of a handler.
LEMMA CrashGood ==
  ASSUME NEW s, Good(s), NEW c \in ConfigType, wall \in Wall, mono \in Nat,
         NEW t \in CrashStages(s, c)
  PROVE  t.db \in Db /\ TimerConsistent(t.db.timer)
<1> DEFINE k == Tick(s, c)
           f == RollFlush(k)
<1>1. Good(k)
  BY TickGood
<1>2. ASSUME NEW u, Good(u) PROVE u.db \in Db /\ TimerConsistent(u.db.timer)
  BY <1>2, Parts DEF Good
<1> HIDE DEF k
<1>3. CASE t \in TickStages(s, c)
  BY <1>3, StagesGood
<1>4. CASE t \in CloseStages(k)
  <2>1. k.mem.game # None
    BY <1>4 DEF CloseStages
  <2>2. Good(flush_usage_buckets(k)) /\ Good(checkpoint_session(k))
    BY <1>1, <2>1, FlushGood, CheckpointGood
  <2>3. Good(flush_usage_buckets(checkpoint_session(k))) /\ Good(f)
    BY <1>1, <2>2, FlushGood DEF RollFlush
  <2>4. t \in {flush_usage_buckets(k), RollClose(f), checkpoint_session(k),
               flush_usage_buckets(checkpoint_session(k))}
    BY <1>4, <2>1 DEF CloseStages
  <2> HIDE DEF f
  <2>5. RollClose(f).db \in Db /\ RollClose(f).db.timer = f.db.timer
    <3>1. f \in State /\ RollClose(f) \in State
      BY <2>3, RollCloseType DEF Good
    <3> QED BY <3>1, Parts DEF RollClose, close_session, State, Db
  <2>6. TimerConsistent(RollClose(f).db.timer)
    BY <2>3, <2>5 DEF Good
  <2> QED BY <1>2, <2>2, <2>3, <2>4, <2>5, <2>6
<1>5. CASE t \in AdjustStages(k)
  <2>1. k.mem.timer.state # "idle"
    BY <1>5 DEF AdjustStages
  <2>2. PICK n \in Adjustments : t = save_timer([k EXCEPT !.mem.timer = Adjusted(@, n)])
    BY <1>5, <2>1 DEF AdjustStages
  <2>3. Good(t)
    BY <1>1, <2>1, <2>2, SavedGood
  <2> QED BY <1>2, <2>3
<1>6. CASE t \in GrantStages(k)
  <2>1. PICK n \in Grants : t = Granted(k, n)
    BY <1>6 DEF GrantStages
  <2>2. Good(t)
    BY <1>1, <2>1, GrantedGood
  <2> QED BY <1>2, <2>2
<1>7. t = k \/ t \in TickStages(s, c) \/ t \in CloseStages(k) \/ t \in AdjustStages(k)
      \/ t \in GrantStages(k)
  BY DEF CrashStages, k
<1> QED BY <1>1, <1>2, <1>3, <1>4, <1>5, <1>6, <1>7

\* The same for a crash in config.update, whose new file is already stored.
LEMMA UpdateStagesGood ==
  ASSUME NEW s, Good(s), NEW old \in ConfigType, NEW new \in ConfigType,
         wall \in Wall, mono \in Nat, NEW t \in UpdateStages(s, old, new)
  PROVE  t.db \in Db /\ TimerConsistent(t.db.timer)
<1> DEFINE k == Tick(s, old)
           day == new.accounting_day[wall]
<1>1. Good(k) /\ day \in Days
  BY TickGood DEF ConfigType
<1>2. t \in TickStages(s, old) \/ t = k \/ t \in RollStages(k, day)
  BY DEF UpdateStages
<1> HIDE DEF k, day
<1>3. CASE t \in TickStages(s, old)
  BY <1>3, StagesGood
<1>4. CASE t = k
  BY <1>1, <1>4, Parts DEF Good
<1>5. CASE t \in RollStages(k, day)
  BY <1>1, <1>5, RollStagesGood
<1> QED BY <1>2, <1>3, <1>4, <1>5

\* history.clear, refused while a session is open, keeps Good.
LEMMA ClearHistoryGood ==
  ASSUME NEW s, Good(s)
  PROVE  Good(clear_history(s))
<1>1. CASE s.db.open = None
  <2> DEFINE t == clear_history(s)
             m == [s.mem EXCEPT !.played_today = 0]
             e == [s.db EXCEPT !.closed = NoSeconds,
                               !.adjustment = NoSeconds,
                               !.daily_marks = [d \in Days |-> {}],
                               !.timer_marks = {},
                               !.buckets = NoSeconds]
  <2>1. s \in State /\ s.mem \in Mem /\ s.db \in Db
    BY Parts DEF Good
  <2>2. m \in Mem
    BY <2>1 DEF Mem
  <2>3. e \in Db
    <3> DEFINE none == [d \in Days |-> {}]
    <3>1. NoSeconds \in [Days -> Nat] /\ NoSeconds \in [Days -> Int]
      BY DEF NoSeconds
    <3>2. none \in [Days -> SUBSET Nat]
      OBVIOUS
    <3> HIDE DEF none
    <3>3. [s.db EXCEPT !.closed = NoSeconds, !.adjustment = NoSeconds, !.daily_marks = none,
                       !.timer_marks = {}, !.buckets = NoSeconds] \in Db
      BY <2>1, <3>1, <3>2 DEF Db
    <3> QED BY <3>3 DEF none
  <2>4. t = [s EXCEPT !.db = e, !.mem = m]
    BY <1>1, <2>1 DEF clear_history, State
  <2>5. /\ m.played_today = 0
        /\ m.day_key = s.mem.day_key
        /\ m.game = s.mem.game
        /\ m.session_duration = s.mem.session_duration
        /\ m.pending = s.mem.pending
        /\ m.timer = s.mem.timer
    BY <2>1 DEF Mem
  <2>6. e.closed = NoSeconds /\ e.open = None /\ e.timer = s.db.timer
    BY <1>1, <2>1 DEF Db
  <2> HIDE DEF m, e, t
  <2>7. t \in State /\ t.mem = m /\ t.db = e
    BY <2>1, <2>2, <2>3, <2>4, SetBoth DEF State
  <2>8. Balanced(m, e)
    <3>1. s.mem.game = None /\ s.mem.session_duration = 0
      BY <1>1 DEF Good, Balanced
    <3>2. e.closed[m.day_key] = 0
      BY <2>1, <2>5, <2>6, Fields DEF NoSeconds
    <3> QED BY <2>5, <2>6, <3>1, <3>2 DEF Balanced
  <2>9. QueueOfSession(m)
    BY <2>5 DEF Good, QueueOfSession
  <2>10. Good(t)
    BY <2>5, <2>6, <2>7, <2>8, <2>9 DEF Good
  <2> QED BY <2>10 DEF t
<1> QED BY <1>1 DEF clear_history

\* The recovery of the session a crash left open, on any typed database.
LEMMA RecoverSessionGood ==
  ASSUME NEW d \in Db, TimerConsistent(d.timer), NEW c \in ConfigType,
         wall \in Wall, mono \in Nat
  PROVE  Good(RecoverSession(Loaded(d, c)))
<1> DEFINE day == c.accounting_day[wall]
           m   == LoadedEngine(d, c)
           s   == Loaded(d, c)
           r   == RecoverSession(s)
<1>1. day \in Days /\ usage_for_day(d, day) \in Nat /\ d.timer \in Timer
  BY UsageType DEF ConfigType, Db
<1>2. m \in Mem
  BY <1>1 DEF LoadedEngine, Mem, NoSeconds, Reasons
<1>3. /\ m.day_key = day
      /\ m.played_today = usage_for_day(d, day)
      /\ m.game = None
      /\ m.session_duration = 0
      /\ m.pending = NoSeconds
      /\ m.timer = d.timer
  BY DEF LoadedEngine
<1> HIDE DEF m
<1>4. s \in State /\ s.mem = m /\ s.db = d
  BY <1>2 DEF Loaded, State, m
<1> HIDE DEF s
<1>5. /\ r \in State
      /\ r.mem = m
      /\ r.db.open = None
      /\ r.db.timer = d.timer
      /\ r.db.closed[day] = usage_for_day(d, day)
  <2>1. CASE d.open = None
    BY <1>1, <1>4, <2>1 DEF RecoverSession, usage_for_day, Db
  <2>2. CASE d.open # None
    <3> DEFINE e == close_session(d, d.open.duration)
    <3>1. d.open \in SessionRow
      BY <2>2 DEF Db
    <3>2. e \in Db
      BY <3>1, CloseType DEF SessionRow
    <3>3. /\ e.open = None
          /\ e.timer = d.timer
          /\ e.closed[day] = usage_for_day(d, day)
      BY <1>1, <2>2, <3>1 DEF close_session, usage_for_day, Db, SessionRow
    <3> HIDE DEF e
    <3>4. r = Note([s EXCEPT !.db = e], "session.recovered")
      BY <1>4, <2>2 DEF RecoverSession, e
    <3>5. r \in State
      BY <1>4, <3>2, <3>4, SetDb, NoteType DEF Kinds
    <3>6. r.mem = m /\ r.db = e
      BY <1>4, <3>4 DEF Note, Emit, State
    <3> QED BY <3>3, <3>5, <3>6
  <2> QED BY <2>1, <2>2
<1> HIDE DEF r
<1>6. Balanced(r.mem, r.db)
  BY <1>1, <1>3, <1>5 DEF Balanced
<1>7. QueueOfSession(r.mem)
  BY <1>3, <1>5 DEF QueueOfSession, NoSeconds
<1>8. Behind(r.db.timer, r.mem.timer)
  BY <1>1, <1>3, <1>5 DEF Behind, Timer
<1>9. Good(r)
  BY <1>5, <1>6, <1>7, <1>8 DEF Good
<1> QED BY <1>9 DEF r, s

\* A restart on any database a crash can leave: the open session is closed
\* with its last checkpoint, and the engine counts on from there.
LEMMA BootGood ==
  ASSUME NEW d \in Db, TimerConsistent(d.timer), NEW c \in ConfigType,
         wall \in Wall, mono \in Nat
  PROVE  Good(boot(d, c))
<1> DEFINE r == RecoverSession(Loaded(d, c))
<1>1. Good(r)
  BY RecoverSessionGood
<1> HIDE DEF r
<1>2. Good(RecoverTimer(r))
  BY <1>1, TimerStateGood, NoteGood DEF RecoverTimer, Kinds
<1>3. Good(SetRestriction(RecoverTimer(r), c))
  BY <1>2, RestrictionGood
<1> QED BY <1>3 DEF boot, r

-----------------------------------------------------------------------------
(* The invariant of the specification. *)

IInv == TypeOK /\ LedgerAgrees /\ PendingOfSession /\ TimerRowAgrees

\* The first start finds an empty database.
LEMMA InitIInv == Init => IInv
<1> SUFFICES ASSUME Init PROVE IInv
  OBVIOUS
<1>1. NoSeconds \in [Days -> Nat] /\ NoSeconds \in [Days -> Int]
  BY DEF NoSeconds
<1>2. [d \in Days |-> {}] \in [Days -> SUBSET Nat]
  OBVIOUS
<1>3. IdleTimer \in Timer /\ TimerConsistent(IdleTimer)
  BY TimerAssumption DEF IdleTimer, Timer, TimerStates, Actions, TimerConsistent
<1>4. db \in Db /\ db.timer = IdleTimer
  BY <1>1, <1>2, <1>3 DEF Init, Db
<1>5. ~Running
  BY DEF Init, Running
<1>6. TypeOK
  BY <1>4 DEF Init, TypeOK
<1> QED
  BY <1>3, <1>4, <1>5, <1>6 DEF IInv, LedgerAgrees, PendingOfSession, TimerRowAgrees

\* Before a handler the engine and its database are Good.
LEMMA RunningGood ==
  ASSUME IInv, Running
  PROVE  Good(S) /\ S.mem = mem /\ S.db = db
BY DEF IInv, TypeOK, LedgerAgrees, PendingOfSession, TimerRowAgrees, Running, S, Good, State

\* So they are after the tick every handler begins with.
LEMMA TickedGood ==
  ASSUME IInv, Running
  PROVE  Good(Ticked)
<1>1. C \in ConfigType /\ wall \in Wall /\ mono \in Nat
  BY ConfigAssumption DEF IInv, TypeOK, C
<1> QED BY <1>1, RunningGood, TickGood DEF Ticked

\* A handler that ends in a Good state keeps the invariant.
LEMMA StepIInv ==
  ASSUME IInv, NEW t, Good(t), Step(t), cfg' \in Profiles
  PROVE  IInv'
<1>1. mem' = t.mem /\ db' = t.db /\ out' = t.out /\ wall' = wall /\ mono' = mono
  BY DEF Step
<1>2. t.mem \in Mem /\ t.db \in Db /\ t.out \in Seq(Event)
  BY Parts DEF Good
<1>3. TypeOK'
  BY <1>1, <1>2 DEF IInv, TypeOK
<1>4. Running' /\ LedgerAgrees' /\ PendingOfSession' /\ TimerRowAgrees'
  BY <1>1, <1>2, NoneAssumption
     DEF Good, LedgerAgrees, PendingOfSession, TimerRowAgrees, Running
<1> QED BY <1>3, <1>4 DEF IInv

\* A step that ends the process leaves only the database to speak of.
LEMMA StopIInv ==
  ASSUME IInv, mem' = None, db' \in Db, TimerConsistent(db'.timer), out' \in Seq(Event),
         cfg' \in Profiles, UNCHANGED <<wall, mono>>
  PROVE  IInv'
BY DEF IInv, TypeOK, LedgerAgrees, PendingOfSession, TimerRowAgrees, Running

\* Every step of the service keeps the invariant: one case per action.
LEMMA NextIInv == IInv /\ [Next]_vars => IInv'
<1> SUFFICES ASSUME IInv, [Next]_vars PROVE IInv'
  OBVIOUS
<1> USE DEF Commit
<1>0. C \in ConfigType /\ wall \in Wall /\ mono \in Nat /\ cfg \in Profiles
  BY ConfigAssumption DEF IInv, TypeOK, C
<1>1. CASE Advance
  <2>1. wall' \in Wall /\ mono' \in Nat /\ out' \in Seq(Event)
    BY <1>0, <1>1, ClockAssumption DEF Advance, Wall
  <2>2. mem' = mem /\ db' = db /\ cfg' = cfg
    BY <1>1 DEF Advance
  <2> QED BY <2>1, <2>2 DEF IInv, TypeOK, LedgerAgrees, PendingOfSession, TimerRowAgrees, Running
<1>2. CASE SetWall
  <2>1. wall' \in Wall /\ mono' = mono /\ out' \in Seq(Event)
    BY <1>2, ClockAssumption DEF SetWall
  <2>2. mem' = mem /\ db' = db /\ cfg' = cfg
    BY <1>2 DEF SetWall
  <2> QED BY <2>1, <2>2 DEF IInv, TypeOK, LedgerAgrees, PendingOfSession, TimerRowAgrees, Running
<1>3. CASE TickLoop
  BY <1>0, <1>3, TickedGood, StepIInv DEF TickLoop
<1>4. CASE GameReported
  <2>1. PICK g \in Games : Commit(set_game(Ticked, g))
    BY <1>4 DEF GameReported
  <2>2. Good(set_game(Ticked, g))
    BY <1>0, <1>4, TickedGood, SetGameGood DEF GameReported
  <2> QED BY <1>0, <2>1, <2>2, StepIInv
<1>5. CASE GameCleared
  BY <1>0, <1>5, TickedGood, StopGameGood, StepIInv DEF GameCleared
<1>6. CASE Suspend
  BY <1>0, <1>6, TickedGood, SuspendGood, StepIInv DEF Suspend
<1>7. CASE Resume
  BY <1>0, <1>7, TickedGood, ResumeGood, StepIInv DEF Resume
<1>8. CASE StartTimer
  <2>1. PICK n \in TimerDurations, a \in TimerActions : Commit(start_timer(Ticked, n, a))
    BY <1>8 DEF StartTimer
  <2>2. Good(start_timer(Ticked, n, a))
    BY <1>8, TickedGood, StartTimerGood DEF StartTimer
  <2> QED BY <1>0, <2>1, <2>2, StepIInv
<1>9. CASE PauseTimer
  BY <1>0, <1>9, TickedGood, PauseTimerGood, StepIInv DEF PauseTimer
<1>10. CASE ResumeTimer
  BY <1>0, <1>10, TickedGood, ResumeTimerGood, StepIInv DEF ResumeTimer
<1>11. CASE CancelTimer
  BY <1>0, <1>11, TickedGood, CancelTimerGood, StepIInv DEF CancelTimer
<1>12. CASE AdjustTimer
  <2>1. PICK n \in Adjustments : Commit(adjust_timer(Ticked, C, n))
    BY <1>12 DEF AdjustTimer
  <2>2. Good(adjust_timer(Ticked, C, n))
    BY <1>0, <1>12, TickedGood, AdjustTimerGood DEF AdjustTimer
  <2> QED BY <1>0, <2>1, <2>2, StepIInv
<1>13. CASE GrantDailyTime
  <2>1. PICK n \in Grants : Commit(grant_daily_time(Ticked, C, n))
    BY <1>13 DEF GrantDailyTime
  <2>2. Good(grant_daily_time(Ticked, C, n))
    BY <1>0, <1>13, TickedGood, GrantGood DEF GrantDailyTime
  <2> QED BY <1>0, <2>1, <2>2, StepIInv
<1>14. CASE UpdateConfig
  <2>1. PICK p \in Profiles : cfg' = p /\ Step(update_config(Ticked, C, Config[p]))
    BY <1>14 DEF UpdateConfig
  <2>2. Config[p] \in ConfigType
    BY ConfigAssumption
  <2>3. Good(update_config(Ticked, C, Config[p]))
    BY <1>0, <1>14, <2>2, TickedGood, UpdateConfigGood DEF UpdateConfig
  <2> QED BY <2>1, <2>3, StepIInv
<1>15. CASE ClearHistory
  BY <1>0, <1>15, RunningGood, ClearHistoryGood, StepIInv DEF ClearHistory
<1>16. CASE RestartCheckpoint
  <2>1. Good(IF mem.game = None THEN S ELSE checkpoint_session(S))
    BY <1>16, RunningGood, CheckpointGood DEF RestartCheckpoint
  <2> QED BY <1>0, <1>16, <2>1, StepIInv DEF RestartCheckpoint
<1>17. CASE Shutdown
  <2>1. Good(shutdown(Ticked))
    BY <1>17, TickedGood, ShutdownGood DEF Shutdown
  <2>2. /\ shutdown(Ticked).db \in Db
        /\ TimerConsistent(shutdown(Ticked).db.timer)
        /\ shutdown(Ticked).out \in Seq(Event)
    BY <2>1, Parts DEF Good
  <2> QED BY <1>0, <1>17, <2>2, StopIInv DEF Shutdown
<1>18. CASE Crash
  <2>1. PICK t \in CrashStages(S, C) : db' = t.db
    BY <1>18 DEF Crash
  <2>2. t.db \in Db /\ TimerConsistent(t.db.timer)
    BY <1>0, <1>18, RunningGood, CrashGood DEF Crash
  <2> QED BY <1>0, <1>18, <2>1, <2>2, StopIInv DEF Crash
<1>19. CASE Boot
  <2>1. db \in Db /\ TimerConsistent(db.timer)
    BY DEF IInv, TypeOK, TimerRowAgrees
  <2>2. Good(boot(db, C))
    BY <1>0, <2>1, BootGood
  <2> QED BY <1>0, <1>19, <2>2, StepIInv DEF Boot
<1>20. CASE BootDies
  <2>1. db \in Db /\ TimerConsistent(db.timer) /\ mem = None
    BY <1>20 DEF IInv, TypeOK, TimerRowAgrees, BootDies, Running
  <2>2. Good(RecoverSession(Loaded(db, C)))
    BY <1>0, <2>1, RecoverSessionGood
  <2>3. db' \in Db /\ TimerConsistent(db'.timer) /\ out' \in Seq(Event)
    BY <1>20, <2>2, Parts DEF BootDies, Good
  <2> QED BY <1>0, <1>20, <2>1, <2>3, StopIInv DEF BootDies
<1>21. CASE UpdateDies
  <2>1. PICK p \in Profiles : cfg' = p /\ \E t \in UpdateStages(S, C, Config[p]) : db' = t.db
    BY <1>21 DEF UpdateDies
  <2>2. PICK t \in UpdateStages(S, C, Config[p]) : db' = t.db
    BY <2>1
  <2>3. Config[p] \in ConfigType
    BY ConfigAssumption
  <2>4. t.db \in Db /\ TimerConsistent(t.db.timer)
    BY <1>0, <1>21, <2>3, RunningGood, UpdateStagesGood DEF UpdateDies
  <2> QED BY <1>21, <2>1, <2>2, <2>4, StopIInv DEF UpdateDies
<1>22. CASE AdjustDies
  <2>1. PICK n \in Adjustments : db' = AdjustCut(Ticked, n).db
    BY <1>22 DEF AdjustDies
  <2>2. Good(AdjustCut(Ticked, n))
    BY <1>22, TickedGood, AdjustCutGood DEF AdjustDies
  <2>3. AdjustCut(Ticked, n).db \in Db /\ TimerConsistent(AdjustCut(Ticked, n).db.timer)
    BY <2>2, Parts DEF Good
  <2> QED BY <1>0, <1>22, <2>1, <2>3, StopIInv DEF AdjustDies
<1>23. CASE UNCHANGED vars
  BY <1>23 DEF vars, IInv, TypeOK, LedgerAgrees, PendingOfSession, TimerRowAgrees, Running
<1> QED
  BY <1>1, <1>2, <1>3, <1>4, <1>5, <1>6, <1>7, <1>8, <1>9, <1>10, <1>11, <1>12,
     <1>13, <1>14, <1>15, <1>16, <1>17, <1>18, <1>19, <1>20, <1>21, <1>22, <1>23 DEF Next

\* The four invariants hold together in every reachable state of the service.
THEOREM Invariance == Spec => []IInv
BY InitIInv, NextIInv, PTL DEF Spec

\* Every value of the engine and of its rows is of its type: no count, queue,
\* remaining time or sum in the database is ever negative, whatever the clocks do.
THEOREM TypeCorrect == Spec => []TypeOK
<1>1. IInv => TypeOK
  BY DEF IInv
<1> QED BY <1>1, Invariance, PTL

\* The play time the engine enforces is the play time the database accounts for,
\* and there is an open session row exactly while a game is timed.
THEOREM LedgerCorrect == Spec => []LedgerAgrees
<1>1. IInv => LedgerAgrees
  BY DEF IInv
<1> QED BY <1>1, Invariance, PTL

\* Heatmap time waiting in memory belongs to the running session and its day.
THEOREM QueueCorrect == Spec => []PendingOfSession
<1>1. IInv => PendingOfSession
  BY DEF IInv
<1> QED BY <1>1, Invariance, PTL

\* The timer's row is never ahead of the timer: a crash can only give time back.
THEOREM TimerCorrect == Spec => []TimerRowAgrees
<1>1. IInv => TimerRowAgrees
  BY DEF IInv
<1> QED BY <1>1, Invariance, PTL

=============================================================================
