------------------------- MODULE EngineTimerProofs -------------------------
(***************************************************************************)
(* Proofs about the countdown timer, when it may start and how far its     *)
(* row in the database may be behind, and about a tick after a tick.       *)
(*                                                                         *)
(* RefundBounded is not inductive: that the row is a little behind now     *)
(* says nothing of the next tick unless the lag is tied to the time since  *)
(* the last checkpoint of the timer.  Lagging does that: a running timer   *)
(* owes at most the time between its last checkpoint and the last tick,    *)
(* and a timer that does not run owes nothing.  OwedBounded and GapInv are *)
(* the two parts of the bound: what is counted down and not stored, and    *)
(* what no tick has counted down yet.                                      *)
(*                                                                         *)
(* The first part is about every handler and not about the timer only: it  *)
(* lists, for each function of Engine, the fields of the engine object and *)
(* of the database that have the same value before and after it.  These    *)
(* proofs and those of ledger and audit cite it instead of the definitions.*)
(***************************************************************************)
EXTENDS EngineProofs

-----------------------------------------------------------------------------
(* What each part of a handler leaves alone *)

\* The play time a session has in memory and in its rows.
LedgerView(s) == <<s.mem.session_duration, s.db.closed, s.db.open>>

\* The timer, in memory and on disk, and the moment of its last checkpoint.
TimerView(s) == <<s.mem.timer, s.db.timer, s.mem.persist_mono>>

\* The baselines of the last tick, and what tells whether time is counted.
ClockView(s) == <<s.mem.tick_mono, s.mem.tick_wall, s.mem.suspended>>

\* All of the state that the restriction depends on, clock and configuration aside.
PolicyView(s) ==
    <<s.mem.day_key, s.mem.played_today, s.mem.timer, s.db.adjustment>>

Unmoved(s, t) ==
    /\ LedgerView(t) = LedgerView(s)
    /\ TimerView(t) = TimerView(s)
    /\ ClockView(t) = ClockView(s)
    /\ PolicyView(t) = PolicyView(s)
    /\ t.mem.game = s.mem.game
    /\ t.mem.checkpoint_mono = s.mem.checkpoint_mono

\* A part that only returns an event,
LEMMA EmitFrame ==
  ASSUME NEW s \in State, NEW e
  PROVE  Emit(s, e).mem = s.mem /\ Emit(s, e).db = s.db
BY DEF Emit, State

\* of whatever kind,
LEMMA NoteFrame ==
  ASSUME NEW s \in State, NEW k
  PROVE  Note(s, k).mem = s.mem /\ Note(s, k).db = s.db
BY EmitFrame DEF Note

\* the events about the clock,
LEMMA NoteClockFrame ==
  ASSUME NEW s \in State
  PROVE  NoteClock(s) \in State /\ NoteClock(s).mem = s.mem /\ NoteClock(s).db = s.db
<1> DEFINE a == Note(s, "system.suspend_inferred")
<1>1. a \in State /\ a.mem = s.mem /\ a.db = s.db
  BY NoteType, NoteFrame DEF Kinds
<1> HIDE DEF a
<1>2. /\ Note(a, "system.resume_inferred") \in State
      /\ Note(a, "system.resume_inferred").mem = s.mem
      /\ Note(a, "system.resume_inferred").db = s.db
  BY <1>1, NoteType, NoteFrame DEF Kinds
<1>3. /\ Note(s, "clock.changed") \in State
      /\ Note(s, "clock.changed").mem = s.mem
      /\ Note(s, "clock.changed").db = s.db
  BY NoteType, NoteFrame DEF Kinds
<1> QED BY <1>2, <1>3 DEF NoteClock, a

\* the events about a game that starts while restricted,
LEMMA NoteRestrictedFrame ==
  ASSUME NEW s \in State
  PROVE  NoteRestricted(s).mem = s.mem /\ NoteRestricted(s).db = s.db
BY NoteFrame DEF NoteRestricted

\* or a warning, writes nothing.
LEMMA AnnounceFrame ==
  ASSUME NEW s \in State, NEW scope, NEW new
  PROVE  Announce(s, scope, new).mem = s.mem /\ Announce(s, scope, new).db = s.db
BY EmitFrame DEF Announce

\* _flush_usage_buckets moves the queue and nothing else.
LEMMA FlushFrame ==
  ASSUME NEW s \in State
  PROVE  Unmoved(s, flush_usage_buckets(s))
<1> DEFINE t == flush_usage_buckets(s)
<1>1. /\ t.mem = [s.mem EXCEPT !.pending = NoSeconds]
      /\ t.db = [s.db EXCEPT !.buckets = [d \in Days |-> s.db.buckets[d] + s.mem.pending[d]]]
  BY DEF flush_usage_buckets, State
<1>2. s.mem \in Mem /\ s.db \in Db
  BY Parts
<1> HIDE DEF t
<1>3. /\ t.mem.session_duration = s.mem.session_duration
      /\ t.mem.timer = s.mem.timer
      /\ t.mem.persist_mono = s.mem.persist_mono
      /\ t.mem.tick_mono = s.mem.tick_mono
      /\ t.mem.tick_wall = s.mem.tick_wall
      /\ t.mem.suspended = s.mem.suspended
      /\ t.mem.day_key = s.mem.day_key
      /\ t.mem.played_today = s.mem.played_today
      /\ t.mem.game = s.mem.game
      /\ t.mem.checkpoint_mono = s.mem.checkpoint_mono
  BY <1>1, <1>2 DEF Mem
<1>4. /\ t.db.closed = s.db.closed
      /\ t.db.open = s.db.open
      /\ t.db.timer = s.db.timer
      /\ t.db.adjustment = s.db.adjustment
  BY <1>1, <1>2 DEF Db
<1>5. Unmoved(s, t)
  BY <1>3, <1>4 DEF Unmoved, LedgerView, TimerView, ClockView, PolicyView
<1> QED BY <1>5 DEF t

\* Counting play time changes the engine's counters only.
LEMMA AccountFrame ==
  ASSUME NEW s \in State, NEW n \in Nat, NEW r \in BOOLEAN
  PROVE  LET t == account_game_elapsed(s, n, r)
         IN  /\ t.db = s.db
             /\ TimerView(t) = TimerView(s)
             /\ ClockView(t) = ClockView(s)
             /\ t.mem.day_key = s.mem.day_key
             /\ t.mem.game = s.mem.game
             /\ t.mem.checkpoint_mono = s.mem.checkpoint_mono
             /\ t.mem.session_duration = s.mem.session_duration
                                         + IF s.mem.game # None THEN n ELSE 0
<1> DEFINE t == account_game_elapsed(s, n, r)
<1>1. s.mem \in Mem /\ s.db \in Db
  BY Parts
<1>2. CASE s.mem.game # None /\ n > 0
  <2>1. t.mem = Played(s.mem, n, r) /\ t.db = s.db
    BY <1>2 DEF account_game_elapsed, State
  <2> HIDE DEF t
  <2>2. /\ t.mem.session_duration = s.mem.session_duration + n
        /\ t.mem.timer = s.mem.timer
        /\ t.mem.persist_mono = s.mem.persist_mono
        /\ t.mem.tick_mono = s.mem.tick_mono
        /\ t.mem.tick_wall = s.mem.tick_wall
        /\ t.mem.suspended = s.mem.suspended
        /\ t.mem.day_key = s.mem.day_key
        /\ t.mem.game = s.mem.game
        /\ t.mem.checkpoint_mono = s.mem.checkpoint_mono
    BY <1>1, <2>1 DEF Mem, Played
  <2> QED BY <1>2, <2>1, <2>2 DEF t, TimerView, ClockView
<1>3. CASE ~(s.mem.game # None /\ n > 0)
  <2>1. t = s
    BY <1>3 DEF account_game_elapsed
  <2>2. s.mem.session_duration \in Nat
    BY Fields
  <2> QED BY <1>3, <2>1, <2>2
<1> QED BY <1>2, <1>3

\* The first step of a roll-over is the flush,
LEMMA RollFlushFrame ==
  ASSUME NEW s \in State
  PROVE  Unmoved(s, RollFlush(s))
BY FlushFrame DEF RollFlush, Unmoved

\* the second closes the row of the session,
LEMMA RollCloseFrame ==
  ASSUME NEW s \in State
  PROVE  LET t == RollClose(s)
         IN  /\ t.mem = s.mem
             /\ t.db.timer = s.db.timer
             /\ t.db.adjustment = s.db.adjustment
             /\ t.db = IF s.mem.game = None THEN s.db
                       ELSE close_session(s.db, s.mem.session_duration)
<1> DEFINE t == RollClose(s)
<1>1. t.mem = s.mem /\ t.db = IF s.mem.game = None THEN s.db
                              ELSE close_session(s.db, s.mem.session_duration)
  BY DEF RollClose, State
<1>2. s.db \in Db
  BY Parts
<1>3. /\ close_session(s.db, s.mem.session_duration).timer = s.db.timer
      /\ close_session(s.db, s.mem.session_duration).adjustment = s.db.adjustment
  BY <1>2 DEF close_session, Db
<1> QED BY <1>1, <1>3

\* the third opens that of the new day,
LEMMA RollOpenFrame ==
  ASSUME NEW s \in State, NEW day \in Days
  PROVE  LET t == RollOpen(s, day)
         IN  /\ TimerView(t) = TimerView(s)
             /\ ClockView(t) = ClockView(s)
             /\ t.mem.game = s.mem.game
             /\ t.db.adjustment = s.db.adjustment
             /\ t.db.closed = s.db.closed
             /\ t.db.open = IF s.mem.game = None THEN s.db.open
                            ELSE [day |-> day, duration |-> 0]
             /\ t.mem.session_duration = IF s.mem.game = None THEN s.mem.session_duration
                                         ELSE 0
             /\ t.mem.checkpoint_mono = IF s.mem.game = None THEN s.mem.checkpoint_mono
                                        ELSE mono
<1> DEFINE t == RollOpen(s, day)
<1>1. s.mem \in Mem /\ s.db \in Db
  BY Parts
<1>2. CASE s.mem.game # None
  <2>1. /\ t.mem = [s.mem EXCEPT !.session_duration = 0, !.checkpoint_mono = mono]
        /\ t.db = open_session(s.db, day)
    BY <1>2 DEF RollOpen, Note, Emit, State
  <2> HIDE DEF t
  <2>2. /\ t.mem.session_duration = 0
        /\ t.mem.timer = s.mem.timer
        /\ t.mem.persist_mono = s.mem.persist_mono
        /\ t.mem.tick_mono = s.mem.tick_mono
        /\ t.mem.tick_wall = s.mem.tick_wall
        /\ t.mem.suspended = s.mem.suspended
        /\ t.mem.game = s.mem.game
        /\ t.mem.checkpoint_mono = mono
    BY <1>1, <2>1 DEF Mem
  <2>3. /\ t.db.timer = s.db.timer
        /\ t.db.adjustment = s.db.adjustment
        /\ t.db.closed = s.db.closed
        /\ t.db.open = [day |-> day, duration |-> 0]
    BY <1>1, <2>1 DEF Db, open_session
  <2> QED BY <1>2, <2>2, <2>3 DEF t, TimerView, ClockView
<1>3. CASE s.mem.game = None
  BY <1>3 DEF RollOpen
<1> QED BY <1>2, <1>3

\* and the fourth sets the day.
LEMMA RollKeyFrame ==
  ASSUME NEW s \in State, NEW day \in Days
  PROVE  LET t == RollKey(s, day)
         IN  /\ t.db = s.db
             /\ TimerView(t) = TimerView(s)
             /\ ClockView(t) = ClockView(s)
             /\ LedgerView(t) = LedgerView(s)
             /\ t.mem.game = s.mem.game
             /\ t.mem.checkpoint_mono = s.mem.checkpoint_mono
             /\ t.mem.day_key = day
<1> DEFINE t == RollKey(s, day)
<1>1. s.mem \in Mem /\ s.db \in Db
  BY Parts
<1>2. /\ t.mem = [s.mem EXCEPT !.day_key = day, !.played_today = usage_for_day(s.db, day)]
      /\ t.db = s.db
  BY DEF RollKey, Note, Emit, State
<1> HIDE DEF t
<1>3. /\ t.mem.session_duration = s.mem.session_duration
      /\ t.mem.timer = s.mem.timer
      /\ t.mem.persist_mono = s.mem.persist_mono
      /\ t.mem.tick_mono = s.mem.tick_mono
      /\ t.mem.tick_wall = s.mem.tick_wall
      /\ t.mem.suspended = s.mem.suspended
      /\ t.mem.game = s.mem.game
      /\ t.mem.checkpoint_mono = s.mem.checkpoint_mono
      /\ t.mem.day_key = day
  BY <1>1, <1>2 DEF Mem
<1> QED BY <1>2, <1>3 DEF t, TimerView, ClockView, LedgerView

\* What a whole roll-over leaves alone, and where it leaves the new session.
LEMMA RollFrame ==
  ASSUME NEW s \in State, NEW day \in Days, mono \in Nat
  PROVE  LET t == roll_day(s, day)
             d == RollClose(RollFlush(s)).db
         IN  /\ TimerView(t) = TimerView(s)
             /\ ClockView(t) = ClockView(s)
             /\ t.mem.game = s.mem.game
             /\ t.mem.day_key = day
             /\ t.db.adjustment = s.db.adjustment
             /\ t.db.closed = d.closed
             /\ t.db.open = IF s.mem.game = None THEN d.open
                            ELSE [day |-> day, duration |-> 0]
             /\ t.mem.session_duration = IF s.mem.game = None THEN s.mem.session_duration
                                         ELSE 0
             /\ t.mem.checkpoint_mono = IF s.mem.game = None THEN s.mem.checkpoint_mono
                                        ELSE mono
<1> DEFINE a == RollFlush(s)
           b == RollClose(a)
           o == RollOpen(b, day)
           t == RollKey(o, day)
<1>1. a \in State /\ b \in State /\ o \in State
  BY RollFlushType, RollCloseType, RollOpenType
<1>2. Unmoved(s, a)
  BY RollFlushFrame
<1> HIDE DEF a
<1>3. b.mem = a.mem /\ b.db.timer = a.db.timer /\ b.db.adjustment = a.db.adjustment
  BY <1>1, RollCloseFrame
<1> HIDE DEF b
<1>4. /\ TimerView(o) = TimerView(b)
      /\ ClockView(o) = ClockView(b)
      /\ o.mem.game = b.mem.game
      /\ o.db.adjustment = b.db.adjustment
      /\ o.db.closed = b.db.closed
      /\ o.db.open = IF b.mem.game = None THEN b.db.open ELSE [day |-> day, duration |-> 0]
      /\ o.mem.session_duration = IF b.mem.game = None THEN b.mem.session_duration ELSE 0
      /\ o.mem.checkpoint_mono = IF b.mem.game = None THEN b.mem.checkpoint_mono ELSE mono
  BY <1>1, RollOpenFrame
<1> HIDE DEF o
<1>5. /\ t.db = o.db
      /\ TimerView(t) = TimerView(o)
      /\ ClockView(t) = ClockView(o)
      /\ LedgerView(t) = LedgerView(o)
      /\ t.mem.game = o.mem.game
      /\ t.mem.checkpoint_mono = o.mem.checkpoint_mono
      /\ t.mem.day_key = day
  BY <1>1, RollKeyFrame
<1> HIDE DEF t
<1>6. /\ TimerView(t) = TimerView(s)
      /\ ClockView(t) = ClockView(s)
      /\ t.db.adjustment = s.db.adjustment
  BY <1>2, <1>3, <1>4, <1>5 DEF Unmoved, TimerView, ClockView, PolicyView
<1>7. /\ b.mem.game = s.mem.game
      /\ b.mem.session_duration = s.mem.session_duration
      /\ b.mem.checkpoint_mono = s.mem.checkpoint_mono
  BY <1>2, <1>3 DEF Unmoved, LedgerView
<1>8. t.mem.session_duration = o.mem.session_duration
  BY <1>5 DEF LedgerView
<1>9. roll_day(s, day) = t /\ RollClose(RollFlush(s)) = b
  BY DEF roll_day, t, o, b, a
<1> QED BY <1>4, <1>5, <1>6, <1>7, <1>8, <1>9

\* The interval a tick counts before a day boundary is a part of what elapsed.
LEMMA AccountBeforeFrame ==
  ASSUME NEW s \in State, NEW c \in ConfigType, wall \in Wall, mono \in Nat
  PROVE  LET t == AccountBefore(s, c)
         IN  /\ t \in State
             /\ t.db = s.db
             /\ TimerView(t) = TimerView(s)
             /\ ClockView(t) = ClockView(s)
             /\ t.mem.day_key = s.mem.day_key
             /\ t.mem.game = s.mem.game
             /\ t.mem.checkpoint_mono = s.mem.checkpoint_mono
             /\ s.mem.session_duration <= t.mem.session_duration
             /\ t.mem.session_duration <= s.mem.session_duration + Elapsed(s)
<1> DEFINE new == c.accounting_day[wall]
           n == IF s.mem.suspended THEN 0
                ELSE IF new = s.mem.day_key THEN Elapsed(s)
                ELSE SplitBefore(Elapsed(s), s.mem.tick_wall, wall, c.day_start[new])
           r == Reliable(s)
           t == account_game_elapsed(s, n, r)
<1>1. new \in Days
  BY DEF ConfigType
<1>2. Elapsed(s) \in Nat
  BY ElapsedType
<1>3. n \in 0 .. Elapsed(s)
  BY <1>1, <1>2, SplitElapsed
<1>4. n \in Nat /\ n <= Elapsed(s) /\ r \in BOOLEAN
  BY <1>2, <1>3 DEF Reliable
<1> HIDE DEF n, r
<1>5. t \in State /\ s.mem.session_duration \in Nat
  BY <1>4, AccountType, Fields
<1>6. /\ t.db = s.db
      /\ TimerView(t) = TimerView(s)
      /\ ClockView(t) = ClockView(s)
      /\ t.mem.day_key = s.mem.day_key
      /\ t.mem.game = s.mem.game
      /\ t.mem.checkpoint_mono = s.mem.checkpoint_mono
      /\ t.mem.session_duration = s.mem.session_duration + IF s.mem.game # None THEN n ELSE 0
  BY <1>4, AccountFrame
<1>7. AccountBefore(s, c) = t
  BY DEF AccountBefore, t, n, r, new
<1> HIDE DEF t
<1>8. /\ s.mem.session_duration <= t.mem.session_duration
      /\ t.mem.session_duration <= s.mem.session_duration + Elapsed(s)
  BY <1>2, <1>4, <1>5, <1>6
<1> QED BY <1>5, <1>6, <1>7, <1>8

\* A tick's accounting keeps timer, clock and game and ends on the day of now.
LEMMA AccountElapsedFrame ==
  ASSUME NEW s \in State, NEW c \in ConfigType, wall \in Wall, mono \in Nat
  PROVE  LET t == AccountElapsed(s, c)
         IN  /\ t \in State
             /\ TimerView(t) = TimerView(s)
             /\ ClockView(t) = ClockView(s)
             /\ t.mem.game = s.mem.game
             /\ t.mem.day_key = c.accounting_day[wall]
             /\ t.db.adjustment = s.db.adjustment
<1> DEFINE new    == c.accounting_day[wall]
           before == SplitBefore(Elapsed(s), s.mem.tick_wall, wall, c.day_start[new])
           rest   == Elapsed(s) - before
           a      == AccountBefore(s, c)
           rolled == roll_day(a, new)
           r      == Reliable(s)
           e      == account_game_elapsed(rolled, rest, r)
           f      == flush_usage_buckets(e)
<1>1. new \in Days /\ Elapsed(s) \in Nat
  BY ElapsedType DEF ConfigType
<1>2. rest \in Nat /\ r \in BOOLEAN
  BY <1>1, SplitElapsed DEF Reliable
<1> HIDE DEF rest, r
<1>3. /\ a \in State
      /\ a.db = s.db
      /\ TimerView(a) = TimerView(s)
      /\ ClockView(a) = ClockView(s)
      /\ a.mem.day_key = s.mem.day_key
      /\ a.mem.game = s.mem.game
  BY AccountBeforeFrame
<1> HIDE DEF a
<1>4. /\ rolled \in State
      /\ TimerView(rolled) = TimerView(a)
      /\ ClockView(rolled) = ClockView(a)
      /\ rolled.mem.game = a.mem.game
      /\ rolled.mem.day_key = new
      /\ rolled.db.adjustment = a.db.adjustment
  BY <1>1, <1>3, RollType, RollFrame
<1> HIDE DEF rolled
<1>5. /\ e \in State
      /\ TimerView(e) = TimerView(rolled)
      /\ ClockView(e) = ClockView(rolled)
      /\ e.mem.game = rolled.mem.game
      /\ e.mem.day_key = rolled.mem.day_key
      /\ e.db = rolled.db
  BY <1>2, <1>4, AccountType, AccountFrame
<1> HIDE DEF e
<1>6. f \in State /\ Unmoved(e, f)
  BY <1>5, FlushType, FlushFrame
<1> HIDE DEF f
<1>7. f.mem.day_key = new /\ f.db.adjustment = s.db.adjustment
  BY <1>3, <1>4, <1>5, <1>6 DEF Unmoved, PolicyView
<1>8. TimerView(f) = TimerView(s) /\ ClockView(f) = ClockView(s) /\ f.mem.game = s.mem.game
  BY <1>3, <1>4, <1>5, <1>6 DEF Unmoved
<1>9. AccountElapsed(s, c) = IF new = s.mem.day_key THEN a
                             ELSE IF s.mem.suspended THEN rolled ELSE f
  BY DEF AccountElapsed, f, e, rolled, a, rest, before, r, new
<1> QED BY <1>3, <1>4, <1>6, <1>7, <1>8, <1>9

\* The elapse of the timer touches the timer only.
LEMMA TimerElapseFrame ==
  ASSUME NEW s \in State, NEW c \in ConfigType, mono \in Nat
  PROVE  LET t == TimerElapse(s, c)
         IN  /\ LedgerView(t) = LedgerView(s)
             /\ ClockView(t) = ClockView(s)
             /\ t.mem.day_key = s.mem.day_key
             /\ t.mem.game = s.mem.game
             /\ t.mem.checkpoint_mono = s.mem.checkpoint_mono
             /\ t.mem.persist_mono = s.mem.persist_mono
             /\ t.db.adjustment = s.db.adjustment
<1> DEFINE left == Max0(s.mem.timer.remaining - Elapsed(s))
           a    == [s EXCEPT !.mem.timer.remaining = left]
           dead == [s.mem.timer EXCEPT !.remaining = 0, !.state = "expired"]
           m    == [s EXCEPT !.mem.timer = dead]
           b    == save_timer(m)
<1>1. s.mem \in Mem /\ s.db \in Db
  BY Parts
<1>2. /\ a.db = s.db
      /\ LedgerView(a) = LedgerView(s)
      /\ ClockView(a) = ClockView(s)
      /\ a.mem.day_key = s.mem.day_key
      /\ a.mem.game = s.mem.game
      /\ a.mem.checkpoint_mono = s.mem.checkpoint_mono
      /\ a.mem.persist_mono = s.mem.persist_mono
  BY DEF State, Mem, Db, LedgerView, ClockView
<1>3. dead \in Timer
  <2>1. 0 \in 0 .. MaxTimer
    BY TimerAssumption
  <2> QED BY <2>1, Fields DEF Timer, TimerStates
<1> HIDE DEF dead
<1>4. m \in State
  BY <1>3 DEF State, Mem
<1>5. b \in State /\ b.mem = m.mem
  BY <1>4, SaveTimerType DEF save_timer, State
<1>6. /\ LedgerView(b) = LedgerView(s)
      /\ ClockView(b) = ClockView(s)
      /\ b.mem.day_key = s.mem.day_key
      /\ b.mem.game = s.mem.game
      /\ b.mem.checkpoint_mono = s.mem.checkpoint_mono
      /\ b.mem.persist_mono = s.mem.persist_mono
      /\ b.db.adjustment = s.db.adjustment
  BY DEF save_timer, State, Mem, Db, LedgerView, ClockView
<1> HIDE DEF b
<1>7. Note(b, "timer.expired").mem = b.mem /\ Note(b, "timer.expired").db = b.db
  BY <1>5, NoteFrame
<1>8. TimerElapse(s, c) \in {s, a, Note(b, "timer.expired")}
  BY DEF TimerElapse, a, b, m, dead, left
<1> HIDE DEF a
<1> QED BY <1>2, <1>6, <1>7, <1>8 DEF LedgerView, ClockView

\* Writing the checkpoint of a session touches its row only,
LEMMA CheckpointFrame ==
  ASSUME NEW s \in State, s.db.open # None
  PROVE  LET t == checkpoint_session(s)
         IN  /\ t.mem = s.mem
             /\ t.db.timer = s.db.timer
             /\ t.db.adjustment = s.db.adjustment
             /\ t.db.closed = s.db.closed
             /\ t.db.open = [day |-> s.db.open.day, duration |-> s.mem.session_duration]
<1> DEFINE t == checkpoint_session(s)
<1>1. /\ t.mem = s.mem
      /\ t.db.timer = s.db.timer
      /\ t.db.adjustment = s.db.adjustment
      /\ t.db.closed = s.db.closed
      /\ t.db.open = [s.db.open EXCEPT !.duration = s.mem.session_duration]
  BY DEF checkpoint_session, State, Db
<1>2. s.db.open \in SessionRow
  BY Fields
<1>3. [s.db.open EXCEPT !.duration = s.mem.session_duration]
        = [day |-> s.db.open.day, duration |-> s.mem.session_duration]
  BY <1>2 DEF SessionRow
<1> QED BY <1>1, <1>3

\* in a tick too,
LEMMA CheckpointRowFrame ==
  ASSUME NEW s \in State, NEW c, s.mem.game # None => s.db.open # None
  PROVE  LET t == CheckpointRow(s, c)
         IN  /\ t.mem = s.mem
             /\ t.db.timer = s.db.timer
             /\ t.db.adjustment = s.db.adjustment
BY CheckpointFrame DEF CheckpointRow, CheckpointDue

\* where the baseline of the checkpoint and the queue follow.
LEMMA CheckpointFlushFrame ==
  ASSUME NEW s \in State, NEW c, mono \in Nat
  PROVE  LET t == CheckpointFlush(s, c)
         IN  /\ LedgerView(t) = LedgerView(s)
             /\ TimerView(t) = TimerView(s)
             /\ ClockView(t) = ClockView(s)
             /\ PolicyView(t) = PolicyView(s)
             /\ t.mem.game = s.mem.game
             /\ t.mem.checkpoint_mono = IF CheckpointDue(s, c) THEN mono
                                        ELSE s.mem.checkpoint_mono
<1> DEFINE a == [s EXCEPT !.mem.checkpoint_mono = mono]
<1>1. /\ a \in State
      /\ LedgerView(a) = LedgerView(s)
      /\ TimerView(a) = TimerView(s)
      /\ ClockView(a) = ClockView(s)
      /\ PolicyView(a) = PolicyView(s)
      /\ a.mem.game = s.mem.game
      /\ a.mem.checkpoint_mono = mono
  BY DEF State, Mem, LedgerView, TimerView, ClockView, PolicyView
<1> HIDE DEF a
<1>2. Unmoved(a, flush_usage_buckets(a))
  BY <1>1, FlushFrame
<1>3. CheckpointFlush(s, c) = IF CheckpointDue(s, c) THEN flush_usage_buckets(a) ELSE s
  BY DEF CheckpointFlush, a
<1> QED BY <1>1, <1>2, <1>3 DEF Unmoved

\* The timer's checkpoint touches its row and its baseline.
LEMMA PersistFrame ==
  ASSUME NEW s \in State, NEW c, mono \in Nat
  PROVE  LET t == PersistTimer(s, c)
         IN  /\ LedgerView(t) = LedgerView(s)
             /\ ClockView(t) = ClockView(s)
             /\ PolicyView(t) = PolicyView(s)
             /\ t.mem.game = s.mem.game
             /\ t.mem.checkpoint_mono = s.mem.checkpoint_mono
<1> DEFINE a == save_timer([s EXCEPT !.mem.persist_mono = mono])
<1>1. /\ LedgerView(a) = LedgerView(s)
      /\ ClockView(a) = ClockView(s)
      /\ PolicyView(a) = PolicyView(s)
      /\ a.mem.game = s.mem.game
      /\ a.mem.checkpoint_mono = s.mem.checkpoint_mono
  BY DEF save_timer, State, Mem, Db, LedgerView, ClockView, PolicyView
<1> QED BY <1>1 DEF PersistTimer

\* Warnings leave marks and nothing else: those of the timer,
LEMMA WarnTimerFrame ==
  ASSUME NEW s \in State, NEW c \in ConfigType, NEW previous
  PROVE  LET t == WarnTimer(s, c, previous)
         IN  t.mem = s.mem /\ Unmoved(s, t)
<1> DEFINE crossed == Crossed(c, previous.timer, warning_snapshot(s, c).timer)
           a       == [s EXCEPT !.db.timer_marks = @ \cup crossed]
           b       == Announce(a, "timer", crossed \ s.db.timer_marks)
<1>1. crossed \in SUBSET Nat
  BY CrossedType
<1> HIDE DEF crossed
<1>2. a \in State
  BY <1>1 DEF State, Db
<1>3. /\ a.mem = s.mem
      /\ a.db.closed = s.db.closed
      /\ a.db.open = s.db.open
      /\ a.db.timer = s.db.timer
      /\ a.db.adjustment = s.db.adjustment
  BY DEF State, Db
<1> HIDE DEF a
<1>4. b.mem = a.mem /\ b.db = a.db
  BY <1>2, AnnounceFrame
<1>5. WarnTimer(s, c, previous) = b
  BY DEF WarnTimer, b, a, crossed
<1> HIDE DEF b
<1> QED BY <1>3, <1>4, <1>5 DEF Unmoved, LedgerView, TimerView, ClockView, PolicyView

\* those of the day,
LEMMA WarnDailyFrame ==
  ASSUME NEW s \in State, NEW c \in ConfigType, NEW previous
  PROVE  LET t == WarnDaily(s, c, previous)
         IN  t.mem = s.mem /\ Unmoved(s, t)
<1> DEFINE now     == warning_snapshot(s, c)
           crossed == IF previous.day = now.day
                      THEN Crossed(c, previous.daily, now.daily)
                      ELSE {}
           marks   == [s.db.daily_marks EXCEPT ![now.day] = @ \cup crossed]
           a       == [s EXCEPT !.db.daily_marks[now.day] = @ \cup crossed]
           b       == Announce(a, "daily", crossed \ s.db.daily_marks[now.day])
<1>1. crossed \in SUBSET Nat
  BY CrossedType
<1>2. now.day = s.mem.day_key /\ s.mem.day_key \in Days
  BY Fields DEF warning_snapshot
<1> HIDE DEF crossed, now
<1>3. marks \in [Days -> SUBSET Nat]
  BY <1>1, <1>2, Parts DEF Db
<1>4. a.db = [s.db EXCEPT !.daily_marks = marks] /\ a.mem = s.mem /\ a.out = s.out
  BY Parts DEF State, Db
<1>5. a = [s EXCEPT !.db = [s.db EXCEPT !.daily_marks = marks]]
  BY DEF State, Db
<1>6. [s.db EXCEPT !.daily_marks = marks] \in Db
  BY <1>3, Parts DEF Db
<1>7. a \in State
  BY <1>5, <1>6, SetDb
<1> HIDE DEF a, marks
<1>8. /\ a.db.closed = s.db.closed
      /\ a.db.open = s.db.open
      /\ a.db.timer = s.db.timer
      /\ a.db.adjustment = s.db.adjustment
  BY <1>4, Parts DEF Db
<1>9. b.mem = a.mem /\ b.db = a.db
  BY <1>7, AnnounceFrame
<1>10. WarnDaily(s, c, previous) = b
  BY DEF WarnDaily, b, a, marks, crossed, now
<1> HIDE DEF b
<1> QED BY <1>4, <1>8, <1>9, <1>10 DEF Unmoved, LedgerView, TimerView, ClockView, PolicyView

\* and both, one after the other.
LEMMA WarningFrame ==
  ASSUME NEW s, Good(s), NEW c \in ConfigType, NEW previous
  PROVE  LET t == warning_events(s, c, previous)
         IN  t \in State /\ t.mem = s.mem /\ Unmoved(s, t)
<1> DEFINE a == WarnTimer(s, c, previous)
           t == WarnDaily(a, c, previous)
<1>1. s \in State /\ Good(a) /\ a \in State
  BY WarnTimerGood DEF Good
<1>2. a.mem = s.mem /\ Unmoved(s, a)
  BY <1>1, WarnTimerFrame
<1> HIDE DEF a
<1>3. t \in State /\ t.mem = a.mem /\ Unmoved(a, t)
  BY <1>1, WarnDailyGood, WarnDailyFrame DEF Good
<1>4. warning_events(s, c, previous) = t
  BY DEF warning_events, t, a
<1> HIDE DEF t
<1> QED BY <1>2, <1>3, <1>4 DEF Unmoved

\* The restriction depends on the policy's view of the state alone.
LEMMA SameLevel ==
  ASSUME NEW s, NEW t, NEW c, PolicyView(t) = PolicyView(s)
  PROVE  LevelOf(t, c) = LevelOf(s, c) /\ ReasonOf(t, c) = ReasonOf(s, c)
BY DEF PolicyView, LevelOf, ReasonOf, Exhausted, EffectiveLimit

\* _refresh_restriction sets reason and level to what the state calls for.
LEMMA RefreshFrame ==
  ASSUME NEW s \in State, NEW c \in ConfigType
  PROVE  LET t == refresh_restriction(s, c)
         IN  /\ t \in State
             /\ t.db = s.db
             /\ Unmoved(s, t)
             /\ t.mem.reason = ReasonOf(s, c)
             /\ t.mem.level = LevelOf(s, c)
<1> DEFINE r == ReasonOf(s, c)
           l == LevelOf(s, c)
           a == SetRestriction(s, c)
           t == refresh_restriction(s, c)
<1>1. a.mem = [s.mem EXCEPT !.reason = r, !.level = l] /\ a.db = s.db
  BY DEF SetRestriction, State
<1>2. a \in State /\ t \in State
  BY RestrictionType, RefreshType
<1> HIDE DEF a, r, l
<1>3. t.mem = a.mem /\ t.db = a.db
  BY <1>2, EmitFrame DEF refresh_restriction, a, t
<1> HIDE DEF t
<1>4. /\ t.mem.session_duration = s.mem.session_duration
      /\ t.mem.timer = s.mem.timer
      /\ t.mem.persist_mono = s.mem.persist_mono
      /\ t.mem.tick_mono = s.mem.tick_mono
      /\ t.mem.tick_wall = s.mem.tick_wall
      /\ t.mem.suspended = s.mem.suspended
      /\ t.mem.day_key = s.mem.day_key
      /\ t.mem.played_today = s.mem.played_today
      /\ t.mem.game = s.mem.game
      /\ t.mem.checkpoint_mono = s.mem.checkpoint_mono
      /\ t.mem.reason = r
      /\ t.mem.level = l
  BY <1>1, <1>3, Parts DEF Mem
<1> QED BY <1>1, <1>2, <1>3, <1>4
        DEF t, r, l, Unmoved, LedgerView, TimerView, ClockView, PolicyView

\* The tick's last assignment sets its baselines to the two clocks.
LEMMA BaselinesFrame ==
  ASSUME NEW s \in State, wall \in Wall, mono \in Nat
  PROVE  LET t == SetBaselines(s)
         IN  /\ t \in State
             /\ t.db = s.db
             /\ LedgerView(t) = LedgerView(s)
             /\ TimerView(t) = TimerView(s)
             /\ PolicyView(t) = PolicyView(s)
             /\ t.mem.game = s.mem.game
             /\ t.mem.suspended = s.mem.suspended
             /\ t.mem.checkpoint_mono = s.mem.checkpoint_mono
             /\ t.mem.reason = s.mem.reason
             /\ t.mem.level = s.mem.level
             /\ t.mem.tick_mono = mono
             /\ t.mem.tick_wall = wall
<1> DEFINE t == SetBaselines(s)
<1>1. t \in State
  BY BaselinesType
<1>2. t.mem = [s.mem EXCEPT !.tick_mono = mono, !.tick_wall = wall] /\ t.db = s.db
  BY DEF SetBaselines, State
<1> HIDE DEF t
<1>3. /\ t.mem.session_duration = s.mem.session_duration
      /\ t.mem.timer = s.mem.timer
      /\ t.mem.persist_mono = s.mem.persist_mono
      /\ t.mem.tick_mono = mono
      /\ t.mem.tick_wall = wall
      /\ t.mem.suspended = s.mem.suspended
      /\ t.mem.day_key = s.mem.day_key
      /\ t.mem.played_today = s.mem.played_today
      /\ t.mem.game = s.mem.game
      /\ t.mem.checkpoint_mono = s.mem.checkpoint_mono
      /\ t.mem.reason = s.mem.reason
      /\ t.mem.level = s.mem.level
  BY <1>2, Parts DEF Mem
<1> QED BY <1>1, <1>2, <1>3 DEF t, LedgerView, TimerView, PolicyView

-----------------------------------------------------------------------------
(* The handlers that follow a tick. *)

\* _close_current_game closes the row and forgets the session.
LEMMA CloseGameFrame ==
  ASSUME NEW s \in State
  PROVE  LET t == close_current_game(s)
             d == close_session(s.db, s.mem.session_duration)
         IN  /\ TimerView(t) = TimerView(s)
             /\ ClockView(t) = ClockView(s)
             /\ t.mem.day_key = s.mem.day_key
             /\ t.mem.checkpoint_mono = s.mem.checkpoint_mono
             /\ t.db.adjustment = s.db.adjustment
             /\ t.mem.game = None
             /\ t.mem.session_duration = 0
             /\ t.db.closed = IF s.mem.game = None THEN s.db.closed ELSE d.closed
             /\ t.db.open = IF s.mem.game = None THEN s.db.open ELSE d.open
<1> DEFINE d == close_session(s.db, s.mem.session_duration)
           t == close_current_game(s)
<1>1. CASE s.mem.game = None
  <2>1. t = [s EXCEPT !.mem.session_duration = 0]
    BY <1>1 DEF close_current_game
  <2> HIDE DEF t
  <2>2. /\ t.db = s.db
        /\ TimerView(t) = TimerView(s)
        /\ ClockView(t) = ClockView(s)
        /\ t.mem.day_key = s.mem.day_key
        /\ t.mem.checkpoint_mono = s.mem.checkpoint_mono
        /\ t.mem.game = s.mem.game
        /\ t.mem.session_duration = 0
    BY <2>1 DEF State, Mem, TimerView, ClockView
  <2> QED BY <1>1, <2>2 DEF t
<1>2. CASE s.mem.game # None
  <2> DEFINE f == flush_usage_buckets(s)
             m == [f.mem EXCEPT !.game = None, !.session_duration = 0]
             e == close_session(f.db, s.mem.session_duration)
             u == [f EXCEPT !.db = e, !.mem = m]
  <2>1. f \in State /\ Unmoved(s, f) /\ s.mem.session_duration \in Nat
    BY FlushType, FlushFrame, Fields
  <2>2. t = Note(u, "game.stopped")
    BY <1>2 DEF close_current_game
  <2> HIDE DEF f
  <2>3. m \in Mem /\ e \in Db
    BY <2>1, CloseType, Parts DEF Mem
  <2>4. u \in State /\ u.mem = m /\ u.db = e
    BY <2>1, <2>3, SetBoth DEF State
  <2>5. /\ m.timer = f.mem.timer
        /\ m.persist_mono = f.mem.persist_mono
        /\ m.tick_mono = f.mem.tick_mono
        /\ m.tick_wall = f.mem.tick_wall
        /\ m.suspended = f.mem.suspended
        /\ m.day_key = f.mem.day_key
        /\ m.checkpoint_mono = f.mem.checkpoint_mono
        /\ m.game = None
        /\ m.session_duration = 0
    BY <2>1, Parts DEF Mem
  <2>6. f.db.closed = s.db.closed /\ f.db.open = s.db.open
    BY <2>1 DEF Unmoved, LedgerView
  <2>7. f.db \in Db /\ s.db \in Db
    BY <2>1, Parts
  <2>8. /\ e.closed = d.closed
        /\ e.open = d.open
        /\ e.timer = f.db.timer
        /\ e.adjustment = f.db.adjustment
    BY <2>6, <2>7 DEF close_session, Db
  <2> HIDE DEF u, m, e, d
  <2>9. t.mem = m /\ t.db = e
    BY <2>2, <2>4, NoteFrame
  <2> HIDE DEF t
  <2> QED BY <1>2, <2>1, <2>5, <2>8, <2>9
          DEF t, d, Unmoved, TimerView, ClockView, PolicyView
<1> QED BY <1>1, <1>2

\* A session that begins has a new row of the engine's day.
LEMMA OpenGameFrame ==
  ASSUME NEW s \in State, NEW g \in Games, mono \in Nat
  PROVE  LET t == OpenGame(s, g)
         IN  /\ TimerView(t) = TimerView(s)
             /\ ClockView(t) = ClockView(s)
             /\ t.mem.day_key = s.mem.day_key
             /\ t.mem.game = g
             /\ t.mem.session_duration = 0
             /\ t.mem.checkpoint_mono = mono
             /\ t.db.closed = s.db.closed
             /\ t.db.open = [day |-> s.mem.day_key, duration |-> 0]
<1> DEFINE m == [s.mem EXCEPT !.game = g, !.session_duration = 0, !.checkpoint_mono = mono]
           e == open_session(s.db, s.mem.day_key)
           u == [s EXCEPT !.db = e, !.mem = m]
           n == Note(u, "game.started")
           t == OpenGame(s, g)
<1>1. s.mem \in Mem /\ s.db \in Db /\ s.mem.day_key \in Days
  BY Parts, Fields
<1>2. m \in Mem /\ e \in Db
  BY <1>1, OpenType DEF Mem
<1>3. u \in State /\ u.mem = m /\ u.db = e
  BY <1>2, SetBoth DEF State
<1>4. /\ m.timer = s.mem.timer
      /\ m.persist_mono = s.mem.persist_mono
      /\ m.tick_mono = s.mem.tick_mono
      /\ m.tick_wall = s.mem.tick_wall
      /\ m.suspended = s.mem.suspended
      /\ m.day_key = s.mem.day_key
      /\ m.game = g
      /\ m.session_duration = 0
      /\ m.checkpoint_mono = mono
  BY <1>1 DEF Mem
<1>5. /\ e.closed = s.db.closed
      /\ e.timer = s.db.timer
      /\ e.open = [day |-> s.mem.day_key, duration |-> 0]
  BY <1>1 DEF open_session, Db
<1>6. t = NoteRestricted(n)
  BY DEF OpenGame
<1> HIDE DEF u, m, e, t
<1>7. n \in State /\ n.mem = m /\ n.db = e
  BY <1>3, NoteType, NoteFrame DEF Kinds
<1> HIDE DEF n
<1>8. t.mem = m /\ t.db = e
  BY <1>6, <1>7, NoteRestrictedFrame
<1> QED BY <1>4, <1>5, <1>8 DEF t, TimerView, ClockView

\* A change of game leaves timer and clock alone,
LEMMA SetGameFrame ==
  ASSUME NEW s, Good(s), NEW g \in Games, mono \in Nat
  PROVE  LET t == set_game(s, g)
         IN  TimerView(t) = TimerView(s) /\ ClockView(t) = ClockView(s)
<1> DEFINE k == close_current_game(s)
           n == Note(s, "game.metadata_updated")
<1>1. s \in State /\ k \in State
  BY CloseGameGood DEF Good
<1>2. TimerView(k) = TimerView(s) /\ ClockView(k) = ClockView(s)
  BY <1>1, CloseGameFrame
<1> HIDE DEF k
<1>3. TimerView(OpenGame(k, g)) = TimerView(k) /\ ClockView(OpenGame(k, g)) = ClockView(k)
  BY <1>1, OpenGameFrame
<1>4. TimerView(n) = TimerView(s) /\ ClockView(n) = ClockView(s)
  BY <1>1, NoteFrame DEF TimerView, ClockView
<1>5. set_game(s, g) \in {n, k, OpenGame(k, g)}
  BY DEF set_game, k, n
<1> QED BY <1>2, <1>3, <1>4, <1>5

\* and so do the end of a game,
LEMMA StopGameFrame ==
  ASSUME NEW s, Good(s), NEW c \in ConfigType
  PROVE  LET t == stop_game(s, c)
         IN  TimerView(t) = TimerView(s) /\ ClockView(t) = ClockView(s)
<1> DEFINE k == close_current_game(s)
<1>1. s \in State /\ k \in State
  BY CloseGameGood DEF Good
<1>2. TimerView(k) = TimerView(s) /\ ClockView(k) = ClockView(s)
  BY <1>1, CloseGameFrame
<1> HIDE DEF k
<1>3. Unmoved(k, refresh_restriction(k, c))
  BY <1>1, RefreshFrame
<1> QED BY <1>2, <1>3 DEF stop_game, k, Unmoved

\* a suspend,
LEMMA SuspendFrame ==
  ASSUME NEW s \in State
  PROVE  LET t == suspend(s)
         IN  /\ t.db = s.db
             /\ LedgerView(t) = LedgerView(s)
             /\ TimerView(t) = TimerView(s)
             /\ t.mem.tick_mono = s.mem.tick_mono
             /\ t.mem.game = s.mem.game
             /\ t.mem.checkpoint_mono = s.mem.checkpoint_mono
<1> DEFINE a == [s EXCEPT !.mem.suspended = TRUE]
           n == Note(a, "system.suspended")
<1>1. /\ a \in State
      /\ a.db = s.db
      /\ LedgerView(a) = LedgerView(s)
      /\ TimerView(a) = TimerView(s)
      /\ a.mem.tick_mono = s.mem.tick_mono
      /\ a.mem.game = s.mem.game
      /\ a.mem.checkpoint_mono = s.mem.checkpoint_mono
  BY DEF State, Mem, LedgerView, TimerView
<1> HIDE DEF a
<1>2. n.mem = a.mem /\ n.db = a.db
  BY <1>1, NoteFrame
<1>3. suspend(s) \in {s, n}
  BY DEF suspend, n, a
<1> HIDE DEF n
<1> QED BY <1>1, <1>2, <1>3 DEF LedgerView, TimerView

\* a resume, which may roll the day over,
LEMMA ResumeFrame ==
  ASSUME NEW s, Good(s), NEW c \in ConfigType, wall \in Wall, mono \in Nat
  PROVE  LET t      == resume(s, c)
             new    == c.accounting_day[wall]
             based  == SetBaselines(s)
             rolled == IF new = s.mem.day_key THEN based ELSE roll_day(based, new)
         IN  /\ LedgerView(t) = LedgerView(rolled)
             /\ TimerView(t) = TimerView(s)
             /\ t.mem.checkpoint_mono = rolled.mem.checkpoint_mono
             /\ t.mem.tick_mono = mono
<1> DEFINE t      == resume(s, c)
           new    == c.accounting_day[wall]
           based  == SetBaselines(s)
           rolled == IF new = s.mem.day_key THEN based ELSE roll_day(based, new)
           a      == [rolled EXCEPT !.mem.suspended = FALSE]
           n      == Note(a, "system.resumed")
<1>1. s \in State /\ new \in Days
  BY DEF Good, ConfigType
<1>2. based \in State /\ TimerView(based) = TimerView(s) /\ based.mem.tick_mono = mono
  BY <1>1, BaselinesFrame
<1> HIDE DEF based, new
<1>3. /\ roll_day(based, new) \in State
      /\ TimerView(roll_day(based, new)) = TimerView(based)
      /\ roll_day(based, new).mem.tick_mono = based.mem.tick_mono
  BY <1>1, <1>2, RollType, RollFrame DEF ClockView
<1>4. /\ rolled \in State
      /\ TimerView(rolled) = TimerView(s)
      /\ rolled.mem.tick_mono = mono
  BY <1>2, <1>3
<1> HIDE DEF rolled
<1>5. /\ a \in State
      /\ LedgerView(a) = LedgerView(rolled)
      /\ TimerView(a) = TimerView(rolled)
      /\ a.mem.tick_mono = rolled.mem.tick_mono
      /\ a.mem.checkpoint_mono = rolled.mem.checkpoint_mono
  BY <1>4 DEF State, Mem, LedgerView, TimerView
<1> HIDE DEF a
<1>6. n.mem = a.mem /\ n.db = a.db
  BY <1>5, NoteFrame
<1>7. t \in {rolled, n}
  BY DEF resume, rolled, based, new, n, a
<1> HIDE DEF n, t
<1>8. /\ LedgerView(t) = LedgerView(rolled)
      /\ t.mem.checkpoint_mono = rolled.mem.checkpoint_mono
      /\ TimerView(t) = TimerView(s)
      /\ t.mem.tick_mono = mono
  BY <1>4, <1>5, <1>6, <1>7 DEF LedgerView, TimerView
<1> QED BY <1>8 DEF t, rolled, based, new

\* The marks of a scope are cleared without touching anything else.
LEMMA MarksFrame ==
  ASSUME NEW s \in State
  PROVE  /\ ClearTimerMarks(s).mem = s.mem /\ Unmoved(s, ClearTimerMarks(s))
         /\ ClearDailyMarks(s).mem = s.mem /\ Unmoved(s, ClearDailyMarks(s))
<1>1. /\ ClearTimerMarks(s).mem = s.mem
      /\ ClearTimerMarks(s).db.closed = s.db.closed
      /\ ClearTimerMarks(s).db.open = s.db.open
      /\ ClearTimerMarks(s).db.timer = s.db.timer
      /\ ClearTimerMarks(s).db.adjustment = s.db.adjustment
  BY DEF ClearTimerMarks, State, Db
<1>2. /\ ClearDailyMarks(s).mem = s.mem
      /\ ClearDailyMarks(s).db.closed = s.db.closed
      /\ ClearDailyMarks(s).db.open = s.db.open
      /\ ClearDailyMarks(s).db.timer = s.db.timer
      /\ ClearDailyMarks(s).db.adjustment = s.db.adjustment
  BY DEF ClearDailyMarks, State, Db
<1>3. Unmoved(s, ClearTimerMarks(s))
  BY <1>1 DEF Unmoved, LedgerView, TimerView, ClockView, PolicyView
<1>4. Unmoved(s, ClearDailyMarks(s))
  BY <1>2 DEF Unmoved, LedgerView, TimerView, ClockView, PolicyView
<1> QED BY <1>1, <1>2, <1>3, <1>4

\* The end of the handlers that give or take time: warnings, then the restriction.
LEMMA WarnedFrame ==
  ASSUME NEW s, Good(s), NEW c \in ConfigType, NEW previous
  PROVE  LET t == refresh_restriction(warning_events(s, c, previous), c)
         IN  t \in State /\ Unmoved(s, t)
<1> DEFINE w == warning_events(s, c, previous)
<1>1. w \in State /\ Unmoved(s, w)
  BY WarningFrame
<1> HIDE DEF w
<1>2. refresh_restriction(w, c) \in State /\ Unmoved(w, refresh_restriction(w, c))
  BY <1>1, RefreshFrame
<1> QED BY <1>1, <1>2 DEF w, Unmoved

\* A grant changes the allowance, neither play time nor timer.
LEMMA GrantFrame ==
  ASSUME NEW s, Good(s), NEW c \in ConfigType, NEW n \in Grants
  PROVE  LET t == grant_daily_time(s, c, n)
         IN  /\ LedgerView(t) = LedgerView(s)
             /\ t.mem.checkpoint_mono = s.mem.checkpoint_mono
             /\ TimerView(t) = TimerView(s)
             /\ ClockView(t) = ClockView(s)
<1> DEFINE g == Granted(s, n)
           r == IF n > 0 THEN ClearDailyMarks(g) ELSE g
           o == Note(r, "daily.adjusted")
           t == refresh_restriction(warning_events(o, c, warning_snapshot(s, c)), c)
<1>1. s \in State /\ Good(g) /\ g \in State /\ Good(r) /\ r \in State
  BY GrantedGood, ClearDailyMarksGood DEF Good
<1>2. /\ LedgerView(g) = LedgerView(s)
      /\ g.mem.checkpoint_mono = s.mem.checkpoint_mono
      /\ TimerView(g) = TimerView(s)
      /\ ClockView(g) = ClockView(s)
  BY <1>1 DEF Granted, State, Db, LedgerView, TimerView, ClockView
<1> HIDE DEF g
<1>3. r = g \/ Unmoved(g, r)
  BY <1>1, MarksFrame
<1> HIDE DEF r
<1>4. Good(o) /\ o.mem = r.mem /\ o.db = r.db
  BY <1>1, NoteGood, NoteFrame DEF Kinds
<1> HIDE DEF o
<1>5. Unmoved(o, t)
  BY <1>4, WarnedFrame
<1> HIDE DEF t
<1>6. /\ LedgerView(t) = LedgerView(s)
      /\ t.mem.checkpoint_mono = s.mem.checkpoint_mono
      /\ TimerView(t) = TimerView(s)
      /\ ClockView(t) = ClockView(s)
  BY <1>2, <1>3, <1>4, <1>5 DEF Unmoved, LedgerView, TimerView, ClockView
<1>7. grant_daily_time(s, c, n) = IF n = 0 THEN s ELSE t
  BY DEF grant_daily_time, t, o, r, g
<1> QED BY <1>6, <1>7

\* A change of configuration may roll the day over and changes no timer.
LEMMA UpdateFrame ==
  ASSUME NEW s, Good(s), NEW old \in ConfigType, NEW new \in ConfigType,
         wall \in Wall, mono \in Nat
  PROVE  LET t      == update_config(s, old, new)
             day    == new.accounting_day[wall]
             rolled == IF day = s.mem.day_key THEN s ELSE roll_day(s, day)
         IN  /\ LedgerView(t) = LedgerView(rolled)
             /\ t.mem.checkpoint_mono = rolled.mem.checkpoint_mono
             /\ TimerView(t) = TimerView(s)
             /\ ClockView(t) = ClockView(s)
<1> DEFINE previous == warning_snapshot(s, old)
           day      == new.accounting_day[wall]
           rolled   == IF day = s.mem.day_key THEN s ELSE roll_day(s, day)
           grown    == RearmGrown(rolled, new, previous)
           x        == refresh_restriction(warning_events(grown, new, previous), new)
           t        == Note(x, "config.updated")
<1>1. s \in State /\ day \in Days
  BY DEF Good, ConfigType
<1>2. Good(rolled) /\ rolled \in State
  BY <1>1, RollGood DEF Good
<1>3. TimerView(rolled) = TimerView(s) /\ ClockView(rolled) = ClockView(s)
  BY <1>1, RollFrame
<1> HIDE DEF rolled, previous, day
<1>4. Good(grown) /\ (grown = rolled \/ Unmoved(rolled, grown))
  <2> DEFINE k == ClearTimerMarks(rolled)
  <2>1. Good(k) /\ Unmoved(rolled, k) /\ k \in State
    BY <1>2, ClearTimerMarksGood, MarksFrame DEF Good
  <2> HIDE DEF k
  <2>2. Good(ClearDailyMarks(k)) /\ Unmoved(k, ClearDailyMarks(k))
    BY <2>1, ClearDailyMarksGood, MarksFrame
  <2>3. Good(ClearDailyMarks(rolled)) /\ Unmoved(rolled, ClearDailyMarks(rolled))
    BY <1>2, ClearDailyMarksGood, MarksFrame
  <2>4. grown \in {rolled, k, ClearDailyMarks(k), ClearDailyMarks(rolled)}
    BY DEF RearmGrown, k
  <2> HIDE DEF grown
  <2> QED BY <1>2, <2>1, <2>2, <2>3, <2>4 DEF Unmoved
<1> HIDE DEF grown
<1>5. x \in State /\ Unmoved(grown, x)
  BY <1>4, WarnedFrame
<1> HIDE DEF x
<1>6. t.mem = x.mem /\ t.db = x.db
  BY <1>5, NoteFrame
<1> HIDE DEF t
<1>7. /\ LedgerView(t) = LedgerView(rolled)
      /\ t.mem.checkpoint_mono = rolled.mem.checkpoint_mono
      /\ TimerView(t) = TimerView(s)
      /\ ClockView(t) = ClockView(s)
  BY <1>3, <1>4, <1>5, <1>6 DEF Unmoved, LedgerView, TimerView, ClockView
<1>8. update_config(s, old, new) = t
  BY DEF update_config, t, x, grown, rolled, previous, day
<1> QED BY <1>7, <1>8 DEF rolled, day

\* The handlers of the timer store the timer they set.
LEMMA NewTimerFrame ==
  ASSUME NEW s \in State, NEW tm \in Timer
  PROVE  LET t == save_timer([s EXCEPT !.mem.timer = tm])
         IN  /\ t \in State
             /\ LedgerView(t) = LedgerView(s)
             /\ ClockView(t) = ClockView(s)
             /\ t.mem.persist_mono = s.mem.persist_mono
             /\ t.mem.checkpoint_mono = s.mem.checkpoint_mono
             /\ t.mem.timer = tm
             /\ t.db.timer = tm
<1> DEFINE m == [s EXCEPT !.mem.timer = tm]
           t == save_timer(m)
<1>1. /\ m \in State
      /\ m.db = s.db
      /\ m.mem.timer = tm
      /\ m.mem.session_duration = s.mem.session_duration
      /\ m.mem.persist_mono = s.mem.persist_mono
      /\ m.mem.checkpoint_mono = s.mem.checkpoint_mono
      /\ ClockView(m) = ClockView(s)
  BY DEF State, Mem, ClockView
<1> HIDE DEF m
<1>2. /\ t \in State
      /\ t.mem = m.mem
      /\ t.db.timer = m.mem.timer
      /\ t.db.closed = m.db.closed
      /\ t.db.open = m.db.open
  BY <1>1, SaveTimerType DEF save_timer, State, Db
<1> HIDE DEF t
<1>3. /\ t \in State
      /\ LedgerView(t) = LedgerView(s)
      /\ ClockView(t) = ClockView(s)
      /\ t.mem.persist_mono = s.mem.persist_mono
      /\ t.mem.checkpoint_mono = s.mem.checkpoint_mono
      /\ t.mem.timer = tm
      /\ t.db.timer = tm
  BY <1>1, <1>2 DEF LedgerView, ClockView
<1> QED BY <1>3 DEF t, m

\* What a handler of the timer may do: set one and store it, or nothing to it.
TimerOnly(s, t) ==
    /\ LedgerView(t) = LedgerView(s)
    /\ t.mem.tick_mono = s.mem.tick_mono
    /\ t.mem.persist_mono = s.mem.persist_mono
    /\ t.mem.checkpoint_mono = s.mem.checkpoint_mono
    /\ TimerView(t) = TimerView(s) \/ t.db.timer = t.mem.timer

\* start_timer is refused at a level of 1 or more,
LEMMA StartTimerFrame ==
  ASSUME NEW s, Good(s), NEW n \in TimerDurations, NEW a \in TimerActions
  PROVE  LET t == start_timer(s, n, a)
         IN  TimerOnly(s, t) /\ (t.mem.timer = s.mem.timer \/ s.mem.level = 0)
<1> DEFINE tm == [state |-> "running", remaining |-> n, action |-> a]
           x  == save_timer([s EXCEPT !.mem.timer = tm])
           k  == ClearTimerMarks(x)
           t  == Note(k, "timer.started")
<1>1. s \in State /\ s.mem.level \in 0 .. 3
  BY Parts DEF Good, Mem
<1>2. CASE ~(s.mem.level >= 1 \/ n \notin MinTimer .. MaxTimer)
  <2>1. tm \in Timer
    BY <1>2, TimerAssumption DEF Timer, TimerStates
  <2> HIDE DEF tm
  <2>2. /\ x \in State
        /\ LedgerView(x) = LedgerView(s)
        /\ ClockView(x) = ClockView(s)
        /\ x.mem.persist_mono = s.mem.persist_mono
        /\ x.mem.checkpoint_mono = s.mem.checkpoint_mono
        /\ x.mem.timer = tm
        /\ x.db.timer = tm
    BY <1>1, <2>1, NewTimerFrame
  <2> HIDE DEF x
  <2>3. k \in State /\ Unmoved(x, k)
    BY <2>2, MarksFrame DEF ClearTimerMarks, State, Db
  <2> HIDE DEF k
  <2>4. t.mem = k.mem /\ t.db = k.db
    BY <2>3, NoteFrame
  <2> HIDE DEF t
  <2>5. TimerOnly(s, t)
    BY <2>2, <2>3, <2>4 DEF TimerOnly, Unmoved, LedgerView, TimerView, ClockView
  <2>6. start_timer(s, n, a) = t /\ s.mem.level = 0
    BY <1>1, <1>2 DEF start_timer, t, k, x, tm
  <2> QED BY <2>5, <2>6
<1>3. CASE s.mem.level >= 1 \/ n \notin MinTimer .. MaxTimer
  BY <1>3 DEF start_timer, TimerOnly
<1> QED BY <1>2, <1>3

\* a change of the state alone is stored,
LEMMA TimerStateFrame ==
  ASSUME NEW s \in State, NEW x \in TimerStates, NEW k
  PROVE  LET t == Note(save_timer([s EXCEPT !.mem.timer.state = x]), k)
         IN  TimerOnly(s, t) /\ t.mem.timer.state = x
<1> DEFINE tm == [s.mem.timer EXCEPT !.state = x]
           u  == save_timer([s EXCEPT !.mem.timer = tm])
           t  == Note(u, k)
<1>1. tm \in Timer /\ tm.state = x
  BY Fields DEF Timer
<1>2. [s EXCEPT !.mem.timer.state = x] = [s EXCEPT !.mem.timer = tm]
  BY DEF State, Mem
<1> HIDE DEF tm
<1>3. /\ u \in State
      /\ LedgerView(u) = LedgerView(s)
      /\ ClockView(u) = ClockView(s)
      /\ u.mem.persist_mono = s.mem.persist_mono
      /\ u.mem.checkpoint_mono = s.mem.checkpoint_mono
      /\ u.mem.timer = tm
      /\ u.db.timer = tm
  BY <1>1, NewTimerFrame
<1> HIDE DEF u
<1>4. t.mem = u.mem /\ t.db = u.db
  BY <1>3, NoteFrame
<1> HIDE DEF t
<1>5. TimerOnly(s, t) /\ t.mem.timer.state = x
  BY <1>1, <1>3, <1>4 DEF TimerOnly, LedgerView, TimerView, ClockView
<1> QED BY <1>2, <1>5 DEF t, u

\* as pause_timer does,
LEMMA PauseTimerFrame ==
  ASSUME NEW s \in State
  PROVE  LET t == pause_timer(s)
         IN  /\ TimerOnly(s, t)
             /\ t.mem.timer.state = "running" => s.mem.timer.state = "running"
<1>1. "paused" \in TimerStates
  BY DEF TimerStates
<1> QED BY <1>1, TimerStateFrame DEF pause_timer, TimerOnly

\* and resume_timer, at level 0,
LEMMA ResumeTimerFrame ==
  ASSUME NEW s \in State
  PROVE  LET t == resume_timer(s)
         IN  TimerOnly(s, t) /\ (t.mem.timer = s.mem.timer \/ s.mem.level = 0)
<1>1. "running" \in TimerStates /\ s.mem.level \in 0 .. 3
  BY Parts DEF TimerStates, Mem
<1> QED BY <1>1, TimerStateFrame DEF resume_timer, TimerOnly

\* cancel_timer stores an idle timer,
LEMMA CancelTimerFrame ==
  ASSUME NEW s, Good(s), NEW c \in ConfigType
  PROVE  LET t == cancel_timer(s, c)
         IN  TimerOnly(s, t) /\ t.mem.timer.state # "running"
<1> DEFINE x == save_timer([s EXCEPT !.mem.timer = IdleTimer])
           k == ClearTimerMarks(x)
           n == Note(k, "timer.cancelled")
           t == refresh_restriction(n, c)
<1>1. s \in State /\ IdleTimer \in Timer /\ IdleTimer.state = "idle"
  BY TimerAssumption DEF Good, IdleTimer, Timer, TimerStates, Actions
<1>2. /\ x \in State
      /\ LedgerView(x) = LedgerView(s)
      /\ ClockView(x) = ClockView(s)
      /\ x.mem.persist_mono = s.mem.persist_mono
      /\ x.mem.checkpoint_mono = s.mem.checkpoint_mono
      /\ x.mem.timer = IdleTimer
      /\ x.db.timer = IdleTimer
  BY <1>1, NewTimerFrame
<1> HIDE DEF x
<1>3. k \in State /\ Unmoved(x, k)
  BY <1>2, MarksFrame DEF ClearTimerMarks, State, Db
<1> HIDE DEF k
<1>4. n \in State /\ n.mem = k.mem /\ n.db = k.db
  BY <1>3, NoteType, NoteFrame DEF Kinds
<1> HIDE DEF n
<1>5. Unmoved(n, t)
  BY <1>4, RefreshFrame
<1> HIDE DEF t
<1>6. t.mem.timer = IdleTimer /\ TimerOnly(s, t)
  BY <1>2, <1>3, <1>4, <1>5 DEF TimerOnly, Unmoved, LedgerView, TimerView, ClockView
<1>7. cancel_timer(s, c) = IF s.mem.timer.state = "idle" THEN s ELSE t
  BY DEF cancel_timer, t, n, k, x
<1> QED BY <1>1, <1>6, <1>7 DEF TimerOnly

\* and adjust_timer the same timer with another remaining time.
LEMMA AdjustTimerFrame ==
  ASSUME NEW s, Good(s), NEW c \in ConfigType, NEW n \in Adjustments
  PROVE  LET t == adjust_timer(s, c, n)
         IN  /\ TimerOnly(s, t)
             /\ t.mem.timer.state = "running" => s.mem.timer.state = "running"
<1> DEFINE tm == Adjusted(s.mem.timer, n)
           x  == save_timer([s EXCEPT !.mem.timer = tm])
           r  == IF n > 0 THEN RearmTimer(x, c) ELSE x
           o  == Note(r, "timer.adjusted")
           t  == refresh_restriction(warning_events(o, c, warning_snapshot(s, c)), c)
<1>1. s \in State /\ s.mem.timer \in Timer /\ TimerConsistent(s.mem.timer) /\ n \in Int
  BY Fields, TimerAssumption DEF Good, Behind
<1>2. CASE ~(s.mem.timer.state = "idle" \/ n = 0)
  <2>1. tm \in Timer
    BY <1>1, <1>2, AdjustedType
  <2>2. tm.state = "running" => s.mem.timer.state = "running"
    BY <1>1 DEF Adjusted, Timer
  <2>3. Good(x)
    BY <1>1, <1>2, SavedGood
  <2> HIDE DEF tm
  <2>4. /\ x \in State
        /\ LedgerView(x) = LedgerView(s)
        /\ ClockView(x) = ClockView(s)
        /\ x.mem.persist_mono = s.mem.persist_mono
        /\ x.mem.checkpoint_mono = s.mem.checkpoint_mono
        /\ x.mem.timer = tm
        /\ x.db.timer = tm
    BY <1>1, <2>1, NewTimerFrame
  <2> HIDE DEF x
  <2>5. RearmTimer(x, c) \in State
    <3> DEFINE marks == {x.mem.timer.remaining} \cap c.thresholds
    <3>1. marks \in SUBSET Nat
      BY DEF ConfigType
    <3> HIDE DEF marks
    <3>2. [x EXCEPT !.db.timer_marks = marks] \in State
      BY <2>4, <3>1 DEF State, Db
    <3> QED BY <3>2 DEF RearmTimer, marks
  <2>6. /\ RearmTimer(x, c).mem = x.mem
        /\ LedgerPart(RearmTimer(x, c)) = LedgerPart(x)
        /\ TimerPart(RearmTimer(x, c)) = TimerPart(x)
    BY <2>4 DEF RearmTimer, State, Db, LedgerPart, TimerPart
  <2>7. /\ Good(r)
        /\ r \in State
        /\ r.mem = x.mem
        /\ r.db.timer = x.db.timer
        /\ r.db.closed = x.db.closed
        /\ r.db.open = x.db.open
    <3>1. Good(RearmTimer(x, c))
      BY <2>3, <2>5, <2>6, Frame
    <3> QED BY <2>3, <2>4, <2>5, <2>6, <3>1 DEF LedgerPart, TimerPart
  <2> HIDE DEF r
  <2>8. Good(o) /\ o.mem = r.mem /\ o.db = r.db
    BY <2>7, NoteGood, NoteFrame DEF Kinds
  <2> HIDE DEF o
  <2>9. Unmoved(o, t)
    BY <2>8, WarnedFrame
  <2> HIDE DEF t
  <2>10. t.mem.timer = tm /\ TimerOnly(s, t)
    BY <2>4, <2>7, <2>8, <2>9 DEF TimerOnly, Unmoved, LedgerView, TimerView, ClockView
  <2>11. adjust_timer(s, c, n) = t
    BY <1>2 DEF adjust_timer, t, o, r, x, tm
  <2> QED BY <2>2, <2>10, <2>11
<1>3. CASE s.mem.timer.state = "idle" \/ n = 0
  BY <1>3 DEF adjust_timer, TimerOnly
<1> QED BY <1>2, <1>3

-----------------------------------------------------------------------------
(* The timer and its row *)

\* What a crash would give back of the timer.
Owed(s) == s.db.timer.remaining - s.mem.timer.remaining

Lagging(s) ==
    /\ s.mem.persist_mono <= s.mem.tick_mono
    /\ s.mem.tick_mono <= mono
    /\ Owed(s) <= s.mem.tick_mono - s.mem.persist_mono
    /\ Owed(s) > 0 => s.mem.timer.state = "running"

LagInv == Running => Lagging(S)

\* Less than a checkpoint interval was counted down and not stored, and less than
\* a tick interval has not been counted down.
OwedBounded == Running => \E p \in Profiles : Owed(S) < Config[p].checkpoint

GapInv == Running => mono - mem.tick_mono <= MaxTickGap

TimerInv == IInv /\ LagInv /\ OwedBounded /\ GapInv

\* The numbers the lag is made of.
LEMMA OwedType ==
  ASSUME NEW s, Good(s)
  PROVE  /\ s \in State
         /\ Owed(s) \in Nat
         /\ s.db.timer.remaining \in Nat
         /\ s.mem.timer.remaining \in Nat
         /\ s.mem.persist_mono \in Nat
         /\ s.mem.tick_mono \in Nat
<1>1. s \in State /\ s.mem.timer \in Timer /\ s.db.timer \in Timer
  BY Fields DEF Good
<1>2. s.mem.persist_mono \in Nat /\ s.mem.tick_mono \in Nat
  BY <1>1, Parts DEF Mem
<1>3. s.db.timer.remaining \in Nat /\ s.mem.timer.remaining \in Nat
  BY <1>1 DEF Timer
<1>4. s.mem.timer.remaining <= s.db.timer.remaining
  BY DEF Good, Behind
<1> QED BY <1>1, <1>2, <1>3, <1>4 DEF Owed

\* A tick takes no more from the timer than the time that elapsed, saves it when
\* it expires, and never sets one going.
LEMMA TimerElapseOwed ==
  ASSUME NEW s, Good(s), NEW c \in ConfigType, mono \in Nat
  PROVE  LET t == TimerElapse(s, c)
         IN  /\ Owed(t) <= Owed(s) + Elapsed(s)
             /\ t.mem.timer.state = "running" => s.mem.timer.state = "running"
             /\ t.mem.timer.state # "running" => Owed(t) = 0 \/ t = s
<1> DEFINE left == Max0(s.mem.timer.remaining - Elapsed(s))
           a    == [s EXCEPT !.mem.timer.remaining = left]
           dead == [s.mem.timer EXCEPT !.remaining = 0, !.state = "expired"]
           m    == [s EXCEPT !.mem.timer = dead]
           b    == save_timer(m)
           n    == Note(b, "timer.expired")
<1>1. /\ s \in State
      /\ Owed(s) \in Nat
      /\ s.db.timer.remaining \in Nat
      /\ s.mem.timer.remaining \in Nat
  BY OwedType
<1>2. Elapsed(s) \in Nat /\ s.mem.timer \in Timer
  BY <1>1, ElapsedType, Fields
<1>3. left \in Nat /\ s.mem.timer.remaining - left <= Elapsed(s)
  BY <1>1, <1>2 DEF Max0
<1> HIDE DEF left
<1>4. CASE TimerCounts(s, c) /\ left > 0
  <2>1. /\ a.db = s.db
        /\ a.mem.timer = [s.mem.timer EXCEPT !.remaining = left]
    BY <1>1 DEF State, Mem
  <2> HIDE DEF a
  <2>2. a.mem.timer.remaining = left /\ a.mem.timer.state = "running"
    BY <1>2, <1>4, <2>1 DEF Timer, TimerCounts
  <2>3. Owed(a) <= Owed(s) + Elapsed(s)
    BY <1>1, <1>2, <1>3, <2>1, <2>2 DEF Owed
  <2>4. TimerElapse(s, c) = a
    BY <1>4 DEF TimerElapse, a, left
  <2> QED BY <1>4, <2>2, <2>3, <2>4 DEF TimerCounts
<1>5. CASE TimerCounts(s, c) /\ ~(left > 0)
  <2>1. dead \in Timer /\ dead.state = "expired" /\ dead.remaining = 0
    <3>1. 0 \in 0 .. MaxTimer
      BY TimerAssumption
    <3> QED BY <1>2, <3>1 DEF Timer, TimerStates
  <2> HIDE DEF dead
  <2>2. m \in State /\ m.mem.timer = dead
    BY <1>1, <2>1 DEF State, Mem
  <2> HIDE DEF m
  <2>3. b \in State /\ b.mem.timer = dead /\ b.db.timer = dead
    BY <2>2, SaveTimerType DEF save_timer, State, Db
  <2> HIDE DEF b
  <2>4. n.mem = b.mem /\ n.db = b.db
    BY <2>3, NoteFrame
  <2> HIDE DEF n
  <2>5. Owed(n) = 0 /\ n.mem.timer.state = "expired"
    BY <2>1, <2>3, <2>4 DEF Owed
  <2>6. TimerElapse(s, c) = n
    BY <1>5 DEF TimerElapse, n, b, m, dead, left
  <2> QED BY <1>1, <1>2, <2>5, <2>6
<1>6. CASE ~TimerCounts(s, c)
  <2>1. TimerElapse(s, c) = s
    BY <1>6 DEF TimerElapse
  <2> QED BY <1>1, <1>2, <2>1
<1> QED BY <1>4, <1>5, <1>6

\* The checkpoint of the timer saves it, or is not due yet.
LEMMA PersistOwed ==
  ASSUME NEW s \in State, NEW c, mono \in Nat
  PROVE  LET t == PersistTimer(s, c)
         IN  /\ t.mem.timer = s.mem.timer
             /\ \/ t.mem.persist_mono = mono /\ t.db.timer = t.mem.timer
                \/ /\ TimerView(t) = TimerView(s)
                   /\ \/ s.mem.timer.state # "running"
                      \/ ~(mono - s.mem.persist_mono >= c.checkpoint)
<1> DEFINE t == PersistTimer(s, c)
           b == save_timer([s EXCEPT !.mem.persist_mono = mono])
<1>1. /\ b.mem.timer = s.mem.timer
      /\ b.mem.persist_mono = mono
      /\ b.db.timer = s.mem.timer
  BY DEF save_timer, State, Mem, Db
<1>2. t = IF s.mem.timer.state = "running" /\ mono - s.mem.persist_mono >= c.checkpoint
          THEN b ELSE s
  BY DEF PersistTimer
<1> HIDE DEF b
<1> QED BY <1>1, <1>2 DEF t

\* What a tick does to the timer before it looks at warnings and restrictions.
LEMMA TickRecordTimer ==
  ASSUME NEW s, Good(s), NEW c \in ConfigType, wall \in Wall, mono \in Nat
  PROVE  LET t == TickRecord(s, c)
         IN  /\ t.mem.timer.state = "running" => s.mem.timer.state = "running"
             /\ Lagging(s) => /\ t.mem.persist_mono <= mono
                              /\ Owed(t) <= mono - t.mem.persist_mono
                              /\ Owed(t) > 0 => t.mem.timer.state = "running"
                              /\ Owed(t) < c.checkpoint
<1> DEFINE n == NoteClock(s)
           a == AccountElapsed(n, c)
           e == TimerElapse(a, c)
           r == CheckpointRow(e, c)
           f == CheckpointFlush(r, c)
           t == PersistTimer(f, c)
<1>1. Good(n) /\ n \in State /\ n.mem = s.mem /\ n.db = s.db
  BY NoteClockGood, NoteClockFrame DEF Good
<1> HIDE DEF n
<1>2. Good(a) /\ TimerView(a) = TimerView(n) /\ ClockView(a) = ClockView(n)
  BY <1>1, AccountElapsedGood, AccountElapsedFrame
<1> HIDE DEF a
<1>3. /\ Good(e)
      /\ Owed(e) <= Owed(a) + Elapsed(a)
      /\ e.mem.timer.state = "running" => a.mem.timer.state = "running"
      /\ e.mem.timer.state # "running" => Owed(e) = 0 \/ e = a
      /\ e.mem.persist_mono = a.mem.persist_mono
  BY <1>2, TimerElapseGood, TimerElapseOwed, TimerElapseFrame DEF Good
<1> HIDE DEF e
<1>4. Good(r) /\ r.mem = e.mem /\ r.db.timer = e.db.timer
  BY <1>3, CheckpointRowGood, CheckpointRowFrame DEF Good, Balanced
<1> HIDE DEF r
<1>5. Good(f) /\ TimerView(f) = TimerView(r)
  BY <1>4, CheckpointFlushGood, CheckpointFlushFrame DEF Good
<1> HIDE DEF f
<1>6. /\ t.mem.timer = f.mem.timer
      /\ \/ t.mem.persist_mono = mono /\ t.db.timer = t.mem.timer
         \/ /\ TimerView(t) = TimerView(f)
            /\ f.mem.timer.state # "running" \/ ~(mono - f.mem.persist_mono >= c.checkpoint)
  BY <1>5, PersistOwed DEF Good
<1>7. Good(t)
  BY <1>5, PersistTimerGood
<1> HIDE DEF t
<1>8. t.mem.timer.state = "running" => s.mem.timer.state = "running"
  BY <1>1, <1>2, <1>3, <1>4, <1>5, <1>6 DEF TimerView
<1>9. ASSUME Lagging(s)
      PROVE  /\ t.mem.persist_mono <= mono
             /\ Owed(t) <= mono - t.mem.persist_mono
             /\ Owed(t) > 0 => t.mem.timer.state = "running"
             /\ Owed(t) < c.checkpoint
  <2>1. /\ Owed(s) \in Nat /\ s.mem.persist_mono \in Nat /\ s.mem.tick_mono \in Nat
        /\ Owed(f) \in Nat /\ Owed(t) \in Nat
        /\ t.db.timer.remaining \in Nat
    BY <1>5, <1>7, OwedType
  <2>2. Owed(a) = Owed(s) /\ a.mem.tick_mono = s.mem.tick_mono
        /\ a.mem.persist_mono = s.mem.persist_mono
    BY <1>1, <1>2 DEF TimerView, ClockView, Owed
  <2>3. Elapsed(a) = mono - s.mem.tick_mono
    BY <1>9, <2>1, <2>2 DEF Elapsed, Max0, Lagging
  <2>4. Owed(f) = Owed(e) /\ f.mem.persist_mono = s.mem.persist_mono
        /\ f.mem.timer = e.mem.timer
    BY <1>3, <1>4, <1>5, <2>2 DEF TimerView, Owed
  <2>5. Owed(f) <= mono - s.mem.persist_mono
    <3>1. Owed(f) <= Owed(s) + (mono - s.mem.tick_mono)
      BY <1>3, <2>2, <2>3, <2>4
    <3>2. Owed(s) <= s.mem.tick_mono - s.mem.persist_mono
      BY <1>9 DEF Lagging
    <3> QED BY <2>1, <3>1, <3>2
  <2>6. Owed(f) > 0 => f.mem.timer.state = "running"
    <3>1. a.mem.timer = s.mem.timer
      BY <1>1, <1>2 DEF TimerView
    <3> QED BY <1>3, <1>9, <2>1, <2>2, <2>4, <3>1 DEF Lagging
  <2>7. c.checkpoint \in Nat \ {0}
    BY DEF ConfigType
  <2>8. CASE t.mem.persist_mono = mono /\ t.db.timer = t.mem.timer
    <3>1. Owed(t) = 0
      BY <2>1, <2>8 DEF Owed
    <3> QED BY <2>7, <2>8, <3>1
  <2>9. CASE /\ TimerView(t) = TimerView(f)
             /\ f.mem.timer.state # "running" \/ ~(mono - f.mem.persist_mono >= c.checkpoint)
    <3>1. /\ Owed(t) = Owed(f)
          /\ t.mem.persist_mono = s.mem.persist_mono
          /\ t.mem.timer = f.mem.timer
      BY <2>4, <2>9 DEF TimerView, Owed
    <3>2. s.mem.persist_mono <= mono
      BY <1>9, <2>1 DEF Lagging
    <3>3. Owed(t) < c.checkpoint
      BY <2>1, <2>4, <2>5, <2>6, <2>7, <2>9, <3>1
    <3> QED BY <2>5, <2>6, <3>1, <3>2, <3>3
  <2> QED BY <1>6, <2>8, <2>9
<1>10. TickRecord(s, c) = t
  BY DEF TickRecord, t, f, r, e, a, n
<1> QED BY <1>8, <1>9, <1>10

\* After a tick the level is what the state calls for, no timer was set going,
\* and what the timer's row is behind is less than a checkpoint interval.
LEMMA TickTimer ==
  ASSUME NEW s, Good(s), NEW c \in ConfigType, wall \in Wall, mono \in Nat
  PROVE  LET t == Tick(s, c)
         IN  /\ t.mem.level = LevelOf(t, c)
             /\ t.mem.tick_mono = mono
             /\ t.mem.timer.state = "running" => s.mem.timer.state = "running"
             /\ Lagging(s) => Lagging(t) /\ Owed(t) < c.checkpoint
<1> DEFINE x == TickRecord(s, c)
           w == warning_events(x, c, warning_snapshot(s, c))
           r == refresh_restriction(w, c)
           t == SetBaselines(r)
<1>1. /\ Good(x)
      /\ x.mem.timer.state = "running" => s.mem.timer.state = "running"
      /\ Lagging(s) => /\ x.mem.persist_mono <= mono
                       /\ Owed(x) <= mono - x.mem.persist_mono
                       /\ Owed(x) > 0 => x.mem.timer.state = "running"
                       /\ Owed(x) < c.checkpoint
  BY TickRecordGood, TickRecordTimer
<1> HIDE DEF x
<1>2. w \in State /\ Unmoved(x, w)
  BY <1>1, WarningFrame
<1> HIDE DEF w
<1>3. r \in State /\ Unmoved(w, r) /\ r.mem.level = LevelOf(w, c)
  BY <1>2, RefreshFrame
<1> HIDE DEF r
<1>4. /\ TimerView(t) = TimerView(r)
      /\ PolicyView(t) = PolicyView(r)
      /\ t.mem.level = r.mem.level
      /\ t.mem.tick_mono = mono
  BY <1>3, BaselinesFrame
<1> HIDE DEF t
<1>5. LevelOf(t, c) = LevelOf(w, c)
  BY <1>3, <1>4, SameLevel DEF Unmoved
<1>6. TimerView(t) = TimerView(x)
  BY <1>2, <1>3, <1>4 DEF Unmoved
<1>7. Owed(t) = Owed(x) /\ t.mem.timer = x.mem.timer /\ t.mem.persist_mono = x.mem.persist_mono
  BY <1>6 DEF TimerView, Owed
<1>8. Lagging(s) => Lagging(t) /\ Owed(t) < c.checkpoint
  BY <1>1, <1>4, <1>7 DEF Lagging
<1>9. Tick(s, c) = t
  BY DEF Tick, t, r, w, x
<1> QED BY <1>1, <1>3, <1>4, <1>5, <1>7, <1>8, <1>9

-----------------------------------------------------------------------------
(* Every step of a running service, as seen by the timer. *)

\* A handler works on the state s before it or after its tick and ends in t: it
\* leaves the timer alone or stores it, and sets it going only at level 0.
Handles(s, t) ==
    /\ Good(t)
    /\ t.mem.tick_mono = s.mem.tick_mono
    /\ t.mem.persist_mono = s.mem.persist_mono
    /\ TimerView(t) = TimerView(s) \/ t.db.timer = t.mem.timer
    /\ t.mem.timer.state = "running" => s.mem.timer.state = "running" \/ s.mem.level = 0

\* What leaves timer and clock alone is handled.
LEMMA KeptHandles ==
  ASSUME NEW s, NEW t, Good(t), TimerView(t) = TimerView(s),
         t.mem.tick_mono = s.mem.tick_mono
  PROVE  Handles(s, t)
BY DEF Handles, TimerView

\* history.clear is one of those,
LEMMA ClearHandles ==
  ASSUME NEW s, Good(s)
  PROVE  LET t == clear_history(s)
         IN  Handles(s, t) /\ t.mem.timer = s.mem.timer
<1> DEFINE t == clear_history(s)
<1>1. s \in State /\ Good(t)
  BY ClearHistoryGood DEF Good
<1>2. TimerView(t) = TimerView(s) /\ ClockView(t) = ClockView(s)
  <2>1. CASE s.db.open = None
    <3> DEFINE m == [s.mem EXCEPT !.played_today = 0]
               e == [s.db EXCEPT !.closed = NoSeconds,
                                 !.adjustment = NoSeconds,
                                 !.daily_marks = [d \in Days |-> {}],
                                 !.timer_marks = {},
                                 !.buckets = NoSeconds]
    <3>1. t.mem = m /\ t.db = e
      BY <1>1, <2>1 DEF clear_history, State
    <3>2. /\ m.timer = s.mem.timer
          /\ m.persist_mono = s.mem.persist_mono
          /\ m.tick_mono = s.mem.tick_mono
          /\ m.tick_wall = s.mem.tick_wall
          /\ m.suspended = s.mem.suspended
          /\ e.timer = s.db.timer
      BY <1>1, Parts DEF Mem, Db
    <3> HIDE DEF t, m, e
    <3> QED BY <3>1, <3>2 DEF TimerView, ClockView
  <2>2. CASE s.db.open # None
    BY <2>2 DEF clear_history
  <2> QED BY <2>1, <2>2
<1> HIDE DEF t
<1>3. Handles(s, t) /\ t.mem.timer = s.mem.timer
  BY <1>1, <1>2, KeptHandles DEF TimerView, ClockView
<1> QED BY <1>3 DEF t

\* and a checkpoint of the session another.
LEMMA RowHandles ==
  ASSUME NEW s, Good(s)
  PROVE  LET t == IF s.mem.game = None THEN s ELSE checkpoint_session(s)
         IN  Handles(s, t) /\ t.mem.timer = s.mem.timer
<1> DEFINE t == IF s.mem.game = None THEN s ELSE checkpoint_session(s)
<1>1. s \in State /\ Good(t)
  BY CheckpointGood DEF Good
<1>2. t.mem = s.mem /\ t.db.timer = s.db.timer
  BY <1>1, CheckpointFrame DEF Good, Balanced
<1> HIDE DEF t
<1>3. Handles(s, t) /\ t.mem.timer = s.mem.timer
  BY <1>1, <1>2, KeptHandles DEF TimerView
<1> QED BY <1>3 DEF t

\* A handler of the timer that ends well is handled.
LEMMA TimerHandles ==
  ASSUME NEW s, NEW t, Good(t), TimerOnly(s, t),
         \/ t.mem.timer = s.mem.timer \/ s.mem.level = 0
         \/ t.mem.timer.state = "running" => s.mem.timer.state = "running"
  PROVE  Handles(s, t)
BY DEF Handles, TimerOnly

\* Every step that leaves the service running is a handler on the present state
\* that keeps the timer, or one on the state after its tick.
LEMMA StepHandles ==
  ASSUME IInv, Running, [Next]_vars, Running'
  PROVE  \E s, t : /\ Handles(s, t)
                   /\ mem' = t.mem /\ db' = t.db
                   /\ \/ s = S /\ t.mem.timer = mem.timer
                      \/ s = Ticked /\ mono' = mono
<1> DEFINE Goal == \E s, t : /\ Handles(s, t)
                             /\ mem' = t.mem /\ db' = t.db
                             /\ \/ s = S /\ t.mem.timer = mem.timer
                                \/ s = Ticked /\ mono' = mono
<1> USE DEF Commit, Step
<1>0. C \in ConfigType /\ wall \in Wall /\ mono \in Nat /\ cfg \in Profiles
  BY ConfigAssumption DEF IInv, TypeOK, C
<1>s. Good(S) /\ S.mem = mem /\ S.db = db /\ Handles(S, S)
  BY RunningGood, KeptHandles
<1>t. Good(Ticked) /\ Ticked \in State /\ Ticked.mem.tick_mono = mono
  BY <1>0, <1>s, TickedGood, TickTimer DEF Ticked, Good
<1>h. ASSUME NEW t, Handles(Ticked, t), Step(t)
      PROVE  Goal
  BY <1>h
<1>k. ASSUME NEW t, Handles(S, t), t.mem.timer = mem.timer, Step(t)
      PROVE  Goal
  BY <1>k
<1>1. CASE Advance \/ SetWall \/ UNCHANGED vars
  BY <1>1, <1>s DEF Advance, SetWall, vars
<1> HIDE DEF Goal
<1>3. CASE TickLoop
  BY <1>3, <1>t, <1>h, KeptHandles DEF TickLoop
<1>4. CASE GameReported
  <2>1. PICK g \in Games : Step(set_game(Ticked, g))
    BY <1>4 DEF GameReported
  <2>2. Handles(Ticked, set_game(Ticked, g))
    BY <1>0, <1>t, SetGameGood, SetGameFrame, KeptHandles DEF ClockView
  <2> QED BY <1>h, <2>1, <2>2
<1>5. CASE GameCleared
  <2>1. Handles(Ticked, stop_game(Ticked, C))
    BY <1>0, <1>t, StopGameGood, StopGameFrame, KeptHandles DEF ClockView
  <2> QED BY <1>5, <1>h, <2>1 DEF GameCleared
<1>6. CASE Suspend
  <2>1. Handles(Ticked, suspend(Ticked))
    BY <1>t, SuspendGood, SuspendFrame, KeptHandles
  <2> QED BY <1>6, <1>h, <2>1 DEF Suspend
<1>7. CASE Resume
  <2>1. Handles(Ticked, resume(Ticked, C))
    BY <1>0, <1>t, ResumeGood, ResumeFrame, KeptHandles
  <2> QED BY <1>7, <1>h, <2>1 DEF Resume
<1>8. CASE StartTimer
  <2>1. PICK n \in TimerDurations, a \in TimerActions : Step(start_timer(Ticked, n, a))
    BY <1>8 DEF StartTimer
  <2>2. Handles(Ticked, start_timer(Ticked, n, a))
    BY <1>t, StartTimerGood, StartTimerFrame, TimerHandles
  <2> QED BY <1>h, <2>1, <2>2
<1>9. CASE PauseTimer
  <2>1. Handles(Ticked, pause_timer(Ticked))
    BY <1>t, PauseTimerGood, PauseTimerFrame, TimerHandles
  <2> QED BY <1>9, <1>h, <2>1 DEF PauseTimer
<1>10. CASE ResumeTimer
  <2>1. Handles(Ticked, resume_timer(Ticked))
    BY <1>t, ResumeTimerGood, ResumeTimerFrame, TimerHandles
  <2> QED BY <1>10, <1>h, <2>1 DEF ResumeTimer
<1>11. CASE CancelTimer
  <2>1. Handles(Ticked, cancel_timer(Ticked, C))
    BY <1>0, <1>t, CancelTimerGood, CancelTimerFrame, TimerHandles
  <2> QED BY <1>11, <1>h, <2>1 DEF CancelTimer
<1>12. CASE AdjustTimer
  <2>1. PICK n \in Adjustments : Step(adjust_timer(Ticked, C, n))
    BY <1>12 DEF AdjustTimer
  <2>2. Handles(Ticked, adjust_timer(Ticked, C, n))
    BY <1>0, <1>t, AdjustTimerGood, AdjustTimerFrame, TimerHandles
  <2> QED BY <1>h, <2>1, <2>2
<1>13. CASE GrantDailyTime
  <2>1. PICK n \in Grants : Step(grant_daily_time(Ticked, C, n))
    BY <1>13 DEF GrantDailyTime
  <2>2. Handles(Ticked, grant_daily_time(Ticked, C, n))
    BY <1>0, <1>t, GrantGood, GrantFrame, KeptHandles DEF ClockView
  <2> QED BY <1>h, <2>1, <2>2
<1>14. CASE UpdateConfig
  <2>1. PICK p \in Profiles : Step(update_config(Ticked, C, Config[p]))
    BY <1>14 DEF UpdateConfig
  <2>2. Config[p] \in ConfigType
    BY ConfigAssumption
  <2>3. Handles(Ticked, update_config(Ticked, C, Config[p]))
    BY <1>0, <1>t, <2>2, UpdateConfigGood, UpdateFrame, KeptHandles DEF ClockView
  <2> QED BY <1>h, <2>1, <2>3
<1>15. CASE ClearHistory
  <2>1. Handles(S, clear_history(S)) /\ clear_history(S).mem.timer = mem.timer
    BY <1>s, ClearHandles
  <2> QED BY <1>15, <1>k, <2>1 DEF ClearHistory
<1>16. CASE RestartCheckpoint
  <2> DEFINE t == IF mem.game = None THEN S ELSE checkpoint_session(S)
  <2>1. Handles(S, t) /\ t.mem.timer = mem.timer
    BY <1>s, RowHandles
  <2>2. Step(t)
    BY <1>16 DEF RestartCheckpoint
  <2> HIDE DEF t
  <2> QED BY <1>k, <2>1, <2>2
<1>17. CASE Shutdown \/ Crash \/ UpdateDies \/ AdjustDies \/ Boot \/ BootDies
  BY <1>17 DEF Shutdown, Crash, UpdateDies, AdjustDies, Boot, BootDies, Running
<1> QED
  BY <1>1, <1>3, <1>4, <1>5, <1>6, <1>7, <1>8, <1>9, <1>10, <1>11, <1>12, <1>13, <1>14,
     <1>15, <1>16, <1>17 DEF Next, Goal

\* A timer that is left alone or stored owes no more than before.
LEMMA HandledLag ==
  ASSUME NEW s, NEW t, Good(s), Handles(s, t), Lagging(s), mono \in Nat
  PROVE  Lagging(t) /\ Owed(t) <= Owed(s)
<1>1. /\ Owed(s) \in Nat /\ Owed(t) \in Nat
      /\ s.mem.persist_mono \in Nat /\ s.mem.tick_mono \in Nat
      /\ t.db.timer.remaining \in Nat
  BY OwedType DEF Handles
<1>2. CASE TimerView(t) = TimerView(s)
  <2>1. Owed(t) = Owed(s) /\ t.mem.timer = s.mem.timer
    BY <1>2 DEF TimerView, Owed
  <2> QED BY <1>1, <2>1 DEF Handles, Lagging
<1>3. CASE t.db.timer = t.mem.timer
  <2>1. Owed(t) = 0
    BY <1>1, <1>3 DEF Owed
  <2>2. 0 <= s.mem.tick_mono - s.mem.persist_mono
    BY <1>1 DEF Lagging
  <2> QED BY <1>1, <2>1, <2>2 DEF Handles, Lagging
<1> QED BY <1>2, <1>3 DEF Handles

\* A service that starts has the timer of its database, paused if it was running.
LEMMA BootLag ==
  ASSUME NEW d \in Db, TimerConsistent(d.timer), NEW c \in ConfigType,
         wall \in Wall, mono \in Nat
  PROVE  LET t == boot(d, c) IN Lagging(t) /\ Owed(t) = 0 /\ t.mem.tick_mono = mono
<1> DEFINE l == Loaded(d, c)
           r == RecoverSession(l)
           p == [r EXCEPT !.mem.timer.state = "paused"]
           v == save_timer(p)
           x == RecoverTimer(r)
           t == SetRestriction(x, c)
<1>1. Good(r) /\ r \in State
  BY RecoverSessionGood DEF Good
<1>2. /\ r.mem = LoadedEngine(d, c)
      /\ r.db.timer = d.timer
  <2>1. l.mem = LoadedEngine(d, c) /\ l.db = d
    BY DEF Loaded
  <2> DEFINE k == [l EXCEPT !.db = close_session(@, @.open.duration)]
  <2>2. k.mem = l.mem /\ k.db = close_session(d, d.open.duration)
    BY DEF Loaded
  <2>3. close_session(d, d.open.duration).timer = d.timer
    BY DEF close_session, Db
  <2>4. Note(k, "session.recovered").mem = k.mem /\ Note(k, "session.recovered").db = k.db
    BY DEF Note, Emit, Loaded
  <2>5. r = IF d.open = None THEN l ELSE Note(k, "session.recovered")
    BY <2>1 DEF RecoverSession
  <2> HIDE DEF k, l, r
  <2> QED BY <2>1, <2>2, <2>3, <2>4, <2>5
<1>3. /\ r.mem.timer = d.timer
      /\ r.mem.tick_mono = mono
      /\ r.mem.persist_mono = mono
  BY <1>2 DEF LoadedEngine
<1> HIDE DEF r
<1>4. /\ v.mem.timer = v.db.timer
      /\ v.mem.tick_mono = mono
      /\ v.mem.persist_mono = mono
  BY <1>1, <1>3 DEF save_timer, State, Mem, Db
<1>5. p \in State
  BY <1>1 DEF State, Mem, Timer, TimerStates
<1> HIDE DEF p
<1>6. v \in State
  BY <1>5, SaveTimerType
<1> HIDE DEF v
<1>7. /\ Note(v, "timer.paused_after_restart") \in State
      /\ Note(v, "timer.paused_after_restart").mem = v.mem
      /\ Note(v, "timer.paused_after_restart").db = v.db
  BY <1>6, NoteType, NoteFrame DEF Kinds
<1>8. x \in {r, Note(v, "timer.paused_after_restart")}
  BY DEF RecoverTimer, v, p
<1>9. /\ x \in State
      /\ x.mem.timer = x.db.timer
      /\ x.mem.tick_mono = mono
      /\ x.mem.persist_mono = mono
  BY <1>1, <1>2, <1>3, <1>4, <1>7, <1>8
<1> HIDE DEF x
<1>10. /\ t.db = x.db
       /\ t.mem.timer = x.mem.timer
       /\ t.mem.tick_mono = mono
       /\ t.mem.persist_mono = mono
  BY <1>9 DEF SetRestriction, State, Mem
<1>11. t = boot(d, c)
  BY DEF boot, t, x, r, l
<1>12. Good(t)
  BY <1>11, BootGood
<1> HIDE DEF t
<1>13. t.db.timer.remaining \in Nat
  BY <1>12, OwedType
<1>14. Owed(t) = 0
  BY <1>9, <1>10, <1>13 DEF Owed
<1>15. Lagging(t)
  BY <1>10, <1>14 DEF Lagging
<1> QED BY <1>10, <1>11, <1>14, <1>15

\* A step moves the monotonic clock only in Advance, and not beyond the next tick.
LEMMA ClockStep ==
  ASSUME IInv, [Next]_vars
  PROVE  \/ mono' = mono
         \/ /\ mono' = mono + 1 /\ UNCHANGED <<mem, db>>
            /\ Running => mono' - mem.tick_mono <= MaxTickGap
<1>1. CASE Advance
  <2>1. mono' = mono + 1 /\ mem' = mem /\ db' = db
    BY <1>1 DEF Advance
  <2>2. Running => mono' - mem.tick_mono <= MaxTickGap
    <3> SUFFICES ASSUME Running PROVE mono' - mem.tick_mono <= MaxTickGap
      OBVIOUS
    <3>1. mono \in Nat /\ mem.tick_mono \in Nat
      BY DEF IInv, TypeOK, Running, Mem
    <3>2. mono + 1 - mem.tick_mono <= MaxTickGap
      BY <1>1 DEF Advance
    <3> QED BY <2>1, <3>1, <3>2
  <2> QED BY <2>1, <2>2
<1>2. CASE ~Advance
  <2>1. mono' = mono
    BY <1>2 DEF Next, vars, SetWall, TickLoop, GameReported, GameCleared, Suspend,
       Resume, StartTimer, PauseTimer, ResumeTimer, CancelTimer, AdjustTimer,
       GrantDailyTime, UpdateConfig, ClearHistory, RestartCheckpoint, Shutdown,
       Crash, UpdateDies, AdjustDies, Boot, BootDies, Commit, Step
  <2> QED BY <2>1
<1> QED BY <1>1, <1>2

\* Every step keeps the timer's part of the invariant.
LEMMA NextTimerInv == TimerInv /\ [Next]_vars => TimerInv'
<1> SUFFICES ASSUME TimerInv, [Next]_vars PROVE TimerInv'
  OBVIOUS
<1>0. /\ IInv /\ IInv'
      /\ C \in ConfigType /\ cfg \in Profiles
      /\ wall \in Wall /\ mono \in Nat
  BY NextIInv, ConfigAssumption DEF TimerInv, IInv, TypeOK, C
<1>1. CASE Running /\ Running'
  <2>1. PICK s, t : /\ Handles(s, t)
                    /\ mem' = t.mem /\ db' = t.db
                    /\ \/ s = S /\ t.mem.timer = mem.timer
                       \/ s = Ticked /\ mono' = mono
    BY <1>0, <1>1, StepHandles
  <2>2. Good(S) /\ Lagging(S) /\ S.mem = mem /\ S.db = db
    BY <1>0, <1>1, RunningGood DEF TimerInv, LagInv
  <2>3. \E p \in Profiles : Owed(S) < Config[p].checkpoint
    BY <1>1 DEF TimerInv, OwedBounded
  <2>4. /\ Good(Ticked) /\ Lagging(Ticked) /\ Owed(Ticked) < C.checkpoint
        /\ Ticked.mem.tick_mono = mono
    BY <1>0, <1>1, <2>2, TickedGood, TickTimer DEF Ticked
  <2>5. /\ Good(s) /\ Lagging(s)
        /\ \E p \in Profiles : Owed(s) < Config[p].checkpoint
    BY <1>0, <2>1, <2>2, <2>3, <2>4 DEF C
  <2>6. Lagging(t) /\ Owed(t) <= Owed(s)
    BY <1>0, <2>1, <2>5, HandledLag
  <2>7. Good(t) /\ Owed(t) \in Nat /\ Owed(s) \in Nat /\ t.mem.tick_mono \in Nat
    BY <2>1, <2>5, OwedType DEF Handles
  <2>8. \E p \in Profiles : Owed(t) < Config[p].checkpoint
    <3>1. PICK p \in Profiles : Owed(s) < Config[p].checkpoint
      BY <2>5
    <3>2. Config[p].checkpoint \in Nat
      BY ConfigAssumption DEF ConfigType
    <3> QED BY <2>6, <2>7, <3>1, <3>2
  <2>9. OwedBounded'
    BY <2>1, <2>8 DEF OwedBounded, Owed, S
  <2>10. mono' \in Nat /\ mono <= mono'
    <3>1. mono' = mono \/ mono' = mono + 1
      BY <1>0, ClockStep
    <3> QED BY <1>0, <3>1
  <2>11. t.mem.tick_mono <= mono'
    BY <1>0, <2>6, <2>7, <2>10 DEF Lagging
  <2>12. LagInv'
    BY <2>1, <2>6, <2>11 DEF LagInv, Lagging, Owed, S
  <2>13. GapInv'
    <3>1. CASE mono' = mono
      <4>1. t.mem.tick_mono = s.mem.tick_mono
        BY <2>1 DEF Handles
      <4>2. s.mem.tick_mono = mem.tick_mono \/ s.mem.tick_mono = mono
        BY <2>1, <2>2, <2>4
      <4>3. mono - mem.tick_mono <= MaxTickGap /\ mono - mono <= MaxTickGap
        BY <1>0, <1>1, ClockAssumption DEF TimerInv, GapInv
      <4> QED BY <2>1, <3>1, <4>1, <4>2, <4>3 DEF GapInv
    <3>2. CASE mono' # mono
      BY <1>0, <1>1, <3>2, ClockStep DEF GapInv
    <3> QED BY <3>1, <3>2
  <2> QED BY <1>0, <2>9, <2>12, <2>13 DEF TimerInv
<1>2. CASE ~Running'
  BY <1>0, <1>2 DEF TimerInv, LagInv, OwedBounded, GapInv
<1>3. CASE ~Running /\ Running'
  <2>1. Boot
    BY <1>3 DEF Next, vars, Running, Advance, SetWall, TickLoop, GameReported, GameCleared,
          Suspend, Resume, StartTimer, PauseTimer, ResumeTimer, CancelTimer, AdjustTimer,
          GrantDailyTime, UpdateConfig, ClearHistory, RestartCheckpoint, Shutdown,
          Crash, UpdateDies, AdjustDies, BootDies
  <2> DEFINE t == boot(db, C)
  <2>2. Lagging(t) /\ Owed(t) = 0 /\ t.mem.tick_mono = mono
    BY <1>0, BootLag DEF IInv, TypeOK, TimerRowAgrees
  <2>3. mem' = t.mem /\ db' = t.db /\ mono' = mono
    BY <2>1 DEF Boot, Commit, Step
  <2> HIDE DEF t
  <2>4. C.checkpoint \in Nat \ {0}
    BY <1>0 DEF ConfigType
  <2>5. OwedBounded'
    BY <1>0, <2>2, <2>3, <2>4 DEF OwedBounded, Owed, C, S
  <2>6. LagInv'
    BY <2>2, <2>3 DEF LagInv, Lagging, Owed, S
  <2>7. GapInv'
    BY <1>0, <2>2, <2>3, ClockAssumption DEF GapInv
  <2> QED BY <1>0, <2>5, <2>6, <2>7 DEF TimerInv
<1> QED BY <1>1, <1>2, <1>3

-----------------------------------------------------------------------------
\* The time a crash gives back is what was counted down and not stored and what
\* the next tick would have counted down.
LEMMA TimerInvBounds == TimerInv => RefundBounded
<1> SUFFICES ASSUME TimerInv, Running PROVE RefundBounded
  BY DEF RefundBounded
<1>1. Good(S) /\ S.mem = mem /\ S.db = db
  BY RunningGood DEF TimerInv
<1>2. /\ db.timer.remaining \in Nat /\ mem.timer.remaining \in Nat
      /\ mem.tick_mono \in Nat /\ mono \in Nat /\ MaxTickGap \in Nat
  BY <1>1, OwedType, ClockAssumption DEF TimerInv, IInv, TypeOK
<1>3. Uncounted \in Nat /\ Uncounted <= MaxTickGap
  BY <1>1, <1>2 DEF TimerInv, LagInv, Lagging, GapInv, Uncounted
<1>4. PICK p \in Profiles : db.timer.remaining - mem.timer.remaining < Config[p].checkpoint
  BY <1>1 DEF TimerInv, OwedBounded, Owed
<1>5. Config[p].checkpoint \in Nat
  BY ConfigAssumption DEF ConfigType
<1>6. Max0(mem.timer.remaining - Uncounted) >= mem.timer.remaining - MaxTickGap
  BY <1>2, <1>3 DEF Max0
<1>7. Max0(mem.timer.remaining - Uncounted) \in Nat
  BY <1>2, <1>3 DEF Max0
<1>8. db.timer.remaining - Max0(mem.timer.remaining - Uncounted)
        < Config[p].checkpoint + MaxTickGap
  BY <1>2, <1>4, <1>5, <1>6, <1>7
<1> QED BY <1>8 DEF RefundBounded

\* A crash gives back less than a checkpoint interval and a tick interval of what
\* the owner used of the timer, whatever the sequence of ticks, pauses,
\* adjustments, clock changes and configurations before it (engine.py: the timer
\* is stored every history.checkpoint_seconds, at a tick).
THEOREM RefundIsBounded == Spec => []RefundBounded
<1>1. Init => TimerInv
  BY InitIInv DEF Init, TimerInv, LagInv, OwedBounded, GapInv, Running
<1> QED BY <1>1, TimerInvBounds, NextTimerInv, PTL DEF Spec

\* A timer is set going by start_timer and resume_timer only, and only if the
\* restriction that follows from the state after the tick of the same call is at
\* level 0: the cached level they look at is not stale.
THEOREM StartsUnrestricted == Spec => NoStartWhileRestricted
<1>1. ASSUME IInv, [Next]_vars
      PROVE  TimerStarts => LevelOf(Ticked, C) = 0
  <2> SUFFICES ASSUME TimerStarts PROVE LevelOf(Ticked, C) = 0
    OBVIOUS
  <2>1. /\ Running /\ Running'
        /\ mem.timer.state # "running" /\ mem'.timer.state = "running"
    BY DEF TimerStarts, Running
  <2>2. PICK s, t : /\ Handles(s, t)
                    /\ mem' = t.mem /\ db' = t.db
                    /\ \/ s = S /\ t.mem.timer = mem.timer
                       \/ s = Ticked /\ mono' = mono
    BY <1>1, <2>1, StepHandles
  <2>3. s = Ticked
    BY <2>1, <2>2
  <2>4. C \in ConfigType /\ wall \in Wall /\ mono \in Nat
    BY <1>1, ConfigAssumption DEF IInv, TypeOK, C
  <2>5. Good(S) /\ S.mem = mem
    BY <1>1, <2>1, RunningGood
  <2>6. /\ Ticked.mem.level = LevelOf(Ticked, C)
        /\ Ticked.mem.timer.state = "running" => S.mem.timer.state = "running"
    BY <2>4, <2>5, TickTimer DEF Ticked
  <2>7. Ticked.mem.level = 0
    BY <2>1, <2>2, <2>3, <2>5, <2>6 DEF Handles
  <2> QED BY <2>6, <2>7
<1>2. IInv /\ [Next]_vars => [TimerStarts => LevelOf(Ticked, C) = 0]_vars
  BY <1>1
<1> QED BY <1>2, Invariance, PTL DEF Spec, NoStartWhileRestricted

-----------------------------------------------------------------------------
(* A tick after a tick. *)

\* What a tick leaves: baselines and day of the present, no checkpoint due, and
\* the restriction that the state calls for.
Settled(s, c) ==
    /\ Good(s)
    /\ s.mem.tick_mono = mono /\ s.mem.tick_wall = wall
    /\ s.mem.day_key = c.accounting_day[wall]
    /\ ~CheckpointDue(s, c)
    /\ ~(s.mem.timer.state = "running" /\ mono - s.mem.persist_mono >= c.checkpoint)
    /\ s.mem.reason = ReasonOf(s, c)
    /\ s.mem.level = LevelOf(s, c)

\* After the checkpoints of a tick neither is due.
LEMMA TickRecordSettles ==
  ASSUME NEW s, Good(s), NEW c \in ConfigType, wall \in Wall, mono \in Nat
  PROVE  LET t == TickRecord(s, c)
         IN  /\ t.mem.day_key = c.accounting_day[wall]
             /\ ~CheckpointDue(t, c)
             /\ ~(t.mem.timer.state = "running" /\ mono - t.mem.persist_mono >= c.checkpoint)
<1> DEFINE n == NoteClock(s)
           a == AccountElapsed(n, c)
           e == TimerElapse(a, c)
           r == CheckpointRow(e, c)
           f == CheckpointFlush(r, c)
           t == PersistTimer(f, c)
<1>0. c.checkpoint \in Nat \ {0} /\ ~(mono - mono >= c.checkpoint)
  BY DEF ConfigType
<1>1. Good(n) /\ n \in State
  BY NoteClockGood DEF Good
<1> HIDE DEF n
<1>2. Good(a) /\ a.mem.day_key = c.accounting_day[wall]
  BY <1>1, AccountElapsedGood, AccountElapsedFrame
<1> HIDE DEF a
<1>3. Good(e) /\ e.mem.day_key = a.mem.day_key
  BY <1>2, TimerElapseGood, TimerElapseFrame DEF Good
<1> HIDE DEF e
<1>4. Good(r) /\ r \in State /\ r.mem = e.mem
  BY <1>3, CheckpointRowGood, CheckpointRowFrame DEF Good, Balanced
<1> HIDE DEF r
<1>5. /\ f \in State
      /\ f.mem.day_key = r.mem.day_key
      /\ f.mem.game = r.mem.game
      /\ f.mem.checkpoint_mono = IF CheckpointDue(r, c) THEN mono ELSE r.mem.checkpoint_mono
  BY <1>4, CheckpointFlushGood, CheckpointFlushFrame DEF Good, PolicyView
<1>6. ~CheckpointDue(f, c)
  BY <1>0, <1>5 DEF CheckpointDue
<1> HIDE DEF f
<1>7. /\ t.mem.day_key = f.mem.day_key
      /\ t.mem.game = f.mem.game
      /\ t.mem.checkpoint_mono = f.mem.checkpoint_mono
  BY <1>5, PersistFrame DEF PolicyView
<1>8. /\ t.mem.timer = f.mem.timer
      /\ \/ t.mem.persist_mono = mono
         \/ /\ t.mem.persist_mono = f.mem.persist_mono
            /\ f.mem.timer.state # "running" \/ ~(mono - f.mem.persist_mono >= c.checkpoint)
  BY <1>5, PersistOwed DEF TimerView
<1> HIDE DEF t
<1>9. /\ t.mem.day_key = c.accounting_day[wall]
      /\ ~CheckpointDue(t, c)
      /\ ~(t.mem.timer.state = "running" /\ mono - t.mem.persist_mono >= c.checkpoint)
  BY <1>0, <1>2, <1>3, <1>4, <1>5, <1>6, <1>7, <1>8 DEF CheckpointDue
<1>10. TickRecord(s, c) = t
  BY DEF TickRecord, t, f, r, e, a, n
<1> QED BY <1>9, <1>10

\* So a tick leaves a settled state.
LEMMA TickSettles ==
  ASSUME NEW s, Good(s), NEW c \in ConfigType, wall \in Wall, mono \in Nat
  PROVE  Settled(Tick(s, c), c)
<1> DEFINE p == TickRecord(s, c)
           w == warning_events(p, c, warning_snapshot(s, c))
           x == refresh_restriction(w, c)
           t == SetBaselines(x)
<1>1. /\ Good(p)
      /\ p.mem.day_key = c.accounting_day[wall]
      /\ ~CheckpointDue(p, c)
      /\ ~(p.mem.timer.state = "running" /\ mono - p.mem.persist_mono >= c.checkpoint)
  BY TickRecordGood, TickRecordSettles
<1> HIDE DEF p
<1>2. w \in State /\ Unmoved(p, w)
  BY <1>1, WarningFrame
<1> HIDE DEF w
<1>3. /\ x \in State /\ Unmoved(w, x)
      /\ x.mem.reason = ReasonOf(w, c) /\ x.mem.level = LevelOf(w, c)
  BY <1>2, RefreshFrame
<1> HIDE DEF x
<1>4. /\ TimerView(t) = TimerView(x) /\ PolicyView(t) = PolicyView(x)
      /\ t.mem.game = x.mem.game /\ t.mem.checkpoint_mono = x.mem.checkpoint_mono
      /\ t.mem.reason = x.mem.reason /\ t.mem.level = x.mem.level
      /\ t.mem.tick_mono = mono /\ t.mem.tick_wall = wall
  BY <1>3, BaselinesFrame
<1>5. Tick(s, c) = t
  BY DEF Tick, t, x, w, p
<1>6. Good(t)
  BY <1>5, TickGood
<1> HIDE DEF t
<1>7. ReasonOf(t, c) = ReasonOf(w, c) /\ LevelOf(t, c) = LevelOf(w, c)
  BY <1>3, <1>4, SameLevel DEF Unmoved
<1>8. /\ TimerView(t) = TimerView(p) /\ PolicyView(t) = PolicyView(p)
      /\ t.mem.game = p.mem.game /\ t.mem.checkpoint_mono = p.mem.checkpoint_mono
  BY <1>2, <1>3, <1>4 DEF Unmoved
<1>9. /\ t.mem.timer = p.mem.timer /\ t.mem.persist_mono = p.mem.persist_mono
      /\ t.mem.day_key = p.mem.day_key
  BY <1>8 DEF TimerView, PolicyView
<1>10. ~CheckpointDue(t, c)
  BY <1>1, <1>8 DEF CheckpointDue
<1>11. Settled(t, c)
  BY <1>1, <1>3, <1>4, <1>6, <1>7, <1>9, <1>10 DEF Settled
<1> QED BY <1>5, <1>11

\* Nothing has elapsed in a settled state,
LEMMA NothingElapsed ==
  ASSUME NEW s, NEW c \in ConfigType, Settled(s, c), wall \in Wall, mono \in Nat
  PROVE  NoteClock(s) = s /\ AccountElapsed(s, c) = s
<1>1. Elapsed(s) = 0
  BY DEF Settled, Elapsed, Max0
<1>2. wall \in Int
  BY ClockAssumption DEF Wall
<1>3. Discrepancy(s) = 0
  BY <1>1, <1>2 DEF Settled, Discrepancy
<1>4. NoteClock(s) = s
  BY <1>3, ClockAssumption DEF NoteClock, Abs
<1>5. AccountBefore(s, c) = s
  BY <1>1 DEF Settled, AccountBefore, account_game_elapsed
<1> QED BY <1>4, <1>5 DEF Settled, AccountElapsed

\* so that the timer keeps its time and no checkpoint is made,
LEMMA NothingRecorded ==
  ASSUME NEW s, NEW c \in ConfigType, Settled(s, c), wall \in Wall, mono \in Nat
  PROVE  TickRecord(s, c) = s
<1>1. s \in State /\ s.mem \in Mem /\ s.mem.timer \in Timer /\ TimerConsistent(s.mem.timer)
  BY Parts, Fields DEF Settled, Good, Behind
<1>2. TimerElapse(s, c) = s
  <2>1. CASE TimerCounts(s, c)
    <3> DEFINE left == Max0(s.mem.timer.remaining - Elapsed(s))
    <3>1. s.mem.timer.remaining \in Nat /\ s.mem.timer.remaining > 0
      BY <1>1, <2>1 DEF TimerCounts, TimerConsistent, Timer
    <3>2. left = s.mem.timer.remaining
      BY <3>1 DEF Settled, Elapsed, Max0
    <3> HIDE DEF left
    <3>3. TimerElapse(s, c) = [s EXCEPT !.mem.timer.remaining = left]
      BY <2>1, <3>1, <3>2 DEF TimerElapse, left
    <3>4. [s EXCEPT !.mem.timer.remaining = s.mem.timer.remaining] = s
      BY <1>1 DEF State, Mem, Timer
    <3> QED BY <3>2, <3>3, <3>4
  <2>2. CASE ~TimerCounts(s, c)
    BY <2>2 DEF TimerElapse
  <2> QED BY <2>1, <2>2
<1>3. CheckpointRow(s, c) = s /\ CheckpointFlush(s, c) = s /\ PersistTimer(s, c) = s
  BY DEF Settled, CheckpointRow, CheckpointFlush, PersistTimer
<1> QED BY <1>2, <1>3, NothingElapsed DEF TickRecord

\* no threshold is crossed,
LEMMA NothingCrossed ==
  ASSUME NEW s, NEW c \in ConfigType, Settled(s, c), wall \in Wall, mono \in Nat
  PROVE  warning_events(s, c, warning_snapshot(s, c)) = s
<1> DEFINE now == warning_snapshot(s, c)
<1>1. s \in State /\ s.db \in Db /\ s.mem.day_key \in Days
  BY Parts, Fields DEF Settled, Good
<1>2. now.day = s.mem.day_key
  BY DEF warning_snapshot
<1>3. /\ now.timer \in Nat \cup {None}
      /\ now.daily \in Nat \cup {None}
  <2>1. s.mem.timer.remaining \in Nat /\ s.mem.played_today \in Nat
    BY <1>1, Parts, Fields DEF Timer, Mem
  <2>2. EffectiveLimit(s, c) \in Nat \cup {None}
    BY <1>1, Fields DEF EffectiveLimit, Max0, ConfigType, Db
  <2> QED BY <2>1, <2>2 DEF warning_snapshot, Max0
<1> HIDE DEF now
<1>4. Crossed(c, now.timer, now.timer) = {} /\ Crossed(c, now.daily, now.daily) = {}
  BY <1>3 DEF Crossed
<1>5. WarnTimer(s, c, now) = s
  <2>1. [s EXCEPT !.db.timer_marks = @ \cup {}] = s
    <3>1. s.db.timer_marks \cup {} = s.db.timer_marks
      OBVIOUS
    <3> QED BY <1>1, <3>1 DEF State, Db
  <2> QED BY <1>4, <2>1 DEF WarnTimer, Announce, now
<1>6. WarnDaily(s, c, now) = s
  <2>1. [s EXCEPT !.db.daily_marks[now.day] = @ \cup {}] = s
    <3>1. s.db.daily_marks[now.day] \cup {} = s.db.daily_marks[now.day]
      OBVIOUS
    <3> QED BY <1>1, <1>2, <3>1 DEF State, Db
  <2> QED BY <1>4, <2>1 DEF WarnDaily, Announce, now
<1> QED BY <1>5, <1>6 DEF warning_events, now

\* and the restriction and the baselines are what they were.
LEMMA SettledTick ==
  ASSUME NEW s, NEW c \in ConfigType, Settled(s, c), wall \in Wall, mono \in Nat
  PROVE  Tick(s, c) = s
<1>1. s \in State /\ s.mem \in Mem
  BY Parts DEF Settled, Good
<1>2. SetRestriction(s, c) = s
  <2>1. [s.mem EXCEPT !.reason = s.mem.reason, !.level = s.mem.level] = s.mem
    BY <1>1 DEF Mem
  <2> QED BY <1>1, <2>1 DEF Settled, SetRestriction, State
<1>3. refresh_restriction(s, c) = s
  BY <1>2 DEF refresh_restriction
<1>4. SetBaselines(s) = s
  <2>1. [s.mem EXCEPT !.tick_mono = s.mem.tick_mono, !.tick_wall = s.mem.tick_wall] = s.mem
    BY <1>1 DEF Mem
  <2> QED BY <1>1, <2>1 DEF Settled, SetBaselines, State
<1> QED BY <1>3, <1>4, NothingRecorded, NothingCrossed DEF Tick

\* service.py:310: every RPC ticks in _engine_action and again in the engine.  At an
\* unmoved clock the second tick counts, stores, announces and restricts nothing,
\* whatever the state, the configuration and the clocks.
THEOREM SecondTickIsIdle == Spec => []SecondTickIsNoop
<1>1. IInv => SecondTickIsNoop
  <2> SUFFICES ASSUME IInv, Running
               PROVE  LET t == [Ticked EXCEPT !.out = <<>>] IN Tick(t, C) = t
    BY DEF SecondTickIsNoop
  <2> DEFINE t == [Ticked EXCEPT !.out = <<>>]
  <2>1. C \in ConfigType /\ wall \in Wall /\ mono \in Nat
    BY ConfigAssumption DEF IInv, TypeOK, C
  <2>2. Settled(Ticked, C) /\ Ticked \in State
    BY <2>1, RunningGood, TickSettles DEF Ticked, Settled, Good
  <2>3. t \in State /\ t.mem = Ticked.mem /\ t.db = Ticked.db
    <3>1. <<>> \in Seq(Event)
      OBVIOUS
    <3> QED BY <2>2, <3>1 DEF State
  <2> HIDE DEF t
  <2>4. Settled(t, C)
    BY <2>2, <2>3 DEF Settled, Good, CheckpointDue, ReasonOf, LevelOf, Exhausted, EffectiveLimit
  <2>5. Tick(t, C) = t
    BY <2>1, <2>4, SettledTick
  <2> QED BY <2>5 DEF t
<1> QED BY <1>1, Invariance, PTL

=============================================================================
