------------------------- MODULE EngineLedgerProofs -------------------------
(***************************************************************************)
(* Proofs about the time that is counted.                                  *)
(*                                                                         *)
(* Engine implements PlayLedger.  Durable(s, d) and Counted(s, d) are the  *)
(* refinement mapping at a state of a handler; Below(s, t) says that       *)
(* neither fell between two such states.  Each part of a handler is shown  *)
(* to go from a state to one it is below, and the parts are chained.  A    *)
(* crash keeps the database of a state in the middle of a handler, for     *)
(* which it is enough that what is durable did not fall.                   *)
(*                                                                         *)
(* What a crash can cost: LossBounded is not inductive.  Time that is      *)
(* counted and not stored must be tied to the time since the last          *)
(* checkpoint of the session, and that to the last tick.  Trailing does    *)
(* it.  The tick interval in it is the price of a roll-over, which moves   *)
(* the checkpoint to the present before it counts the slice of the new     *)
(* day.  The second one of LossBounded is the time no tick has counted.    *)
(*                                                                         *)
(* Conservation, a sum over all days, follows from the same invariant: a   *)
(* part of a handler moves what it adds to the sum from the time played.   *)
(***************************************************************************)
EXTENDS EngineLedger, EngineAudit, EngineTimerProofs, FiniteSetTheorems

Durable(s, d) == usage_for_day(s.db, d)

Counted(s, d) ==
    s.db.closed[d]
    + IF s.db.open # None /\ s.db.open.day = d THEN s.mem.session_duration ELSE 0

Kept(s, t) == \A d \in Days : Durable(s, d) <= Durable(t, d)

Below(s, t) == Kept(s, t) /\ \A d \in Days : Counted(s, d) <= Counted(t, d)

\* Both are sums of seconds.
LEMMA LedgerType ==
  ASSUME NEW s \in State, NEW d \in Days
  PROVE  Durable(s, d) \in Nat /\ Counted(s, d) \in Nat
<1>1. s.db \in Db /\ s.mem.session_duration \in Nat
  BY Parts, Fields
<1>2. s.db.closed[d] \in Nat
  BY <1>1 DEF Db
<1> QED BY <1>1, <1>2, UsageType DEF Durable, Counted

\* Nothing is durable that was not counted.
LEMMA DurableIsCounted ==
  ASSUME NEW s, Good(s), NEW d \in Days
  PROVE  Durable(s, d) <= Counted(s, d)
<1>1. s \in State /\ s.db \in Db /\ s.mem.session_duration \in Nat
  BY Parts, Fields DEF Good
<1>2. s.db.closed[d] \in Nat
  BY <1>1 DEF Db
<1>3. s.db.open # None => /\ s.db.open.duration \in Nat
                          /\ s.db.open.duration <= s.mem.session_duration
  BY <1>1 DEF Good, Balanced, Db, SessionRow
<1> QED BY <1>1, <1>2, <1>3 DEF Durable, Counted, usage_for_day

\* A part that leaves the rows and the session alone,
LEMMA SameBelow ==
  ASSUME NEW s \in State, NEW t, LedgerView(t) = LedgerView(s)
  PROVE  Below(s, t)
<1>1. \A d \in Days : Durable(t, d) = Durable(s, d) /\ Counted(t, d) = Counted(s, d)
  BY DEF LedgerView, Durable, Counted, usage_for_day
<1>2. \A d \in Days : Durable(s, d) \in Nat /\ Counted(s, d) \in Nat
  BY LedgerType
<1> QED BY <1>1, <1>2 DEF Below, Kept

\* and parts one after the other, add up.
LEMMA BelowTrans ==
  ASSUME NEW s \in State, NEW t \in State, NEW u \in State, Below(s, t), Below(t, u)
  PROVE  Below(s, u)
<1> SUFFICES ASSUME NEW d \in Days
             PROVE  Durable(s, d) <= Durable(u, d) /\ Counted(s, d) <= Counted(u, d)
  BY DEF Below, Kept
<1>1. /\ Durable(s, d) \in Nat /\ Durable(t, d) \in Nat /\ Durable(u, d) \in Nat
      /\ Counted(s, d) \in Nat /\ Counted(t, d) \in Nat /\ Counted(u, d) \in Nat
  BY LedgerType
<1>2. /\ Durable(s, d) <= Durable(t, d) /\ Durable(t, d) <= Durable(u, d)
      /\ Counted(s, d) <= Counted(t, d) /\ Counted(t, d) <= Counted(u, d)
  BY DEF Below, Kept
<1> QED BY <1>1, <1>2

\* Counting play time adds to the running session.
LEMMA LongerBelow ==
  ASSUME NEW s \in State, NEW t \in State, t.db = s.db,
         s.mem.session_duration <= t.mem.session_duration
  PROVE  Below(s, t)
<1> SUFFICES ASSUME NEW d \in Days
             PROVE  Durable(s, d) <= Durable(t, d) /\ Counted(s, d) <= Counted(t, d)
  BY DEF Below, Kept
<1>1. Durable(s, d) \in Nat /\ Durable(t, d) = Durable(s, d)
  BY LedgerType DEF Durable
<1>2. s.mem.session_duration \in Nat /\ t.mem.session_duration \in Nat
  BY Fields
<1>3. s.db.closed[d] \in Nat
  BY Parts DEF Db
<1> QED BY <1>1, <1>2, <1>3 DEF Counted

\* A checkpoint makes durable what is counted.
LEMMA CheckpointBelow ==
  ASSUME NEW s, Good(s), s.mem.game # None
  PROVE  Below(s, checkpoint_session(s))
<1> DEFINE t == checkpoint_session(s)
<1>1. s \in State /\ s.db.open # None
  BY DEF Good, Balanced
<1>2. /\ t.mem = s.mem
      /\ t.db.closed = s.db.closed
      /\ t.db.open = [day |-> s.db.open.day, duration |-> s.mem.session_duration]
  BY <1>1, CheckpointFrame
<1>3. t.db.open # None
  <2>1. s.db.open \in SessionRow /\ s.mem.session_duration \in Nat
    BY <1>1, Fields
  <2>2. t.db.open \in SessionRow
    BY <1>2, <2>1 DEF SessionRow
  <2> QED BY <2>2, NoneAssumption
<1> HIDE DEF t
<1>4. ASSUME NEW d \in Days
      PROVE  Counted(t, d) = Counted(s, d) /\ Durable(t, d) = Counted(s, d)
  BY <1>1, <1>2, <1>3 DEF Counted, Durable, usage_for_day
<1>5. \A d \in Days : Counted(s, d) \in Nat /\ Durable(s, d) <= Counted(s, d)
  BY <1>1, LedgerType, DurableIsCounted
<1>6. Below(s, t)
  BY <1>4, <1>5 DEF Below, Kept
<1> QED BY <1>6 DEF t

\* Closing the row of the session with the session's time, in any handler.
LEMMA ClosedIsCounted ==
  ASSUME NEW s, Good(s), s.mem.game # None, NEW d \in Days
  PROVE  LET e == close_session(s.db, s.mem.session_duration)
         IN  e.closed[d] = Counted(s, d) /\ e.open = None
<1>1. s \in State /\ s.db \in Db /\ s.db.open # None /\ s.mem.session_duration \in Nat
  BY Parts, Fields DEF Good, Balanced
<1>2. s.db.open.day \in Days /\ s.db.closed \in [Days -> Nat]
  BY <1>1 DEF Db, SessionRow
<1> DEFINE e == close_session(s.db, s.mem.session_duration)
           f == [s.db.closed EXCEPT ![s.db.open.day] = @ + s.mem.session_duration]
<1>3. e.closed = f /\ e.open = None
  BY <1>1 DEF close_session, Db
<1>4. f[d] = s.db.closed[d] + IF s.db.open.day = d THEN s.mem.session_duration ELSE 0
  BY <1>1, <1>2
<1> HIDE DEF e, f
<1>5. e.closed[d] = Counted(s, d) /\ e.open = None
  BY <1>1, <1>3, <1>4 DEF Counted
<1> QED BY <1>5 DEF e

\* A roll-over moves the session into the day it belongs to and opens one of the
\* new day: at each of its commits nothing durable is lost.
LEMMA RollBelow ==
  ASSUME NEW s, Good(s), NEW day \in Days, mono \in Nat
  PROVE  /\ Below(s, roll_day(s, day))
         /\ Kept(s, RollFlush(s))
         /\ Kept(s, RollClose(RollFlush(s)))
<1> DEFINE a == RollFlush(s)
           b == RollClose(a)
           t == roll_day(s, day)
<1>1. s \in State /\ Good(a) /\ a \in State /\ Unmoved(s, a)
  BY FlushGood, RollFlushFrame DEF Good, RollFlush
<1>2. Below(s, a)
  BY <1>1, SameBelow DEF Unmoved
<1>3. b.db = IF a.mem.game = None THEN a.db ELSE close_session(a.db, a.mem.session_duration)
  BY <1>1, RollCloseFrame
<1>4. /\ t.db.closed = b.db.closed
      /\ t.db.open = IF s.mem.game = None THEN b.db.open ELSE [day |-> day, duration |-> 0]
      /\ t.mem.session_duration = IF s.mem.game = None THEN s.mem.session_duration ELSE 0
  BY <1>1, RollFrame
<1>5. a.mem.game = s.mem.game /\ LedgerView(a) = LedgerView(s)
  BY <1>1 DEF Unmoved
<1>6. CASE s.mem.game = None
  <2>1. b.db = a.db
    BY <1>3, <1>5, <1>6
  <2>2. a.db.closed = s.db.closed /\ a.db.open = s.db.open
    BY <1>5 DEF LedgerView
  <2> HIDE DEF a, b, t
  <2>3. LedgerView(t) = LedgerView(s) /\ b.db.closed = s.db.closed /\ b.db.open = s.db.open
    BY <1>4, <1>6, <2>1, <2>2 DEF LedgerView
  <2>4. Below(s, t)
    BY <1>1, <2>3, SameBelow
  <2>5. \A d \in Days : Durable(b, d) = Durable(s, d) /\ Durable(s, d) \in Nat
    BY <1>1, <2>3, LedgerType DEF Durable, usage_for_day
  <2>6. Kept(s, b)
    BY <2>5 DEF Kept
  <2> QED BY <1>2, <2>4, <2>6 DEF Below, a, b, t
<1>7. CASE s.mem.game # None
  <2>1. ASSUME NEW d \in Days
        PROVE  b.db.closed[d] = Counted(s, d) /\ b.db.open = None
    <3>1. Counted(a, d) = Counted(s, d)
      BY <1>5 DEF LedgerView, Counted
    <3> QED BY <1>1, <1>3, <1>5, <1>7, <3>1, ClosedIsCounted
  <2> HIDE DEF a, b, t
  <2>2. ASSUME NEW d \in Days
        PROVE  /\ Counted(s, d) \in Nat
               /\ Durable(s, d) <= Counted(s, d)
               /\ Durable(b, d) = Counted(s, d)
               /\ Counted(t, d) = Counted(s, d)
               /\ Durable(t, d) = Counted(s, d)
    <3>1. Counted(s, d) \in Nat /\ Durable(s, d) <= Counted(s, d)
      BY <1>1, LedgerType, DurableIsCounted
    <3>2. t.db.open.duration = 0 /\ t.mem.session_duration = 0
      BY <1>4, <1>7
    <3> QED BY <1>4, <2>1, <3>1, <3>2 DEF Counted, Durable, usage_for_day
  <2>3. Below(s, t) /\ Kept(s, b)
    BY <2>2 DEF Below, Kept
  <2> QED BY <1>2, <2>3 DEF Below, a, b, t
<1> QED BY <1>6, <1>7

\* What a tick counts before a day boundary,
LEMMA AccountBeforeBelow ==
  ASSUME NEW s, Good(s), NEW c \in ConfigType, wall \in Wall, mono \in Nat
  PROVE  Below(s, AccountBefore(s, c))
BY AccountBeforeFrame, LongerBelow DEF Good

\* and what it counts in all.
LEMMA AccountElapsedBelow ==
  ASSUME NEW s, Good(s), NEW c \in ConfigType, wall \in Wall, mono \in Nat
  PROVE  Below(s, AccountElapsed(s, c))
<1> DEFINE new    == c.accounting_day[wall]
           before == SplitBefore(Elapsed(s), s.mem.tick_wall, wall, c.day_start[new])
           rest   == Elapsed(s) - before
           a      == AccountBefore(s, c)
           rolled == roll_day(a, new)
           r      == Reliable(s)
           e      == account_game_elapsed(rolled, rest, r)
           f      == flush_usage_buckets(e)
<1>1. s \in State /\ new \in Days /\ Elapsed(s) \in Nat
  BY ElapsedType DEF Good, ConfigType
<1>2. rest \in Nat /\ r \in BOOLEAN
  BY <1>1, SplitElapsed DEF Reliable
<1> HIDE DEF rest, r
<1>3. Good(a) /\ a \in State /\ Below(s, a)
  BY AccountBeforeGood, AccountBeforeBelow DEF Good
<1> HIDE DEF a
<1>4. rolled \in State /\ Below(a, rolled)
  BY <1>1, <1>3, RollType, RollBelow
<1>5. Below(s, rolled)
  BY <1>1, <1>3, <1>4, BelowTrans
<1> HIDE DEF rolled
<1>6. e \in State /\ Below(rolled, e)
  <2>1. /\ e.db = rolled.db
        /\ e.mem.session_duration
             = rolled.mem.session_duration + IF rolled.mem.game # None THEN rest ELSE 0
    BY <1>2, <1>4, AccountFrame
  <2>2. rolled.mem.session_duration \in Nat /\ e \in State
    BY <1>2, <1>4, Fields, AccountType
  <2> HIDE DEF e
  <2>3. rolled.mem.session_duration <= e.mem.session_duration
    BY <1>2, <2>1, <2>2
  <2> QED BY <1>4, <2>1, <2>2, <2>3, LongerBelow
<1> HIDE DEF e
<1>7. f \in State /\ Below(e, f)
  BY <1>6, FlushType, FlushFrame, SameBelow DEF Unmoved
<1> HIDE DEF f
<1>8. Below(s, f)
  BY <1>1, <1>4, <1>5, <1>6, <1>7, BelowTrans
<1>9. AccountElapsed(s, c) = IF new = s.mem.day_key THEN a
                             ELSE IF s.mem.suspended THEN rolled ELSE f
  BY DEF AccountElapsed, f, e, rolled, a, rest, before, r, new
<1> QED BY <1>3, <1>5, <1>8, <1>9

\* The parts of a tick after the accounting, one after the other.
LEMMA AfterAccountBelow ==
  ASSUME NEW s, Good(s), NEW c \in ConfigType, wall \in Wall, mono \in Nat
  PROVE  LET e == TimerElapse(s, c)
             r == CheckpointRow(e, c)
             f == CheckpointFlush(r, c)
             p == PersistTimer(f, c)
         IN  /\ Good(e) /\ Below(s, e)
             /\ Good(r) /\ Below(s, r)
             /\ Good(f) /\ Below(s, f)
             /\ Good(p) /\ Below(s, p)
<1> DEFINE e == TimerElapse(s, c)
           r == CheckpointRow(e, c)
           f == CheckpointFlush(r, c)
           p == PersistTimer(f, c)
<1>1. s \in State /\ Good(e) /\ e \in State
  BY TimerElapseGood DEF Good
<1>2. Below(s, e)
  BY <1>1, TimerElapseFrame, SameBelow
<1> HIDE DEF e
<1>3. Good(r) /\ r \in State
  BY <1>1, CheckpointRowGood DEF Good
<1>4. Below(e, r)
  BY <1>1, CheckpointBelow, SameBelow DEF CheckpointRow, CheckpointDue
<1> HIDE DEF r
<1>5. Below(s, r)
  BY <1>1, <1>2, <1>3, <1>4, BelowTrans
<1>6. Good(f) /\ f \in State /\ Below(r, f)
  BY <1>3, CheckpointFlushGood, CheckpointFlushFrame, SameBelow DEF Good
<1> HIDE DEF f
<1>7. Below(s, f)
  BY <1>1, <1>3, <1>5, <1>6, BelowTrans
<1>8. Good(p) /\ p \in State /\ Below(f, p)
  BY <1>6, PersistTimerGood, PersistFrame, SameBelow DEF Good
<1> HIDE DEF p
<1>9. Below(s, p)
  BY <1>1, <1>6, <1>7, <1>8, BelowTrans
<1> QED BY <1>1, <1>2, <1>3, <1>5, <1>6, <1>7, <1>8, <1>9 DEF e, r, f, p

\* A whole tick loses nothing.
LEMMA TickBelow ==
  ASSUME NEW s, Good(s), NEW c \in ConfigType, wall \in Wall, mono \in Nat
  PROVE  Below(s, Tick(s, c))
<1> DEFINE n == NoteClock(s)
           a == AccountElapsed(n, c)
           x == TickRecord(s, c)
           w == warning_events(x, c, warning_snapshot(s, c))
           r == refresh_restriction(w, c)
           t == SetBaselines(r)
<1>1. s \in State /\ Good(n) /\ n \in State /\ n.mem = s.mem /\ n.db = s.db
  BY NoteClockGood, NoteClockFrame DEF Good
<1>2. Below(s, n)
  BY <1>1, SameBelow DEF LedgerView
<1> HIDE DEF n
<1>3. Good(a) /\ a \in State /\ Below(n, a)
  BY <1>1, AccountElapsedGood, AccountElapsedBelow DEF Good
<1> HIDE DEF a
<1>4. Below(a, x) /\ Good(x) /\ x \in State
  <2>1. x = PersistTimer(CheckpointFlush(CheckpointRow(TimerElapse(a, c), c), c), c)
    BY DEF TickRecord, x, a, n
  <2> HIDE DEF x
  <2> QED BY <1>3, <2>1, AfterAccountBelow DEF Good
<1> HIDE DEF x
<1>5. w \in State /\ Below(x, w)
  BY <1>4, WarningFrame, SameBelow DEF Unmoved
<1> HIDE DEF w
<1>6. r \in State /\ Below(w, r)
  BY <1>5, RefreshFrame, SameBelow DEF Unmoved
<1> HIDE DEF r
<1>7. t \in State /\ Below(r, t)
  BY <1>6, BaselinesFrame, SameBelow
<1>8. t = Tick(s, c)
  BY DEF Tick, t, r, w, x
<1> HIDE DEF t
<1>9. Below(s, a)
  BY <1>1, <1>2, <1>3, BelowTrans
<1>10. Below(s, x)
  BY <1>1, <1>3, <1>4, <1>9, BelowTrans
<1>11. Below(s, w)
  BY <1>1, <1>4, <1>5, <1>10, BelowTrans
<1>12. Below(s, r)
  BY <1>1, <1>5, <1>6, <1>11, BelowTrans
<1>13. Below(s, t)
  BY <1>1, <1>6, <1>7, <1>12, BelowTrans
<1> QED BY <1>8, <1>13

-----------------------------------------------------------------------------
(* What survives a crash. *)

\* Durable time that is kept twice is kept.
LEMMA KeptTrans ==
  ASSUME NEW s \in State, NEW t \in State, NEW u \in State, Kept(s, t), Kept(t, u)
  PROVE  Kept(s, u)
<1> SUFFICES ASSUME NEW d \in Days PROVE Durable(s, d) <= Durable(u, d)
  BY DEF Kept
<1>1. Durable(s, d) \in Nat /\ Durable(t, d) \in Nat /\ Durable(u, d) \in Nat
  BY LedgerType
<1>2. Durable(s, d) <= Durable(t, d) /\ Durable(t, d) <= Durable(u, d)
  BY DEF Kept
<1> QED BY <1>1, <1>2

\* The commits of a roll-over, if there is one,
LEMMA RollStagesKept ==
  ASSUME NEW s, Good(s), NEW day \in Days, mono \in Nat, NEW t \in RollStages(s, day)
  PROVE  t \in State /\ Kept(s, t)
<1>1. s \in State /\ RollFlush(s) \in State
  BY RollFlushType DEF Good
<1>2. RollClose(RollFlush(s)) \in State /\ roll_day(s, day) \in State
  BY <1>1, RollCloseType, RollType
<1>3. t \in {RollFlush(s), RollClose(RollFlush(s)), roll_day(s, day)}
  BY DEF RollStages
<1> QED BY <1>1, <1>2, <1>3, RollBelow DEF Below

\* those of a tick,
LEMMA TickStagesKept ==
  ASSUME NEW s, Good(s), NEW c \in ConfigType, wall \in Wall, mono \in Nat,
         NEW t \in TickStages(s, c)
  PROVE  t \in State /\ Kept(s, t)
<1> DEFINE a == AccountBefore(s, c)
           b == AccountElapsed(s, c)
           e == TimerElapse(b, c)
           r == CheckpointRow(e, c)
           f == CheckpointFlush(r, c)
           p == PersistTimer(f, c)
           w == WarnTimer(p, c, warning_snapshot(s, c))
           new == c.accounting_day[wall]
<1>1. s \in State /\ new \in Days
  BY DEF Good, ConfigType
<1>2. t \in {s, b, e, r, f, p, w} \cup RollStages(a, new)
  BY DEF TickStages
<1>3. Good(a) /\ a \in State /\ Below(s, a)
  BY AccountBeforeGood, AccountBeforeBelow DEF Good
<1> HIDE DEF a
<1>4. Good(b) /\ b \in State /\ Below(s, b)
  BY AccountElapsedGood, AccountElapsedBelow DEF Good
<1> HIDE DEF b
<1>5. /\ Good(e) /\ e \in State /\ Below(b, e)
      /\ Good(r) /\ r \in State /\ Below(b, r)
      /\ Good(f) /\ f \in State /\ Below(b, f)
      /\ Good(p) /\ p \in State /\ Below(b, p)
  BY <1>4, AfterAccountBelow DEF Good
<1> HIDE DEF e, r, f, p
<1>6. w \in State /\ Below(p, w)
  BY <1>5, WarnTimerGood, WarnTimerFrame, SameBelow DEF Unmoved, Good
<1> HIDE DEF w
<1>7. Below(s, e) /\ Below(s, r) /\ Below(s, f) /\ Below(s, p)
  BY <1>1, <1>4, <1>5, BelowTrans
<1>8. Below(s, w) /\ Below(s, s)
  BY <1>1, <1>5, <1>6, <1>7, BelowTrans, SameBelow
<1>9. CASE t \in RollStages(a, new)
  <2>1. t \in State /\ Kept(a, t)
    BY <1>1, <1>3, <1>9, RollStagesKept
  <2> QED BY <1>1, <1>3, <2>1, KeptTrans DEF Below
<1>10. CASE t \in {s, b, e, r, f, p, w}
  BY <1>1, <1>4, <1>5, <1>6, <1>7, <1>8, <1>10 DEF Below
<1> QED BY <1>2, <1>9, <1>10

\* those of the handlers that follow a tick,
LEMMA HandlerStagesKept ==
  ASSUME NEW s, Good(s), NEW t \in CloseStages(s) \cup AdjustStages(s) \cup GrantStages(s),
         mono \in Nat
  PROVE  t \in State /\ Kept(s, t)
<1>1. s \in State
  BY DEF Good
<1>2. CASE t \in CloseStages(s)
  <2> DEFINE k == checkpoint_session(s)
             f == RollFlush(s)
  <2>1. /\ s.mem.game # None
        /\ t \in {flush_usage_buckets(s), RollClose(f), k, flush_usage_buckets(k)}
    BY <1>2 DEF CloseStages
  <2>2. Good(k) /\ k \in State /\ Below(s, k)
    BY <2>1, CheckpointGood, CheckpointBelow DEF Good
  <2> HIDE DEF k
  <2>3. f \in State /\ RollClose(f) \in State
    BY <1>1, RollFlushType, RollCloseType
  <2>4. Kept(s, RollClose(f))
    <3>1. s.mem.day_key \in Days
      BY <1>1, Fields
    <3> QED BY <3>1, RollBelow
  <2> HIDE DEF f
  <2>5. flush_usage_buckets(s) \in State /\ Below(s, flush_usage_buckets(s))
    BY <1>1, FlushType, FlushFrame, SameBelow DEF Unmoved
  <2>6. flush_usage_buckets(k) \in State /\ Below(k, flush_usage_buckets(k))
    BY <2>2, FlushType, FlushFrame, SameBelow DEF Unmoved
  <2>7. Below(s, flush_usage_buckets(k))
    BY <1>1, <2>2, <2>6, BelowTrans
  <2> QED BY <2>1, <2>2, <2>3, <2>4, <2>5, <2>6, <2>7 DEF Below
<1>3. CASE t \in AdjustStages(s)
  <2>1. PICK n \in Adjustments : /\ s.mem.timer.state # "idle"
                                 /\ t = save_timer([s EXCEPT !.mem.timer = Adjusted(@, n)])
    BY <1>3 DEF AdjustStages
  <2>2. /\ s.mem.timer \in Timer /\ TimerConsistent(s.mem.timer) /\ n \in Int
    BY <1>1, Fields, TimerAssumption DEF Good, Behind
  <2>3. Adjusted(s.mem.timer, n) \in Timer
    BY <2>1, <2>2, AdjustedType
  <2>4. t = save_timer([s EXCEPT !.mem.timer = Adjusted(s.mem.timer, n)])
    BY <1>1, <2>1 DEF State
  <2>5. t \in State /\ LedgerView(t) = LedgerView(s)
    BY <1>1, <2>3, <2>4, NewTimerFrame
  <2> QED BY <1>1, <2>5, SameBelow DEF Below
<1>4. CASE t \in GrantStages(s)
  <2>1. PICK n \in Grants : t = Granted(s, n)
    BY <1>4 DEF GrantStages
  <2>2. Good(t) /\ t \in State
    BY <2>1, GrantedGood DEF Good
  <2>3. LedgerView(t) = LedgerView(s)
    BY <1>1, <2>1 DEF Granted, State, Db, LedgerView
  <2> QED BY <1>1, <2>2, <2>3, SameBelow DEF Below
<1> QED BY <1>2, <1>3, <1>4

\* and so every state in which the process may die.
LEMMA CrashKept ==
  ASSUME NEW s, Good(s), NEW c \in ConfigType, wall \in Wall, mono \in Nat,
         NEW t \in CrashStages(s, c)
  PROVE  Kept(s, t)
<1> DEFINE k == Tick(s, c)
<1>1. s \in State /\ Good(k) /\ k \in State /\ Below(s, k)
  BY TickGood, TickBelow DEF Good
<1>2. t \in TickStages(s, c) \cup {k}
            \cup (CloseStages(k) \cup AdjustStages(k) \cup GrantStages(k))
  BY DEF CrashStages
<1> HIDE DEF k
<1>3. CASE t \in TickStages(s, c)
  BY <1>3, TickStagesKept
<1>4. CASE t = k
  BY <1>1, <1>4 DEF Below
<1>5. CASE t \in CloseStages(k) \cup AdjustStages(k) \cup GrantStages(k)
  <2>1. t \in State /\ Kept(k, t)
    BY <1>1, <1>5, HandlerStagesKept
  <2> QED BY <1>1, <2>1, KeptTrans DEF Below
<1> QED BY <1>2, <1>3, <1>4, <1>5

\* The same in the middle of timer.adjust.
LEMMA AdjustCutKept ==
  ASSUME NEW s, Good(s), s.mem.timer.state # "idle", NEW n \in Adjustments \ {0}
  PROVE  AdjustCut(s, n) \in State /\ LedgerView(AdjustCut(s, n)) = LedgerView(s)
<1> DEFINE t == save_timer([s EXCEPT !.mem.timer = Adjusted(@, n)])
<1>1. s \in State /\ s.mem.timer \in Timer /\ TimerConsistent(s.mem.timer) /\ n \in Int
  BY Fields, TimerAssumption DEF Good, Behind
<1>2. Adjusted(s.mem.timer, n) \in Timer
  BY <1>1, AdjustedType
<1>3. t = save_timer([s EXCEPT !.mem.timer = Adjusted(s.mem.timer, n)])
  BY <1>1 DEF State
<1>4. t \in State /\ LedgerView(t) = LedgerView(s)
  BY <1>1, <1>2, <1>3, NewTimerFrame
<1> HIDE DEF t
<1>5. ClearTimerMarks(t) \in State /\ LedgerView(ClearTimerMarks(t)) = LedgerView(t)
  BY <1>4 DEF ClearTimerMarks, LedgerView, State, Db
<1> QED BY <1>4, <1>5 DEF AdjustCut, t

\* The same in the middle of config.update.
LEMMA UpdateStagesKept ==
  ASSUME NEW s, Good(s), NEW old \in ConfigType, NEW new \in ConfigType,
         wall \in Wall, mono \in Nat, NEW t \in UpdateStages(s, old, new)
  PROVE  Kept(s, t)
<1> DEFINE k   == Tick(s, old)
           day == new.accounting_day[wall]
<1>1. s \in State /\ Good(k) /\ k \in State /\ Below(s, k) /\ day \in Days
  BY TickGood, TickBelow DEF Good, ConfigType
<1>2. t \in TickStages(s, old) \cup {k} \cup RollStages(k, day)
  BY DEF UpdateStages
<1> HIDE DEF k, day
<1>3. CASE t \in TickStages(s, old)
  BY <1>3, TickStagesKept
<1>4. CASE t = k
  BY <1>1, <1>4 DEF Below
<1>5. CASE t \in RollStages(k, day)
  <2>1. t \in State /\ Kept(k, t)
    BY <1>1, <1>5, RollStagesKept
  <2> QED BY <1>1, <2>1, KeptTrans DEF Below
<1> QED BY <1>2, <1>3, <1>4, <1>5

\* The end of a session makes all of it durable.
LEMMA CloseGameBelow ==
  ASSUME NEW s, Good(s)
  PROVE  Below(s, close_current_game(s))
<1> DEFINE d == close_session(s.db, s.mem.session_duration)
           t == close_current_game(s)
<1>1. s \in State
  BY DEF Good
<1>2. /\ t.mem.session_duration = 0
      /\ t.db.closed = IF s.mem.game = None THEN s.db.closed ELSE d.closed
      /\ t.db.open = IF s.mem.game = None THEN s.db.open ELSE d.open
  BY <1>1, CloseGameFrame
<1> HIDE DEF t
<1>3. CASE s.mem.game = None
  <2>1. s.mem.session_duration = 0
    BY <1>3 DEF Good, Balanced
  <2>2. LedgerView(t) = LedgerView(s)
    BY <1>2, <1>3, <2>1 DEF LedgerView
  <2> QED BY <1>1, <2>2, SameBelow DEF t
<1>4. CASE s.mem.game # None
  <2>1. ASSUME NEW x \in Days
        PROVE  /\ t.db.closed[x] = Counted(s, x)
               /\ t.db.open = None
               /\ Counted(s, x) \in Nat
               /\ Durable(s, x) <= Counted(s, x)
    BY <1>1, <1>2, <1>4, ClosedIsCounted, LedgerType, DurableIsCounted
  <2>2. ASSUME NEW x \in Days
        PROVE  Counted(t, x) = Counted(s, x) /\ Durable(t, x) = Counted(s, x)
    BY <2>1 DEF Counted, Durable, usage_for_day
  <2>3. Below(s, t)
    BY <2>1, <2>2 DEF Below, Kept
  <2> QED BY <2>3 DEF t
<1> QED BY <1>3, <1>4

\* The orderly stop loses nothing of what was durable, and no session either.
LEMMA ShutdownKept ==
  ASSUME NEW s, Good(s)
  PROVE  Kept(s, shutdown(s))
<1> DEFINE k == checkpoint_session(s)
           t == IF s.mem.game = None THEN s ELSE close_current_game(k)
<1>1. s \in State /\ Good(t) /\ t \in State
  BY CheckpointGood, CloseGameGood DEF Good
<1>2. Below(s, t)
  <2>1. CASE s.mem.game = None
    BY <1>1, <2>1, SameBelow
  <2>2. CASE s.mem.game # None
    <3>1. Good(k) /\ k \in State /\ Below(s, k)
      BY <2>2, CheckpointGood, CheckpointBelow DEF Good
    <3> HIDE DEF k
    <3>2. Below(k, close_current_game(k)) /\ close_current_game(k) \in State
      BY <3>1, CloseGameBelow, CloseGameGood DEF Good
    <3> QED BY <1>1, <2>2, <3>1, <3>2, BelowTrans
  <2> QED BY <2>1, <2>2
<1>3. shutdown(s) = IF t.mem.timer.state = "running" THEN save_timer(t) ELSE t
  BY DEF shutdown
<1> HIDE DEF t
<1>4. save_timer(t) \in State /\ LedgerView(save_timer(t)) = LedgerView(t)
  BY <1>1, SaveTimerType DEF save_timer, State, Db, LedgerView
<1>5. Below(s, save_timer(t))
  BY <1>1, <1>2, <1>4, SameBelow, BelowTrans
<1> QED BY <1>2, <1>3, <1>5 DEF Below

-----------------------------------------------------------------------------
(* The handlers, and a start. *)

\* A change of game closes one session and opens another.
LEMMA SetGameBelow ==
  ASSUME NEW s, Good(s), NEW g \in Games, mono \in Nat
  PROVE  Below(s, set_game(s, g))
<1> DEFINE k == close_current_game(s)
           o == OpenGame(k, g)
           n == Note(s, "game.metadata_updated")
<1>1. s \in State /\ Good(k) /\ k \in State /\ k.db.open = None /\ Below(s, k)
  BY CloseGameGood, CloseGameBelow DEF Good
<1>2. set_game(s, g) \in {n, k, o}
  BY DEF set_game, k, n, o
<1> HIDE DEF k
<1>3. Good(o) /\ o \in State
  BY <1>1, OpenGameGood DEF Good
<1>4. /\ o.mem.session_duration = 0
      /\ o.db.closed = k.db.closed
      /\ o.db.open = [day |-> k.mem.day_key, duration |-> 0]
  BY <1>1, OpenGameFrame
<1> HIDE DEF o
<1>5. ASSUME NEW d \in Days
      PROVE  /\ Counted(k, d) = k.db.closed[d] /\ Durable(k, d) = k.db.closed[d]
             /\ Counted(o, d) = k.db.closed[d] /\ Durable(o, d) = k.db.closed[d]
             /\ k.db.closed[d] \in Nat
  <2>1. k.db.closed[d] \in Nat
    BY <1>1, Parts DEF Db
  <2>2. o.db.open.duration = 0
    BY <1>4
  <2> QED BY <1>1, <1>4, <2>1, <2>2 DEF Counted, Durable, usage_for_day
<1>6. Below(k, o)
  BY <1>5 DEF Below, Kept
<1>7. Below(s, o)
  BY <1>1, <1>3, <1>6, BelowTrans
<1>8. Below(s, n)
  BY <1>1, NoteFrame, SameBelow DEF LedgerView
<1> QED BY <1>1, <1>2, <1>7, <1>8

\* The end of a game.
LEMMA StopGameBelow ==
  ASSUME NEW s, Good(s), NEW c \in ConfigType
  PROVE  Below(s, stop_game(s, c))
<1> DEFINE k == close_current_game(s)
           t == refresh_restriction(k, c)
<1>1. s \in State /\ Good(k) /\ k \in State /\ Below(s, k)
  BY CloseGameGood, CloseGameBelow DEF Good
<1> HIDE DEF k
<1>2. t \in State /\ Below(k, t)
  BY <1>1, RefreshFrame, SameBelow DEF Unmoved
<1>3. Below(s, t)
  BY <1>1, <1>2, BelowTrans
<1> QED BY <1>3 DEF stop_game, t, k

\* A resume, with the roll-over it may bring.
LEMMA ResumeBelow ==
  ASSUME NEW s, Good(s), NEW c \in ConfigType, wall \in Wall, mono \in Nat
  PROVE  Below(s, resume(s, c))
<1> DEFINE t      == resume(s, c)
           new    == c.accounting_day[wall]
           based  == SetBaselines(s)
           rolled == IF new = s.mem.day_key THEN based ELSE roll_day(based, new)
<1>1. s \in State /\ new \in Days /\ Good(t) /\ t \in State
  BY ResumeGood DEF Good, ConfigType
<1>2. LedgerView(t) = LedgerView(rolled)
  BY ResumeFrame
<1> HIDE DEF t, new
<1>3. Good(based) /\ based \in State /\ Below(s, based)
  BY <1>1, BaselinesGood, BaselinesFrame, SameBelow DEF Good
<1> HIDE DEF based
<1>4. Below(based, roll_day(based, new)) /\ roll_day(based, new) \in State
  BY <1>1, <1>3, RollBelow, RollType
<1>5. rolled \in State /\ Below(s, rolled)
  BY <1>1, <1>3, <1>4, BelowTrans
<1> HIDE DEF rolled
<1>6. Below(rolled, t)
  BY <1>2, <1>5, SameBelow
<1>7. Below(s, t)
  BY <1>1, <1>5, <1>6, BelowTrans
<1> QED BY <1>7 DEF t

\* A change of configuration, with the roll-over a new reset clock may bring.
LEMMA UpdateBelow ==
  ASSUME NEW s, Good(s), NEW old \in ConfigType, NEW new \in ConfigType,
         wall \in Wall, mono \in Nat
  PROVE  Below(s, update_config(s, old, new))
<1> DEFINE t      == update_config(s, old, new)
           day    == new.accounting_day[wall]
           rolled == IF day = s.mem.day_key THEN s ELSE roll_day(s, day)
<1>1. s \in State /\ day \in Days /\ Good(t) /\ t \in State
  BY UpdateConfigGood DEF Good, ConfigType
<1>2. LedgerView(t) = LedgerView(rolled)
  BY UpdateFrame
<1> HIDE DEF t, day
<1>3. Below(s, s) /\ Below(s, roll_day(s, day)) /\ roll_day(s, day) \in State
  BY <1>1, SameBelow, RollBelow, RollType
<1>4. rolled \in State /\ Below(s, rolled)
  BY <1>1, <1>3
<1> HIDE DEF rolled
<1>5. Below(s, t)
  BY <1>1, <1>2, <1>4, SameBelow, BelowTrans
<1> QED BY <1>5 DEF t

\* The recovery of an orphan session only closes its row.
LEMMA RecoverSame ==
  ASSUME NEW d \in Db, TimerConsistent(d.timer), NEW c \in ConfigType,
         wall \in Wall, mono \in Nat, NEW x \in Days
  PROVE  LET r == RecoverSession(Loaded(d, c)).db
         IN  r.closed[x] = usage_for_day(d, x) /\ r.open = None
<1> DEFINE l == Loaded(d, c)
           k == [l EXCEPT !.db = close_session(@, @.open.duration)]
           r == RecoverSession(l)
<1>1. l.db = d
  BY DEF Loaded
<1>2. k.db = close_session(d, d.open.duration)
  BY DEF Loaded
<1>3. Note(k, "session.recovered").db = k.db
  BY DEF Note, Emit, Loaded
<1>4. r.db = IF d.open = None THEN d ELSE close_session(d, d.open.duration)
  <2>1. r = IF d.open = None THEN l ELSE Note(k, "session.recovered")
    BY <1>1 DEF RecoverSession
  <2> HIDE DEF l, k, r
  <2> QED BY <1>1, <1>2, <1>3, <2>1
<1> HIDE DEF r
<1>5. CASE d.open = None
  <2>1. d.closed[x] \in Nat
    BY DEF Db
  <2> QED BY <1>4, <1>5, <2>1 DEF usage_for_day, r, l
<1>6. CASE d.open # None
  <2> DEFINE f == [d.closed EXCEPT ![d.open.day] = @ + d.open.duration]
  <2>1. /\ d.open.day \in Days /\ d.open.duration \in Nat
        /\ d.closed \in [Days -> Nat]
    BY <1>6 DEF Db, SessionRow
  <2>2. r.db.closed = f /\ r.db.open = None
    BY <1>4, <1>6 DEF close_session, Db
  <2>3. f[x] = d.closed[x] + IF d.open.day = x THEN d.open.duration ELSE 0
    BY <2>1
  <2> HIDE DEF f
  <2> QED BY <1>6, <2>2, <2>3 DEF usage_for_day, r, l
<1> QED BY <1>5, <1>6

\* A start counts on from what is durable.
LEMMA BootSame ==
  ASSUME NEW d \in Db, TimerConsistent(d.timer), NEW c \in ConfigType,
         wall \in Wall, mono \in Nat, NEW x \in Days
  PROVE  LET t == boot(d, c)
         IN  t.db.closed[x] = usage_for_day(d, x) /\ t.db.open = None
<1> DEFINE r == RecoverSession(Loaded(d, c))
           p == [r EXCEPT !.mem.timer.state = "paused"]
           v == save_timer(p)
           y == RecoverTimer(r)
           t == SetRestriction(y, c)
<1>1. r \in State /\ r.db.closed[x] = usage_for_day(d, x) /\ r.db.open = None
  BY RecoverSessionGood, RecoverSame DEF Good
<1> HIDE DEF r
<1>2. p \in State /\ p.db = r.db
  BY <1>1 DEF State, Mem, Timer, TimerStates
<1> HIDE DEF p
<1>3. v \in State /\ v.db.closed = p.db.closed /\ v.db.open = p.db.open
  BY <1>2, SaveTimerType DEF save_timer, State, Db
<1> HIDE DEF v
<1>4. Note(v, "timer.paused_after_restart") \in State
      /\ Note(v, "timer.paused_after_restart").db = v.db
  BY <1>3, NoteType, NoteFrame DEF Kinds
<1>5. y \in {r, Note(v, "timer.paused_after_restart")}
  BY DEF RecoverTimer, v, p
<1>6. y \in State /\ y.db.closed[x] = usage_for_day(d, x) /\ y.db.open = None
  BY <1>1, <1>2, <1>3, <1>4, <1>5
<1> HIDE DEF y
<1>7. t.db = y.db
  BY <1>6 DEF SetRestriction, State
<1>8. boot(d, c) = t
  BY DEF boot, t, y, r
<1> QED BY <1>6, <1>7, <1>8

-----------------------------------------------------------------------------
(* The refinement. *)

\* The owner's purge leaves no time at all, or does nothing.
Purged(t) == t.db.closed = NoSeconds /\ t.db.open = None

\* history.clear is refused while a session is open.
LEMMA ClearBelow ==
  ASSUME NEW s, Good(s)
  PROVE  Below(s, clear_history(s)) \/ Purged(clear_history(s))
<1>1. s \in State
  BY DEF Good
<1>2. CASE s.db.open # None
  BY <1>1, <1>2, SameBelow DEF clear_history
<1>3. CASE s.db.open = None
  BY <1>1, <1>3 DEF clear_history, State, Db, Purged
<1> QED BY <1>2, <1>3

\* A step that does not end the service adds time, or is the purge.
LEMMA StepBelow ==
  ASSUME IInv, Running, [Next]_vars, ~(Shutdown \/ Crash \/ UpdateDies \/ AdjustDies)
  PROVE  \E t : Good(t) /\ mem' = t.mem /\ db' = t.db /\ (Below(S, t) \/ Purged(t))
<1> DEFINE Goal == \E t : Good(t) /\ mem' = t.mem /\ db' = t.db /\ (Below(S, t) \/ Purged(t))
<1> SUFFICES Goal
  OBVIOUS
<1> USE DEF Commit, Step
<1>0. C \in ConfigType /\ wall \in Wall /\ mono \in Nat /\ cfg \in Profiles
  BY ConfigAssumption DEF IInv, TypeOK, C
<1>s. Good(S) /\ S \in State /\ S.mem = mem /\ S.db = db /\ Below(S, S)
  BY RunningGood, SameBelow DEF Good
<1>t. Good(Ticked) /\ Ticked \in State /\ Below(S, Ticked)
  BY <1>0, <1>s, TickedGood, TickBelow DEF Ticked, Good
<1>h. ASSUME NEW t, Good(t), Below(Ticked, t), Step(t)
      PROVE  Goal
  <2>1. Below(S, t)
    BY <1>s, <1>t, <1>h, BelowTrans DEF Good
  <2> QED BY <1>h, <2>1
<1>v. ASSUME NEW t, Good(t), LedgerView(t) = LedgerView(Ticked), Step(t)
      PROVE  Goal
  <2>1. Below(Ticked, t)
    BY <1>t, <1>v, SameBelow
  <2> QED BY <1>h, <1>v, <2>1
<1>1. CASE Advance \/ SetWall \/ UNCHANGED vars
  BY <1>1, <1>s DEF Advance, SetWall, vars
<1>2. CASE ClearHistory
  <2>1. /\ Good(clear_history(S))
        /\ Below(S, clear_history(S)) \/ Purged(clear_history(S))
    BY <1>s, ClearHistoryGood, ClearBelow
  <2> QED BY <1>2, <2>1 DEF ClearHistory
<1>3. CASE RestartCheckpoint
  <2> DEFINE t == IF mem.game = None THEN S ELSE checkpoint_session(S)
  <2>1. Good(t) /\ Below(S, t)
    BY <1>s, CheckpointGood, CheckpointBelow
  <2>2. Step(t)
    BY <1>3 DEF RestartCheckpoint
  <2> HIDE DEF t
  <2> QED BY <2>1, <2>2
<1> HIDE DEF Goal
<1>4. CASE TickLoop
  BY <1>4, <1>t, <1>v DEF TickLoop
<1>5. CASE GameReported
  <2>1. PICK g \in Games : Step(set_game(Ticked, g))
    BY <1>5 DEF GameReported
  <2> QED BY <1>0, <1>t, <1>h, <2>1, SetGameGood, SetGameBelow
<1>6. CASE GameCleared
  BY <1>0, <1>6, <1>t, <1>h, StopGameGood, StopGameBelow DEF GameCleared
<1>7. CASE Suspend
  BY <1>7, <1>t, <1>v, SuspendGood, SuspendFrame DEF Suspend
<1>8. CASE Resume
  BY <1>0, <1>8, <1>t, <1>h, ResumeGood, ResumeBelow DEF Resume
<1>9. CASE StartTimer
  <2>1. PICK n \in TimerDurations, a \in TimerActions : Step(start_timer(Ticked, n, a))
    BY <1>9 DEF StartTimer
  <2>2. LedgerView(start_timer(Ticked, n, a)) = LedgerView(Ticked)
    BY <1>t, StartTimerFrame DEF TimerOnly
  <2> QED BY <1>t, <1>v, <2>1, <2>2, StartTimerGood
<1>10. CASE PauseTimer
  <2>1. LedgerView(pause_timer(Ticked)) = LedgerView(Ticked)
    BY <1>t, PauseTimerFrame DEF TimerOnly
  <2> QED BY <1>10, <1>t, <1>v, <2>1, PauseTimerGood DEF PauseTimer
<1>11. CASE ResumeTimer
  <2>1. LedgerView(resume_timer(Ticked)) = LedgerView(Ticked)
    BY <1>t, ResumeTimerFrame DEF TimerOnly
  <2> QED BY <1>11, <1>t, <1>v, <2>1, ResumeTimerGood DEF ResumeTimer
<1>12. CASE CancelTimer
  <2>1. LedgerView(cancel_timer(Ticked, C)) = LedgerView(Ticked)
    BY <1>0, <1>t, CancelTimerFrame DEF TimerOnly
  <2> QED BY <1>0, <1>12, <1>t, <1>v, <2>1, CancelTimerGood DEF CancelTimer
<1>13. CASE AdjustTimer
  <2>1. PICK n \in Adjustments : Step(adjust_timer(Ticked, C, n))
    BY <1>13 DEF AdjustTimer
  <2>2. LedgerView(adjust_timer(Ticked, C, n)) = LedgerView(Ticked)
    BY <1>0, <1>t, AdjustTimerFrame DEF TimerOnly
  <2> QED BY <1>0, <1>t, <1>v, <2>1, <2>2, AdjustTimerGood
<1>14. CASE GrantDailyTime
  <2>1. PICK n \in Grants : Step(grant_daily_time(Ticked, C, n))
    BY <1>14 DEF GrantDailyTime
  <2>2. LedgerView(grant_daily_time(Ticked, C, n)) = LedgerView(Ticked)
    BY <1>0, <1>t, GrantFrame
  <2> QED BY <1>0, <1>t, <1>v, <2>1, <2>2, GrantGood
<1>15. CASE UpdateConfig
  <2>1. PICK p \in Profiles : Step(update_config(Ticked, C, Config[p]))
    BY <1>15 DEF UpdateConfig
  <2>2. Config[p] \in ConfigType
    BY ConfigAssumption
  <2> QED BY <1>0, <1>t, <1>h, <2>1, <2>2, UpdateConfigGood, UpdateBelow
<1>16. CASE Boot \/ BootDies
  BY <1>16 DEF Boot, BootDies
<1> QED
  BY <1>1, <1>2, <1>3, <1>4, <1>5, <1>6, <1>7, <1>8, <1>9, <1>10, <1>11, <1>12, <1>13,
     <1>14, <1>15, <1>16 DEF Next

\* A step that ends the service, whatever the handler it dies in, keeps what is
\* durable.
LEMMA StopKept ==
  ASSUME IInv, Running, Next, ~Running'
  PROVE  \E t : db' = t.db /\ Kept(S, t)
<1>0. C \in ConfigType /\ wall \in Wall /\ mono \in Nat
  BY ConfigAssumption DEF IInv, TypeOK, C
<1>s. Good(S) /\ S \in State /\ S.mem = mem
  BY RunningGood DEF Good
<1>t. Good(Ticked) /\ Ticked \in State /\ Below(S, Ticked)
  BY <1>0, <1>s, TickedGood, TickBelow DEF Ticked, Good
<1>1. CASE Shutdown
  <2>1. Kept(Ticked, shutdown(Ticked)) /\ shutdown(Ticked) \in State
    BY <1>t, ShutdownKept, ShutdownGood DEF Good
  <2>2. Kept(S, shutdown(Ticked))
    BY <1>s, <1>t, <2>1, KeptTrans DEF Below
  <2> QED BY <1>1, <2>2 DEF Shutdown
<1>2. CASE Crash
  <2>1. PICK t \in CrashStages(S, C) : db' = t.db
    BY <1>2 DEF Crash
  <2> QED BY <1>0, <1>s, <2>1, CrashKept
<1>3. CASE UpdateDies
  <2>1. PICK p \in Profiles : \E t \in UpdateStages(S, C, Config[p]) : db' = t.db
    BY <1>3 DEF UpdateDies
  <2>2. PICK t \in UpdateStages(S, C, Config[p]) : db' = t.db
    BY <2>1
  <2>3. Config[p] \in ConfigType
    BY ConfigAssumption
  <2> QED BY <1>0, <1>s, <2>2, <2>3, UpdateStagesKept
<1>4. CASE AdjustDies
  <2>1. PICK n \in Adjustments \ {0} : db' = AdjustCut(Ticked, n).db
    BY <1>4, TimerAssumption DEF AdjustDies
  <2>2. LedgerView(AdjustCut(Ticked, n)) = LedgerView(Ticked) /\ AdjustCut(Ticked, n) \in State
    BY <1>4, <1>t, AdjustCutKept DEF AdjustDies
  <2>3. Kept(S, AdjustCut(Ticked, n))
    BY <1>s, <1>t, <2>2, SameBelow, KeptTrans DEF Below
  <2> QED BY <2>1, <2>3
<1>5. CASE ~(Shutdown \/ Crash \/ UpdateDies \/ AdjustDies)
  <2>1. \E t : Good(t) /\ mem' = t.mem
    BY <1>5, StepBelow
  <2>2. mem' = None /\ mem # None
    BY DEF Running
  <2>3. \A t : Good(t) => t.mem # None
    BY NoneAssumption, Parts DEF Good
  <2> QED BY <2>1, <2>2, <2>3
<1> QED BY <1>1, <1>2, <1>3, <1>4, <1>5

\* The refinement mapping, on the variables and on a handler's state.
LEMMA Mapping ==
  ASSUME IInv
  PROVE  /\ DurableTime = [d \in Days |-> Durable(S, d)]
         /\ Running => CountedTime = [d \in Days |-> Counted(S, d)]
         /\ ~Running => CountedTime = DurableTime
<1>1. S.db = db /\ S.mem = mem
  BY DEF S
<1>2. DurableTime = [d \in Days |-> Durable(S, d)]
  BY <1>1 DEF DurableTime, Durable
<1>3. ASSUME Running PROVE CountedTime = [d \in Days |-> Counted(S, d)]
  <2>1. ASSUME NEW d \in Days
        PROVE  (IF Running /\ db.open # None /\ db.open.day = d
                THEN db.closed[d] + mem.session_duration
                ELSE usage_for_day(db, d)) = Counted(S, d)
    BY <1>1, <1>3 DEF Counted, usage_for_day
  <2> QED BY <2>1 DEF CountedTime
<1>4. ASSUME ~Running PROVE CountedTime = DurableTime
  BY <1>4 DEF CountedTime, DurableTime
<1> QED BY <1>2, <1>3, <1>4

\* The same after a step that leaves the service in the state t.
LEMMA MappingNext ==
  ASSUME NEW t, Running', mem' = t.mem, db' = t.db
  PROVE  /\ DurableTime' = [d \in Days |-> Durable(t, d)]
         /\ CountedTime' = [d \in Days |-> Counted(t, d)]
<1>1. DurableTime' = [d \in Days |-> Durable(t, d)]
  BY DEF DurableTime, Durable, usage_for_day
<1>2. ASSUME NEW d \in Days
      PROVE  (IF Running' /\ db'.open # None /\ db'.open.day = d
              THEN db'.closed[d] + mem'.session_duration
              ELSE usage_for_day(db, d)') = Counted(t, d)
  BY DEF Counted, usage_for_day
<1>3. CountedTime' = [d \in Days |-> Counted(t, d)]
  BY <1>2 DEF CountedTime
<1> QED BY <1>1, <1>3

\* Every step of the engine is a step of the ledger, or leaves it alone.
LEMMA StepRefines ==
  ASSUME IInv, IInv', [Next]_vars
  PROVE  [L!LedgerNext]_(L!ledgerVars)
<1>0. C \in ConfigType /\ wall \in Wall /\ mono \in Nat /\ db \in Db /\ TimerConsistent(db.timer)
  BY ConfigAssumption DEF IInv, TypeOK, C, TimerRowAgrees
<1>1. CASE Running /\ Running'
  <2>1. ~(Shutdown \/ Crash \/ UpdateDies \/ AdjustDies)
    BY <1>1 DEF Shutdown, Crash, UpdateDies, AdjustDies, Running
  <2>2. PICK t : Good(t) /\ mem' = t.mem /\ db' = t.db /\ (Below(S, t) \/ Purged(t))
    BY <1>1, <2>1, StepBelow
  <2>3. /\ DurableTime = [d \in Days |-> Durable(S, d)]
        /\ CountedTime = [d \in Days |-> Counted(S, d)]
        /\ DurableTime' = [d \in Days |-> Durable(t, d)]
        /\ CountedTime' = [d \in Days |-> Counted(t, d)]
    BY <1>1, <2>2, Mapping, MappingNext
  <2>4. CASE Below(S, t)
    <3>1. /\ \A d \in Days : CountedTime[d] <= CountedTime'[d]
          /\ \A d \in Days : DurableTime[d] <= DurableTime'[d]
      BY <2>3, <2>4 DEF Below, Kept
    <3>2. \A d \in Days : DurableTime'[d] <= CountedTime'[d]
      BY <2>2, <2>3, DurableIsCounted
    <3>3. Running' = TRUE
      BY <1>1 DEF Running
    <3>4. L!Count
      BY <1>1, <3>1, <3>2, <3>3 DEF L!Count, L!Grows
    <3> QED BY <3>4 DEF L!LedgerNext
  <2>5. CASE Purged(t)
    <3>1. ASSUME NEW d \in Days PROVE Durable(t, d) = 0 /\ Counted(t, d) = 0
      BY <2>5 DEF Purged, NoSeconds, Durable, Counted, usage_for_day
    <3>2. /\ DurableTime' = [d \in Days |-> 0]
          /\ CountedTime' = [d \in Days |-> 0]
      BY <2>3, <3>1
    <3>3. Running' = TRUE
      BY <1>1 DEF Running
    <3>4. L!Purge
      BY <1>1, <3>2, <3>3 DEF L!Purge, L!Empty
    <3> QED BY <3>4 DEF L!LedgerNext
  <2> QED BY <2>2, <2>4, <2>5
<1>2. CASE Running /\ ~Running'
  <2>1. Next
    BY <1>2 DEF vars, Running
  <2>2. PICK t : db' = t.db /\ Kept(S, t)
    BY <1>2, <2>1, StopKept
  <2>3. DurableTime = [d \in Days |-> Durable(S, d)]
    BY Mapping
  <2>4. DurableTime' = [d \in Days |-> Durable(t, d)]
    BY <2>2 DEF DurableTime, Durable, usage_for_day
  <2>5. \A d \in Days : DurableTime[d] <= DurableTime'[d]
    BY <2>2, <2>3, <2>4 DEF Kept
  <2>6. CountedTime' = DurableTime'
    BY <1>2 DEF CountedTime, DurableTime
  <2>7. Running' = FALSE
    BY <1>2 DEF Running
  <2>8. L!Stop
    BY <1>2, <2>5, <2>6, <2>7 DEF L!Stop, L!Grows
  <2> QED BY <2>8 DEF L!LedgerNext
<1>3. CASE ~Running /\ Running'
  <2>1. Boot
    BY <1>3 DEF Next, vars, Running, Advance, SetWall, TickLoop, GameReported, GameCleared,
          Suspend, Resume, StartTimer, PauseTimer, ResumeTimer, CancelTimer, AdjustTimer,
          GrantDailyTime, UpdateConfig, ClearHistory, RestartCheckpoint, Shutdown,
          Crash, UpdateDies, AdjustDies, BootDies
  <2> DEFINE t == boot(db, C)
  <2>2. mem' = t.mem /\ db' = t.db
    BY <2>1 DEF Boot, Commit, Step
  <2>3. ASSUME NEW d \in Days
        PROVE  t.db.closed[d] = usage_for_day(db, d) /\ t.db.open = None
    BY <1>0, BootSame
  <2> HIDE DEF t
  <2>4. ASSUME NEW d \in Days
        PROVE  /\ Durable(t, d) = usage_for_day(db, d)
               /\ Counted(t, d) = usage_for_day(db, d)
    <3>1. usage_for_day(db, d) \in Nat
      BY <1>0, UsageType
    <3> QED BY <2>3, <3>1 DEF Durable, Counted, usage_for_day
  <2>5. /\ DurableTime' = [d \in Days |-> Durable(t, d)]
        /\ CountedTime' = [d \in Days |-> Counted(t, d)]
    BY <1>3, <2>2, MappingNext
  <2>6. DurableTime = [d \in Days |-> usage_for_day(db, d)] /\ CountedTime = DurableTime
    BY <1>3, Mapping DEF DurableTime
  <2>7. DurableTime' = DurableTime /\ CountedTime' = CountedTime
    BY <2>4, <2>5, <2>6
  <2>8. Running' = TRUE
    BY <1>3 DEF Running
  <2>9. L!Start
    BY <1>3, <2>7, <2>8 DEF L!Start
  <2> QED BY <2>9 DEF L!LedgerNext
<1>4. CASE ~Running /\ ~Running'
  <2>0. ~Boot
    <3> SUFFICES ASSUME Boot PROVE FALSE
      OBVIOUS
    <3>1. boot(db, C).mem \in Mem
      BY <1>0, BootGood, Parts DEF Good
    <3>2. mem' = boot(db, C).mem
      BY DEF Boot, Commit, Step
    <3> QED BY <1>4, <3>1, <3>2, NoneAssumption DEF Running
  <2>1. \/ db' = db
        \/ db' = RecoverSession(Loaded(db, C)).db
    BY <1>4, <2>0 DEF Next, vars, Running, Advance, SetWall, TickLoop, GameReported, GameCleared,
          Suspend, Resume, StartTimer, PauseTimer, ResumeTimer, CancelTimer, AdjustTimer,
          GrantDailyTime, UpdateConfig, ClearHistory, RestartCheckpoint, Shutdown,
          Crash, UpdateDies, AdjustDies, BootDies
  <2>2. CASE db' = db
    BY <1>4, <2>2 DEF L!ledgerVars, DurableTime, CountedTime, usage_for_day, Running
  <2>3. CASE db' = RecoverSession(Loaded(db, C)).db
    <3>1. ASSUME NEW d \in Days
          PROVE  db'.closed[d] = usage_for_day(db, d) /\ db'.open = None
      BY <1>0, <2>3, RecoverSame
    <3>2. ASSUME NEW d \in Days
          PROVE  usage_for_day(db, d)' = usage_for_day(db, d)
      <4>1. usage_for_day(db, d) \in Nat
        BY <1>0, UsageType
      <4>2. usage_for_day(db, d)' = db'.closed[d] + 0
        BY <3>1 DEF usage_for_day
      <4> QED BY <3>1, <4>1, <4>2
    <3>3. DurableTime' = DurableTime
      BY <3>2 DEF DurableTime
    <3>4. CountedTime' = DurableTime' /\ CountedTime = DurableTime
      BY <1>4 DEF CountedTime, DurableTime
    <3>5. Running' = Running
      BY <1>4 DEF Running
    <3> QED BY <3>3, <3>4, <3>5 DEF L!ledgerVars
  <2> QED BY <2>1, <2>2, <2>3
<1> QED BY <1>1, <1>2, <1>3, <1>4

\* The accounting of play time in engine.py and storage.py implements PlayLedger:
\* while the service runs counted and durable time only grow and nothing durable
\* is uncounted; a stop or a crash between any two commits loses no durable time;
\* a start changes nothing; only history.clear removes durable time.
THEOREM EngineIsLedger == Spec => ImplementsLedger
<1>1. Init => L!LedgerInit
  <2> SUFFICES ASSUME Init PROVE L!LedgerInit
    OBVIOUS
  <2>1. db.open = None /\ db.closed = NoSeconds /\ mem = None
    BY DEF Init
  <2>2. ASSUME NEW d \in Days PROVE usage_for_day(db, d) = 0
    BY <2>1 DEF usage_for_day, NoSeconds
  <2>3. DurableTime = [d \in Days |-> 0] /\ CountedTime = [d \in Days |-> 0]
    BY <2>1, <2>2 DEF DurableTime, CountedTime, Running
  <2>4. Running = FALSE
    BY <2>1 DEF Running
  <2> QED BY <2>3, <2>4 DEF L!LedgerInit, L!Empty
<1>2. IInv /\ IInv' /\ [Next]_vars => [L!LedgerNext]_(L!ledgerVars)
  BY StepRefines
<1> QED BY <1>1, <1>2, Invariance, PTL DEF Spec, ImplementsLedger, L!LedgerSpec

-----------------------------------------------------------------------------
(* What a crash can cost *)

\* Unsaved, at a state of a handler.
UnsavedAt(s) ==
    IF s.db.open # None THEN s.mem.session_duration - s.db.open.duration ELSE 0

Trailing(s) ==
    /\ s.mem.checkpoint_mono <= s.mem.tick_mono
    /\ s.mem.tick_mono <= mono
    /\ mono - s.mem.tick_mono <= MaxTickGap
    /\ UnsavedAt(s) <= s.mem.tick_mono - s.mem.checkpoint_mono + MaxTickGap

UnsavedBounded ==
    \E p \in Profiles : Unsaved < Config[p].checkpoint + MaxTickGap

LossInv == IInv /\ (Running => Trailing(S)) /\ UnsavedBounded

\* The numbers the loss is made of; without a game there is none.
LEMMA UnsavedType ==
  ASSUME NEW s, Good(s)
  PROVE  /\ s \in State
         /\ UnsavedAt(s) \in Nat
         /\ s.mem.session_duration \in Nat
         /\ s.mem.checkpoint_mono \in Nat
         /\ s.mem.tick_mono \in Nat
         /\ s.db.open # None => s.db.open.duration \in Nat
         /\ s.mem.game = None => UnsavedAt(s) = 0
<1>1. s \in State /\ s.mem \in Mem /\ s.db \in Db /\ s.mem.session_duration \in Nat
  BY Parts, Fields DEF Good
<1>2. s.mem.checkpoint_mono \in Nat /\ s.mem.tick_mono \in Nat
  BY <1>1 DEF Mem
<1>3. s.db.open # None => /\ s.db.open.duration \in Nat
                          /\ s.db.open.duration <= s.mem.session_duration
                          /\ s.mem.game # None
  BY <1>1 DEF Good, Balanced, Db, SessionRow
<1> QED BY <1>1, <1>2, <1>3 DEF UnsavedAt

\* The loss depends on the session and its row alone.
LEMMA SameUnsaved ==
  ASSUME NEW s, NEW t, LedgerView(t) = LedgerView(s)
  PROVE  UnsavedAt(t) = UnsavedAt(s)
BY DEF LedgerView, UnsavedAt

\* The elapsed time is added to what is unsaved, or, after a roll-over, it is all
\* that is unsaved and the checkpoint has moved to the present.
LEMMA AccountElapsedUnsaved ==
  ASSUME NEW s, Good(s), NEW c \in ConfigType, wall \in Wall, mono \in Nat
  PROVE  LET t == AccountElapsed(s, c)
         IN  \/ /\ t.mem.checkpoint_mono = s.mem.checkpoint_mono
                /\ UnsavedAt(t) <= UnsavedAt(s) + Elapsed(s)
             \/ /\ t.mem.checkpoint_mono = mono
                /\ UnsavedAt(t) <= Elapsed(s)
<1> DEFINE new    == c.accounting_day[wall]
           before == SplitBefore(Elapsed(s), s.mem.tick_wall, wall, c.day_start[new])
           rest   == Elapsed(s) - before
           a      == AccountBefore(s, c)
           rolled == roll_day(a, new)
           r      == Reliable(s)
           e      == account_game_elapsed(rolled, rest, r)
           f      == flush_usage_buckets(e)
           t      == AccountElapsed(s, c)
<1>0. /\ s \in State /\ UnsavedAt(s) \in Nat
      /\ s.mem.session_duration \in Nat
      /\ s.db.open # None => s.db.open.duration \in Nat
  BY UnsavedType
<1>1. new \in Days /\ Elapsed(s) \in Nat
  BY <1>0, ElapsedType DEF ConfigType
<1>2. rest \in Nat /\ rest <= Elapsed(s) /\ r \in BOOLEAN
  BY <1>0, <1>1, SplitElapsed DEF Reliable
<1> HIDE DEF rest, r
<1>3. /\ a \in State
      /\ a.db = s.db
      /\ a.mem.game = s.mem.game
      /\ a.mem.checkpoint_mono = s.mem.checkpoint_mono
      /\ a.mem.session_duration <= s.mem.session_duration + Elapsed(s)
      /\ a.mem.session_duration \in Nat
  BY <1>0, AccountBeforeFrame, Fields
<1>4. UnsavedAt(a) <= UnsavedAt(s) + Elapsed(s)
  BY <1>0, <1>1, <1>3 DEF UnsavedAt
<1>5. Good(t)
  BY AccountElapsedGood
<1> HIDE DEF a
<1>6. /\ rolled \in State
      /\ rolled.mem.game = a.mem.game
      /\ a.mem.game # None => /\ rolled.db.open = [day |-> new, duration |-> 0]
                              /\ rolled.mem.session_duration = 0
                              /\ rolled.mem.checkpoint_mono = mono
      /\ a.mem.game = None => rolled.mem.checkpoint_mono = a.mem.checkpoint_mono
  BY <1>1, <1>3, RollType, RollFrame
<1> HIDE DEF rolled
<1>7. /\ e \in State
      /\ e.mem.game = rolled.mem.game
      /\ e.db = rolled.db
      /\ e.mem.checkpoint_mono = rolled.mem.checkpoint_mono
      /\ e.mem.session_duration = rolled.mem.session_duration
                                  + IF rolled.mem.game # None THEN rest ELSE 0
  BY <1>2, <1>6, AccountType, AccountFrame
<1> HIDE DEF e
<1>8. Unmoved(e, f)
  BY <1>7, FlushFrame
<1> HIDE DEF f
<1>9. t = IF new = s.mem.day_key THEN a ELSE IF s.mem.suspended THEN rolled ELSE f
  BY DEF AccountElapsed, t, f, e, rolled, a, rest, before, r, new
<1>10. CASE new = s.mem.day_key
  BY <1>3, <1>4, <1>9, <1>10
<1>11. CASE new # s.mem.day_key /\ s.mem.game = None
  <2>1. t.mem.game = None /\ t.mem.checkpoint_mono = s.mem.checkpoint_mono
    BY <1>3, <1>6, <1>7, <1>8, <1>9, <1>11 DEF Unmoved
  <2>2. UnsavedAt(t) = 0
    BY <1>5, <2>1, UnsavedType
  <2> QED BY <1>0, <1>1, <2>1, <2>2
<1>12. CASE new # s.mem.day_key /\ s.mem.game # None
  <2>1. UnsavedAt(rolled) \in {0, rest}
    <3>1. rolled.db.open # None => UnsavedAt(rolled) = 0
      BY <1>3, <1>6, <1>12 DEF UnsavedAt
    <3> QED BY <3>1 DEF UnsavedAt
  <2>2. UnsavedAt(e) \in {0, rest}
    <3>1. e.db.open # None => UnsavedAt(e) = rest
      BY <1>2, <1>3, <1>6, <1>7, <1>12 DEF UnsavedAt
    <3> QED BY <3>1 DEF UnsavedAt
  <2>3. UnsavedAt(f) = UnsavedAt(e) /\ f.mem.checkpoint_mono = mono
    BY <1>3, <1>6, <1>7, <1>8, <1>12, SameUnsaved DEF Unmoved
  <2> QED BY <1>1, <1>2, <1>3, <1>6, <1>9, <1>12, <2>1, <2>2, <2>3
<1> QED BY <1>10, <1>11, <1>12

\* A checkpoint of the session, when it is due, leaves nothing unsaved.
LEMMA CheckpointUnsaved ==
  ASSUME NEW s, Good(s), NEW c, mono \in Nat
  PROVE  LET r == CheckpointRow(s, c)
             f == CheckpointFlush(r, c)
         IN  \/ /\ ~CheckpointDue(s, c)
                /\ f.mem.checkpoint_mono = s.mem.checkpoint_mono
                /\ UnsavedAt(f) = UnsavedAt(s)
             \/ f.mem.checkpoint_mono = mono /\ UnsavedAt(f) = 0
<1> DEFINE r == CheckpointRow(s, c)
           f == CheckpointFlush(r, c)
<1>0. s \in State /\ s.mem.session_duration \in Nat /\ (s.mem.game # None => s.db.open # None)
  BY UnsavedType DEF Good, Balanced
<1>1. Good(r) /\ r \in State /\ r.mem = s.mem
  BY <1>0, CheckpointRowGood, CheckpointRowFrame DEF Good
<1>2. CheckpointDue(r, c) = CheckpointDue(s, c)
  BY <1>1 DEF CheckpointDue
<1>3. CASE CheckpointDue(s, c)
  <2>1. s.db.open # None /\ r = checkpoint_session(s)
    BY <1>0, <1>3 DEF CheckpointDue, CheckpointRow
  <2>2. r.db.open = [day |-> s.db.open.day, duration |-> s.mem.session_duration]
    BY <1>0, <2>1, CheckpointFrame
  <2>3. UnsavedAt(r) = 0
    BY <1>0, <1>1, <2>2 DEF UnsavedAt
  <2> HIDE DEF r
  <2>4. LedgerView(f) = LedgerView(r) /\ f.mem.checkpoint_mono = mono
    BY <1>1, <1>2, <1>3, CheckpointFlushFrame
  <2> QED BY <2>3, <2>4, SameUnsaved DEF r
<1>4. CASE ~CheckpointDue(s, c)
  <2>1. r = s /\ f = r
    BY <1>2, <1>4 DEF CheckpointRow, CheckpointFlush
  <2> QED BY <1>4, <2>1
<1> QED BY <1>3, <1>4

\* A tick leaves less unsaved than a checkpoint interval and a tick interval.
LEMMA TickUnsaved ==
  ASSUME NEW s, Good(s), NEW c \in ConfigType, wall \in Wall, mono \in Nat, Trailing(s)
  PROVE  LET t == Tick(s, c)
         IN  /\ Trailing(t)
             /\ t.mem.tick_mono = mono
             /\ UnsavedAt(t) < c.checkpoint + MaxTickGap
<1> DEFINE n == NoteClock(s)
           a == AccountElapsed(n, c)
           e == TimerElapse(a, c)
           r == CheckpointRow(e, c)
           f == CheckpointFlush(r, c)
           p == PersistTimer(f, c)
           w == warning_events(p, c, warning_snapshot(s, c))
           x == refresh_restriction(w, c)
           t == SetBaselines(x)
<1>0. /\ MaxTickGap \in Nat /\ c.checkpoint \in Nat \ {0}
      /\ UnsavedAt(s) \in Nat
      /\ s.mem.tick_mono \in Nat /\ s.mem.checkpoint_mono \in Nat
  BY ClockAssumption, UnsavedType DEF ConfigType
<1>1. Good(n) /\ n.mem = s.mem /\ n.db = s.db
  BY NoteClockGood, NoteClockFrame DEF Good
<1>2. /\ UnsavedAt(n) = UnsavedAt(s)
      /\ Elapsed(n) = mono - s.mem.tick_mono
  BY <1>0, <1>1 DEF UnsavedAt, Elapsed, Max0, Trailing
<1> HIDE DEF n
<1>3. /\ Good(a)
      /\ \/ /\ a.mem.checkpoint_mono = n.mem.checkpoint_mono
            /\ UnsavedAt(a) <= UnsavedAt(n) + Elapsed(n)
         \/ /\ a.mem.checkpoint_mono = mono
            /\ UnsavedAt(a) <= Elapsed(n)
  BY <1>1, AccountElapsedGood, AccountElapsedUnsaved
<1> HIDE DEF a
<1>4. /\ a.mem.checkpoint_mono <= mono
      /\ UnsavedAt(a) <= mono - a.mem.checkpoint_mono + MaxTickGap
  <2>1. UnsavedAt(a) \in Nat
    BY <1>3, UnsavedType
  <2>2. CASE /\ a.mem.checkpoint_mono = n.mem.checkpoint_mono
             /\ UnsavedAt(a) <= UnsavedAt(n) + Elapsed(n)
    BY <1>0, <1>1, <1>2, <2>1, <2>2 DEF Trailing
  <2>3. CASE a.mem.checkpoint_mono = mono /\ UnsavedAt(a) <= Elapsed(n)
    BY <1>0, <1>2, <2>1, <2>3 DEF Trailing
  <2> QED BY <1>3, <2>2, <2>3
<1>5. /\ Good(e)
      /\ e.mem.checkpoint_mono = a.mem.checkpoint_mono
      /\ UnsavedAt(e) = UnsavedAt(a)
  BY <1>3, TimerElapseGood, TimerElapseFrame, SameUnsaved DEF Good
<1> HIDE DEF e
<1>6. /\ Good(r) /\ Good(f) /\ f \in State
      /\ \/ /\ ~CheckpointDue(e, c)
            /\ f.mem.checkpoint_mono = e.mem.checkpoint_mono
            /\ UnsavedAt(f) = UnsavedAt(e)
         \/ f.mem.checkpoint_mono = mono /\ UnsavedAt(f) = 0
  BY <1>5, CheckpointRowGood, CheckpointFlushGood, CheckpointUnsaved DEF Good
<1>7. /\ f.mem.checkpoint_mono <= mono
      /\ UnsavedAt(f) <= mono - f.mem.checkpoint_mono + MaxTickGap
      /\ UnsavedAt(f) < c.checkpoint + MaxTickGap
  <2>1. /\ a.mem.checkpoint_mono \in Nat
        /\ UnsavedAt(e) \in Nat
        /\ e.mem.game = None => UnsavedAt(e) = 0
    BY <1>3, <1>5, UnsavedType
  <2>2. CASE f.mem.checkpoint_mono = mono /\ UnsavedAt(f) = 0
    BY <1>0, <2>2
  <2>3. CASE /\ ~CheckpointDue(e, c)
             /\ f.mem.checkpoint_mono = e.mem.checkpoint_mono
             /\ UnsavedAt(f) = UnsavedAt(e)
    <3>1. \/ UnsavedAt(e) = 0
          \/ ~(mono - e.mem.checkpoint_mono >= c.checkpoint)
      BY <2>1, <2>3 DEF CheckpointDue
    <3>2. UnsavedAt(e) < c.checkpoint + MaxTickGap
      BY <1>0, <1>4, <1>5, <2>1, <3>1
    <3> QED BY <1>4, <1>5, <2>3, <3>2
  <2> QED BY <1>6, <2>2, <2>3
<1> HIDE DEF r, f
<1>8. Good(p) /\ LedgerView(p) = LedgerView(f) /\ p.mem.checkpoint_mono = f.mem.checkpoint_mono
  BY <1>6, PersistTimerGood, PersistFrame
<1> HIDE DEF p
<1>9. w \in State /\ Unmoved(p, w)
  BY <1>8, WarningFrame
<1> HIDE DEF w
<1>10. x \in State /\ Unmoved(w, x)
  BY <1>9, RefreshFrame
<1> HIDE DEF x
<1>11. /\ LedgerView(t) = LedgerView(x)
       /\ t.mem.checkpoint_mono = x.mem.checkpoint_mono
       /\ t.mem.tick_mono = mono
  BY <1>10, BaselinesFrame
<1> HIDE DEF t
<1>12. UnsavedAt(t) = UnsavedAt(f) /\ t.mem.checkpoint_mono = f.mem.checkpoint_mono
  BY <1>8, <1>9, <1>10, <1>11, SameUnsaved DEF Unmoved
<1>13. Trailing(t) /\ t.mem.tick_mono = mono /\ UnsavedAt(t) < c.checkpoint + MaxTickGap
  BY <1>0, <1>7, <1>11, <1>12 DEF Trailing
<1>14. Tick(s, c) = t
  BY DEF Tick, TickRecord, t, x, w, p, f, r, e, a, n
<1> QED BY <1>13, <1>14

\* A tick ends at the present.
LEMMA TickTime ==
  ASSUME NEW s, Good(s), NEW c \in ConfigType, wall \in Wall, mono \in Nat
  PROVE  Tick(s, c).mem.tick_mono = mono
<1> DEFINE p == TickRecord(s, c)
           w == warning_events(p, c, warning_snapshot(s, c))
           x == refresh_restriction(w, c)
<1>1. Good(p)
  BY TickRecordGood
<1> HIDE DEF p
<1>2. w \in State
  BY <1>1, WarningFrame
<1> HIDE DEF w
<1>3. x \in State
  BY <1>2, RefreshFrame
<1> HIDE DEF x
<1>4. SetBaselines(x).mem.tick_mono = mono
  BY <1>3, BaselinesFrame
<1> QED BY <1>4 DEF Tick, x, w, p

-----------------------------------------------------------------------------
(* Every step of a running service, as seen by the session's checkpoint. *)

\* A handler on s ends in t: it keeps the session and its checkpoint, or leaves
\* nothing unsaved.
Saves(s, t) ==
    /\ Good(t)
    /\ t.mem.tick_mono = s.mem.tick_mono
    /\ t.mem.checkpoint_mono \in {s.mem.checkpoint_mono, mono}
    /\ UnsavedAt(t) = 0 \/ (/\ LedgerView(t) = LedgerView(s)
                            /\ t.mem.checkpoint_mono = s.mem.checkpoint_mono)

\* What leaves session and clock alone does the first,
LEMMA KeptSaves ==
  ASSUME NEW s, NEW t, Good(t), LedgerView(t) = LedgerView(s),
         t.mem.tick_mono = s.mem.tick_mono,
         t.mem.checkpoint_mono = s.mem.checkpoint_mono
  PROVE  Saves(s, t)
BY DEF Saves

\* so does a roll-over without a game; with one it begins a new session.
LEMMA RollSaves ==
  ASSUME NEW s, Good(s), NEW day \in Days, mono \in Nat
  PROVE  Saves(s, roll_day(s, day))
<1> DEFINE t == roll_day(s, day)
<1>1. s \in State /\ Good(t)
  BY RollGood DEF Good
<1>2. /\ t.mem.tick_mono = s.mem.tick_mono
      /\ t.mem.game = s.mem.game
      /\ t.mem.game # None => /\ t.db.open = [day |-> day, duration |-> 0]
                              /\ t.mem.session_duration = 0
                              /\ t.mem.checkpoint_mono = mono
      /\ t.mem.game = None => t.mem.checkpoint_mono = s.mem.checkpoint_mono
  BY <1>1, RollFrame DEF ClockView
<1> HIDE DEF t
<1>3. UnsavedAt(t) = 0
  <2>1. CASE t.mem.game = None
    BY <1>1, <2>1, UnsavedType
  <2>2. CASE t.mem.game # None
    BY <1>2, <2>2 DEF UnsavedAt
  <2> QED BY <2>1, <2>2
<1>4. Saves(s, t)
  BY <1>1, <1>2, <1>3 DEF Saves
<1> QED BY <1>4 DEF t

\* A game that is closed leaves nothing unsaved,
LEMMA CloseSaves ==
  ASSUME NEW s, Good(s)
  PROVE  LET t == close_current_game(s)
         IN  Saves(s, t) /\ t.mem.game = None
<1> DEFINE t == close_current_game(s)
<1>1. s \in State /\ Good(t)
  BY CloseGameGood DEF Good
<1>2. /\ t.mem.tick_mono = s.mem.tick_mono
      /\ t.mem.checkpoint_mono = s.mem.checkpoint_mono
      /\ t.mem.game = None
  BY <1>1, CloseGameFrame DEF ClockView
<1> HIDE DEF t
<1>3. UnsavedAt(t) = 0
  BY <1>1, <1>2, UnsavedType
<1>4. Saves(s, t) /\ t.mem.game = None
  BY <1>1, <1>2, <1>3 DEF Saves
<1> QED BY <1>4 DEF t

\* and a game that is opened begins with nothing.
LEMMA SetGameSaves ==
  ASSUME NEW s, Good(s), NEW g \in Games, mono \in Nat
  PROVE  Saves(s, set_game(s, g))
<1> DEFINE k == close_current_game(s)
           n == Note(s, "game.metadata_updated")
           o == OpenGame(k, g)
           t == set_game(s, g)
<1>1. s \in State /\ Good(t)
  BY SetGameGood DEF Good
<1>2. Saves(s, k) /\ k \in State
  BY CloseSaves DEF Saves, Good
<1>3. n.mem = s.mem /\ n.db = s.db
  BY <1>1, NoteFrame
<1> HIDE DEF k, n
<1>4. /\ o.mem.tick_mono = k.mem.tick_mono
      /\ o.mem.checkpoint_mono = mono
      /\ o.mem.session_duration = 0
      /\ o.db.open = [day |-> k.mem.day_key, duration |-> 0]
  BY <1>2, OpenGameFrame DEF ClockView
<1> HIDE DEF o
<1>5. UnsavedAt(o) = 0
  BY <1>4 DEF UnsavedAt
<1>6. t \in {n, k, o}
  BY DEF set_game, t, n, k, o
<1> HIDE DEF t
<1>7. Saves(s, t)
  <2>1. CASE t = n
    BY <1>1, <1>3, <2>1, KeptSaves DEF LedgerView
  <2>2. CASE t = k
    BY <1>2, <2>2
  <2>3. CASE t = o
    BY <1>1, <1>2, <1>4, <1>5, <2>3 DEF Saves
  <2> QED BY <1>6, <2>1, <2>2, <2>3
<1> QED BY <1>7 DEF t

\* The end of a game also refreshes the restriction;
LEMMA StopGameSaves ==
  ASSUME NEW s, Good(s), NEW c \in ConfigType
  PROVE  Saves(s, stop_game(s, c))
<1> DEFINE k == close_current_game(s)
           t == stop_game(s, c)
<1>1. Good(t) /\ Saves(s, k) /\ k \in State
  BY StopGameGood, CloseSaves DEF Saves, Good
<1> HIDE DEF k
<1>2. Unmoved(k, t)
  BY <1>1, RefreshFrame DEF stop_game, k
<1> HIDE DEF t
<1>3. UnsavedAt(t) = UnsavedAt(k)
  BY <1>2, SameUnsaved DEF Unmoved
<1>4. Saves(s, t)
  BY <1>1, <1>2, <1>3 DEF Saves, Unmoved, ClockView
<1> QED BY <1>4 DEF t

\* a resume after the tick may roll over.
LEMMA ResumeSaves ==
  ASSUME NEW s, Good(s), NEW c \in ConfigType, wall \in Wall, mono \in Nat,
         s.mem.tick_mono = mono
  PROVE  Saves(s, resume(s, c))
<1> DEFINE t      == resume(s, c)
           new    == c.accounting_day[wall]
           based  == SetBaselines(s)
           rolled == IF new = s.mem.day_key THEN based ELSE roll_day(based, new)
<1>1. s \in State /\ Good(t) /\ Good(based) /\ new \in Days
  BY ResumeGood, BaselinesGood DEF Good, ConfigType
<1>2. /\ LedgerView(based) = LedgerView(s)
      /\ based.mem.tick_mono = mono
      /\ based.mem.checkpoint_mono = s.mem.checkpoint_mono
  BY <1>1, BaselinesFrame
<1>3. /\ LedgerView(t) = LedgerView(rolled)
      /\ t.mem.checkpoint_mono = rolled.mem.checkpoint_mono
      /\ t.mem.tick_mono = mono
  BY ResumeFrame
<1> HIDE DEF based, new
<1>4. Saves(based, rolled)
  BY <1>1, RollSaves, KeptSaves
<1> HIDE DEF rolled, t
<1>5. UnsavedAt(t) = UnsavedAt(rolled)
  BY <1>3, SameUnsaved
<1>6. Saves(s, t)
  BY <1>1, <1>2, <1>3, <1>4, <1>5 DEF Saves
<1> QED BY <1>6 DEF t

\* The same of config.update.
LEMMA UpdateSaves ==
  ASSUME NEW s, Good(s), NEW old \in ConfigType, NEW new \in ConfigType,
         wall \in Wall, mono \in Nat
  PROVE  Saves(s, update_config(s, old, new))
<1> DEFINE t      == update_config(s, old, new)
           day    == new.accounting_day[wall]
           rolled == IF day = s.mem.day_key THEN s ELSE roll_day(s, day)
<1>1. s \in State /\ Good(t) /\ day \in Days
  BY UpdateConfigGood DEF Good, ConfigType
<1>2. /\ LedgerView(t) = LedgerView(rolled)
      /\ t.mem.checkpoint_mono = rolled.mem.checkpoint_mono
      /\ t.mem.tick_mono = s.mem.tick_mono
  BY UpdateFrame DEF ClockView
<1> HIDE DEF day
<1>3. Saves(s, rolled)
  BY <1>1, RollSaves, KeptSaves
<1> HIDE DEF rolled, t
<1>4. UnsavedAt(t) = UnsavedAt(rolled)
  BY <1>2, SameUnsaved
<1>5. Saves(s, t)
  BY <1>1, <1>2, <1>3, <1>4 DEF Saves
<1> QED BY <1>5 DEF t

\* history.clear does nothing while a session is open,
LEMMA ClearSaves ==
  ASSUME NEW s, Good(s)
  PROVE  Saves(s, clear_history(s))
<1> DEFINE t == clear_history(s)
<1>1. s \in State /\ Good(t)
  BY ClearHistoryGood DEF Good
<1>2. CASE s.db.open = None
  <2> DEFINE m == [s.mem EXCEPT !.played_today = 0]
             e == [s.db EXCEPT !.closed = NoSeconds,
                               !.adjustment = NoSeconds,
                               !.daily_marks = [d \in Days |-> {}],
                               !.timer_marks = {},
                               !.buckets = NoSeconds]
  <2>1. t.mem = m /\ t.db = e
    BY <1>1, <1>2 DEF clear_history, State
  <2>2. /\ m.tick_mono = s.mem.tick_mono
        /\ m.checkpoint_mono = s.mem.checkpoint_mono
        /\ e.open = s.db.open
    BY <1>1, Parts DEF Mem, Db
  <2> HIDE DEF m, e
  <2>3. UnsavedAt(t) = 0
    BY <1>2, <2>1, <2>2 DEF UnsavedAt
  <2> QED BY <1>1, <2>1, <2>2, <2>3 DEF Saves
<1>3. CASE s.db.open # None
  BY <1>1, <1>3, KeptSaves DEF clear_history
<1> QED BY <1>2, <1>3

\* and the checkpoint before a restart leaves nothing unsaved.
LEMMA RowSaves ==
  ASSUME NEW s, Good(s)
  PROVE  Saves(s, IF s.mem.game = None THEN s ELSE checkpoint_session(s))
<1> DEFINE k == checkpoint_session(s)
<1>1. CASE s.mem.game = None
  BY <1>1, KeptSaves
<1>2. CASE s.mem.game # None
  <2>1. s \in State /\ s.db.open # None /\ Good(k) /\ s.mem.session_duration \in Nat
    BY <1>2, CheckpointGood, UnsavedType DEF Good, Balanced
  <2>2. /\ k.mem = s.mem
        /\ k.db.open = [day |-> s.db.open.day, duration |-> s.mem.session_duration]
    BY <2>1, CheckpointFrame
  <2> HIDE DEF k
  <2>3. UnsavedAt(k) = 0
    BY <2>1, <2>2 DEF UnsavedAt
  <2>4. Saves(s, k)
    BY <2>1, <2>2, <2>3 DEF Saves
  <2> QED BY <1>2, <2>4 DEF k
<1> QED BY <1>1, <1>2

\* A handler that saves, on a state that trails, ends in one, with no more unsaved.
LEMMA SavesTrailing ==
  ASSUME NEW s, Good(s), NEW t, Saves(s, t), Trailing(s), mono \in Nat,
         t.mem.checkpoint_mono = s.mem.checkpoint_mono \/ s.mem.tick_mono = mono
  PROVE  Trailing(t) /\ UnsavedAt(t) <= UnsavedAt(s)
<1>1. /\ UnsavedAt(s) \in Nat
      /\ s.mem.tick_mono \in Nat /\ s.mem.checkpoint_mono \in Nat
      /\ MaxTickGap \in Nat
  BY UnsavedType, ClockAssumption
<1>2. CASE UnsavedAt(t) = 0
  BY <1>1, <1>2 DEF Saves, Trailing
<1>3. CASE LedgerView(t) = LedgerView(s) /\ t.mem.checkpoint_mono = s.mem.checkpoint_mono
  <2>1. UnsavedAt(t) = UnsavedAt(s)
    BY <1>3, SameUnsaved
  <2> QED BY <1>1, <1>3, <2>1 DEF Saves, Trailing
<1> QED BY <1>2, <1>3 DEF Saves

\* Every step that leaves the service running is such a handler, on the present
\* state or on the one after its tick.
LEMMA StepSaves ==
  ASSUME IInv, Running, [Next]_vars, Running'
  PROVE  \E s, t : /\ Saves(s, t)
                   /\ mem' = t.mem /\ db' = t.db
                   /\ \/ s = S /\ t.mem.checkpoint_mono = mem.checkpoint_mono
                      \/ s = Ticked /\ mono' = mono
<1> DEFINE Goal == \E s, t : /\ Saves(s, t)
                             /\ mem' = t.mem /\ db' = t.db
                             /\ \/ s = S /\ t.mem.checkpoint_mono = mem.checkpoint_mono
                                \/ s = Ticked /\ mono' = mono
<1> USE DEF Commit, Step
<1>0. C \in ConfigType /\ wall \in Wall /\ mono \in Nat /\ cfg \in Profiles
  BY ConfigAssumption DEF IInv, TypeOK, C
<1>s. Good(S) /\ S.mem = mem /\ S.db = db /\ Saves(S, S)
  BY RunningGood, KeptSaves
<1>t. Good(Ticked) /\ Ticked \in State /\ Ticked.mem.tick_mono = mono /\ Saves(Ticked, Ticked)
  <2>1. Good(Ticked) /\ Ticked \in State
    BY <1>0, <1>s, TickedGood DEF Ticked, Good
  <2>2. Ticked.mem.tick_mono = mono
    BY <1>0, <1>s, TickTime DEF Ticked
  <2> QED BY <2>1, <2>2, KeptSaves
<1>h. ASSUME NEW t, Saves(Ticked, t), Step(t)
      PROVE  Goal
  BY <1>h
<1>k. ASSUME NEW t, Saves(S, t), t.mem.checkpoint_mono = mem.checkpoint_mono, Step(t)
      PROVE  Goal
  BY <1>k
<1>1. CASE Advance \/ SetWall \/ UNCHANGED vars
  BY <1>1, <1>s DEF Advance, SetWall, vars
<1> HIDE DEF Goal
<1>3. CASE TickLoop
  BY <1>3, <1>t, <1>h DEF TickLoop
<1>4. CASE GameReported
  <2>1. PICK g \in Games : Step(set_game(Ticked, g))
    BY <1>4 DEF GameReported
  <2> QED BY <1>0, <1>t, <1>h, <2>1, SetGameSaves
<1>5. CASE GameCleared
  BY <1>0, <1>5, <1>t, <1>h, StopGameSaves DEF GameCleared
<1>6. CASE Suspend
  <2>1. Saves(Ticked, suspend(Ticked))
    BY <1>t, SuspendGood, SuspendFrame, KeptSaves
  <2> QED BY <1>6, <1>h, <2>1 DEF Suspend
<1>7. CASE Resume
  BY <1>0, <1>7, <1>t, <1>h, ResumeSaves DEF Resume
<1>8. CASE StartTimer
  <2>1. PICK n \in TimerDurations, a \in TimerActions : Step(start_timer(Ticked, n, a))
    BY <1>8 DEF StartTimer
  <2>2. Saves(Ticked, start_timer(Ticked, n, a))
    BY <1>t, StartTimerGood, StartTimerFrame, KeptSaves DEF TimerOnly
  <2> QED BY <1>h, <2>1, <2>2
<1>9. CASE PauseTimer
  <2>1. Saves(Ticked, pause_timer(Ticked))
    BY <1>t, PauseTimerGood, PauseTimerFrame, KeptSaves DEF TimerOnly
  <2> QED BY <1>9, <1>h, <2>1 DEF PauseTimer
<1>10. CASE ResumeTimer
  <2>1. Saves(Ticked, resume_timer(Ticked))
    BY <1>t, ResumeTimerGood, ResumeTimerFrame, KeptSaves DEF TimerOnly
  <2> QED BY <1>10, <1>h, <2>1 DEF ResumeTimer
<1>11. CASE CancelTimer
  <2>1. Saves(Ticked, cancel_timer(Ticked, C))
    BY <1>0, <1>t, CancelTimerGood, CancelTimerFrame, KeptSaves DEF TimerOnly
  <2> QED BY <1>11, <1>h, <2>1 DEF CancelTimer
<1>12. CASE AdjustTimer
  <2>1. PICK n \in Adjustments : Step(adjust_timer(Ticked, C, n))
    BY <1>12 DEF AdjustTimer
  <2>2. Saves(Ticked, adjust_timer(Ticked, C, n))
    BY <1>0, <1>t, AdjustTimerGood, AdjustTimerFrame, KeptSaves DEF TimerOnly
  <2> QED BY <1>h, <2>1, <2>2
<1>13. CASE GrantDailyTime
  <2>1. PICK n \in Grants : Step(grant_daily_time(Ticked, C, n))
    BY <1>13 DEF GrantDailyTime
  <2>2. Saves(Ticked, grant_daily_time(Ticked, C, n))
    BY <1>0, <1>t, GrantGood, GrantFrame, KeptSaves DEF ClockView
  <2> QED BY <1>h, <2>1, <2>2
<1>14. CASE UpdateConfig
  <2>1. PICK p \in Profiles : Step(update_config(Ticked, C, Config[p]))
    BY <1>14 DEF UpdateConfig
  <2>2. Config[p] \in ConfigType
    BY ConfigAssumption
  <2> QED BY <1>0, <1>t, <1>h, <2>1, <2>2, UpdateSaves
<1>15. CASE ClearHistory
  <2>1. Saves(S, clear_history(S))
    BY <1>s, ClearSaves
  <2>2. clear_history(S).mem.checkpoint_mono = mem.checkpoint_mono
    BY <1>s, UnsavedType DEF clear_history, State, Mem
  <2> QED BY <1>15, <1>k, <2>1, <2>2 DEF ClearHistory
<1>16. CASE RestartCheckpoint
  <2> DEFINE t == IF mem.game = None THEN S ELSE checkpoint_session(S)
  <2>1. Saves(S, t)
    BY <1>s, RowSaves
  <2>2. t.mem.checkpoint_mono = mem.checkpoint_mono
    <3>1. S \in State /\ (mem.game # None => S.db.open # None)
      BY <1>s DEF Good, Balanced
    <3> QED BY <1>s, <3>1, CheckpointFrame
  <2>3. Step(t)
    BY <1>16 DEF RestartCheckpoint
  <2> HIDE DEF t
  <2> QED BY <1>k, <2>1, <2>2, <2>3
<1>17. CASE Shutdown \/ Crash \/ UpdateDies \/ AdjustDies \/ Boot \/ BootDies
  BY <1>17 DEF Shutdown, Crash, UpdateDies, AdjustDies, Boot, BootDies, Running
<1> QED
  BY <1>1, <1>3, <1>4, <1>5, <1>6, <1>7, <1>8, <1>9, <1>10, <1>11, <1>12, <1>13, <1>14,
     <1>15, <1>16, <1>17 DEF Next, Goal

\* A service that starts times no game, and its baselines are the present.
LEMMA BootTrailing ==
  ASSUME NEW d \in Db, TimerConsistent(d.timer), NEW c \in ConfigType,
         wall \in Wall, mono \in Nat
  PROVE  LET t == boot(d, c) IN Trailing(t) /\ UnsavedAt(t) = 0
<1> DEFINE l == Loaded(d, c)
           r == RecoverSession(l)
           v == save_timer([r EXCEPT !.mem.timer.state = "paused"])
           n == Note(v, "timer.paused_after_restart")
           x == RecoverTimer(r)
           t == SetRestriction(x, c)
<1>1. r \in State /\ Good(t)
  BY RecoverSessionGood, BootGood DEF Good, boot
<1>2. r.mem = LoadedEngine(d, c)
  <2>1. l.mem = LoadedEngine(d, c)
    BY DEF Loaded
  <2>2. Note([l EXCEPT !.db = close_session(@, @.open.duration)], "session.recovered").mem = l.mem
    BY DEF Note, Emit, Loaded
  <2> QED BY <2>1, <2>2 DEF RecoverSession
<1>3. r.mem.game = None /\ r.mem.tick_mono = mono /\ r.mem.checkpoint_mono = mono
  BY <1>2 DEF LoadedEngine
<1> HIDE DEF r
<1>4. /\ v.mem.game = r.mem.game
      /\ v.mem.tick_mono = r.mem.tick_mono
      /\ v.mem.checkpoint_mono = r.mem.checkpoint_mono
  BY <1>1 DEF save_timer, State, Mem
<1>5. v \in State
  BY <1>1 DEF save_timer, State, Mem, Db, Timer, TimerStates
<1> HIDE DEF v
<1>6. n \in State /\ n.mem = v.mem
  BY <1>5, NoteType, NoteFrame DEF Kinds
<1>7. x \in {r, n}
  BY DEF RecoverTimer, n, v
<1> HIDE DEF n, x
<1>8. /\ t.mem.game = x.mem.game
      /\ t.mem.tick_mono = x.mem.tick_mono
      /\ t.mem.checkpoint_mono = x.mem.checkpoint_mono
  BY <1>1, <1>6, <1>7 DEF SetRestriction, State, Mem
<1> HIDE DEF t
<1>9. t.mem.game = None /\ t.mem.tick_mono = mono /\ t.mem.checkpoint_mono = mono
  BY <1>3, <1>4, <1>6, <1>7, <1>8
<1>10. UnsavedAt(t) = 0
  BY <1>1, <1>9, UnsavedType
<1>11. Trailing(t)
  BY <1>9, <1>10, ClockAssumption DEF Trailing
<1>12. boot(d, c) = t
  BY DEF boot, t, x, r, l
<1> QED BY <1>10, <1>11, <1>12

\* Every step keeps the bound on what is unsaved.
LEMMA NextLossInv == LossInv /\ [Next]_vars => LossInv'
<1> SUFFICES ASSUME LossInv, [Next]_vars PROVE LossInv'
  OBVIOUS
<1>0. /\ IInv /\ IInv'
      /\ C \in ConfigType /\ cfg \in Profiles
      /\ wall \in Wall /\ mono \in Nat
      /\ MaxTickGap \in Nat \ {0}
  BY NextIInv, ConfigAssumption, ClockAssumption DEF LossInv, IInv, TypeOK, C
<1>c. \A p \in Profiles : Config[p].checkpoint \in Nat \ {0}
  BY ConfigAssumption DEF ConfigType
<1>1. CASE Running /\ Running'
  <2>1. PICK s, t : /\ Saves(s, t)
                    /\ mem' = t.mem /\ db' = t.db
                    /\ \/ s = S /\ t.mem.checkpoint_mono = mem.checkpoint_mono
                       \/ s = Ticked /\ mono' = mono
    BY <1>0, <1>1, StepSaves
  <2>2. Good(S) /\ Trailing(S) /\ S.mem = mem /\ S.db = db
    BY <1>0, <1>1, RunningGood DEF LossInv
  <2>3. \E p \in Profiles : UnsavedAt(S) < Config[p].checkpoint + MaxTickGap
    BY <1>1, <2>2 DEF LossInv, UnsavedBounded, Unsaved, UnsavedAt
  <2>4. /\ Good(Ticked) /\ Trailing(Ticked)
        /\ Ticked.mem.tick_mono = mono
        /\ UnsavedAt(Ticked) < C.checkpoint + MaxTickGap
    BY <1>0, <1>1, <2>2, TickedGood, TickUnsaved DEF Ticked
  <2>5. /\ Good(s) /\ Trailing(s)
        /\ t.mem.checkpoint_mono = s.mem.checkpoint_mono \/ s.mem.tick_mono = mono
        /\ \E p \in Profiles : UnsavedAt(s) < Config[p].checkpoint + MaxTickGap
    BY <1>0, <2>1, <2>2, <2>3, <2>4 DEF C
  <2>6. Trailing(t) /\ UnsavedAt(t) <= UnsavedAt(s)
    BY <1>0, <2>1, <2>5, SavesTrailing
  <2>7. /\ UnsavedAt(t) \in Nat /\ UnsavedAt(s) \in Nat
        /\ t.mem.tick_mono \in Nat
    BY <2>1, <2>5, UnsavedType DEF Saves
  <2>8. \E p \in Profiles : UnsavedAt(t) < Config[p].checkpoint + MaxTickGap
    BY <1>0, <1>c, <2>5, <2>6, <2>7
  <2>9. UnsavedBounded'
    <3>1. Unsaved' = UnsavedAt(t)
      BY <1>1, <2>1 DEF Unsaved, UnsavedAt
    <3> QED BY <2>8, <3>1 DEF UnsavedBounded
  <2>10. t.mem.tick_mono <= mono' /\ mono' - t.mem.tick_mono <= MaxTickGap
    <3>1. CASE mono' = mono
      BY <2>6, <3>1 DEF Trailing
    <3>2. CASE /\ mono' = mono + 1 /\ UNCHANGED <<mem, db>>
               /\ Running => mono' - mem.tick_mono <= MaxTickGap
      BY <1>0, <1>1, <2>1, <2>6, <2>7, <3>2 DEF Trailing
    <3> QED BY <1>0, <3>1, <3>2, ClockStep
  <2>11. Trailing(S)'
    BY <2>1, <2>6, <2>10 DEF Trailing, UnsavedAt, S
  <2> QED BY <1>0, <2>9, <2>11 DEF LossInv
<1>2. CASE ~Running'
  <2>1. Unsaved' = 0
    BY <1>2 DEF Unsaved
  <2> QED BY <1>0, <1>2, <1>c, <2>1 DEF LossInv, UnsavedBounded
<1>3. CASE ~Running /\ Running'
  <2>1. Boot
    BY <1>3 DEF Next, vars, Running, Advance, SetWall, TickLoop, GameReported, GameCleared,
          Suspend, Resume, StartTimer, PauseTimer, ResumeTimer, CancelTimer, AdjustTimer,
          GrantDailyTime, UpdateConfig, ClearHistory, RestartCheckpoint, Shutdown,
          Crash, UpdateDies, AdjustDies, BootDies
  <2> DEFINE t == boot(db, C)
  <2>2. Trailing(t) /\ UnsavedAt(t) = 0
    BY <1>0, BootTrailing DEF IInv, TypeOK, TimerRowAgrees
  <2>3. mem' = t.mem /\ db' = t.db /\ mono' = mono
    BY <2>1 DEF Boot, Commit, Step
  <2> HIDE DEF t
  <2>4. Unsaved' = 0
    BY <1>3, <2>2, <2>3 DEF Unsaved, UnsavedAt
  <2>5. UnsavedBounded'
    BY <1>0, <1>c, <2>4 DEF UnsavedBounded
  <2>6. Trailing(S)'
    BY <2>2, <2>3 DEF Trailing, UnsavedAt, S
  <2> QED BY <1>0, <2>5, <2>6 DEF LossInv
<1> QED BY <1>1, <1>2, <1>3

\* The first state has no service and nothing to lose.
LEMMA InitLossInv == AuditInit => LossInv
<1> SUFFICES ASSUME Init PROVE LossInv
  BY DEF AuditInit
<1>1. IInv /\ ~Running /\ cfg \in Profiles
  BY InitIInv DEF Init, Running
<1>2. C.checkpoint \in Nat \ {0} /\ MaxTickGap \in Nat
  BY <1>1, ConfigAssumption, ClockAssumption DEF C, ConfigType
<1>3. Unsaved = 0
  BY <1>1 DEF Unsaved
<1> QED BY <1>1, <1>2, <1>3 DEF LossInv, UnsavedBounded, C

-----------------------------------------------------------------------------
\* Of the time no tick has counted there is no more than a tick interval.
LEMMA LossInvBounds == LossInv => LossBounded
<1> SUFFICES ASSUME LossInv PROVE LossBounded
  OBVIOUS
<1>1. MaxTickGap \in Nat /\ \A p \in Profiles : Config[p].checkpoint \in Nat
  BY ClockAssumption, ConfigAssumption DEF ConfigType
<1>2. InFlight \in Nat /\ InFlight <= MaxTickGap
  <2>1. CASE Timing
    <3>1. Good(S) /\ S.mem = mem /\ Trailing(S) /\ mono \in Nat
      BY <2>1, RunningGood DEF LossInv, Timing, IInv, TypeOK
    <3>2. mem.tick_mono \in Nat
      BY <3>1, UnsavedType
    <3> QED BY <1>1, <2>1, <3>1, <3>2 DEF InFlight, Trailing
  <2>2. CASE ~Timing
    BY <1>1, <2>2 DEF InFlight
  <2> QED BY <2>1, <2>2
<1>3. Unsaved \in Nat
  <2>1. CASE Running
    <3>1. Good(S) /\ S.mem = mem /\ S.db = db
      BY <2>1, RunningGood DEF LossInv
    <3> QED BY <2>1, <3>1, UnsavedType DEF Unsaved, UnsavedAt
  <2>2. CASE ~Running
    BY <2>2 DEF Unsaved
  <2> QED BY <2>1, <2>2
<1>4. PICK p \in Profiles : Unsaved < Config[p].checkpoint + MaxTickGap
  BY DEF LossInv, UnsavedBounded
<1>5. Unsaved + InFlight < Config[p].checkpoint + 2 * MaxTickGap
  BY <1>1, <1>2, <1>3, <1>4
<1> QED BY <1>5 DEF LossBounded

\* What a crash can lose (engine.py:187, 203, 620), counted or not, is less than a
\* checkpoint interval and two tick intervals, whatever the sequence of
\* roll-overs, games, clock changes, configurations and restarts before it.
THEOREM LossIsBounded == AuditSpec => []LossBounded
<1>1. [AuditNext]_auditVars => [Next]_vars
  BY DEF AuditNext, Next, auditVars, vars
<1> QED BY <1>1, LossInvBounds, InitLossInv, NextLossInv, PTL DEF AuditSpec

-----------------------------------------------------------------------------
(* Conservation.  The sum over the days, by minimal counterexample. *)

\* The element the sum takes first.
First(s) == CHOOSE x \in s : TRUE

\* The equation that the sum over a set of days is defined by.
SumStep(f, sum, s) == IF s = {} THEN 0 ELSE f[First(s)] + sum[s \ {First(s)}]

\* The functions that satisfy it for every set of days.
Sums(f, sum) == sum = [s \in SUBSET Days |-> SumStep(f, sum, s)]

\* What it gives for all days.
SumOf(f) == (CHOOSE sum : Sums(f, sum))[Days]

\* Among sets of days there is one from which no day can be taken: what holds of
\* no smallest set of days holds of none.
LEMMA SmallestSet ==
  ASSUME NEW T, T \subseteq SUBSET Days, T # {}
  PROVE  \E s \in T : \A x \in s : s \ {x} \notin T
<1>1. IsWellFoundedOn(StrictSubsetOrdering(Days), SUBSET Days)
  BY DaysAssumption, FS_StrictSubsetOrderingWellFounded, FS_FiniteSubsetsOfFinite
<1>2. PICK s \in T : \A y \in T : ~(<<y, s>> \in StrictSubsetOrdering(Days))
  BY <1>1, WFMin
<1>3. ASSUME NEW x \in s, s \ {x} \in T PROVE FALSE
  <2>1. s \ {x} \in SUBSET Days /\ s \in SUBSET Days /\ s \ {x} # s /\ s \ {x} \subseteq s
    BY <1>3
  <2>2. <<s \ {x}, s>> \in StrictSubsetOrdering(Days)
    BY <2>1 DEF StrictSubsetOrdering
  <2> QED BY <1>2, <1>3, <2>2
<1> QED BY <1>2, <1>3

\* It is an element.
LEMMA FirstIn == ASSUME NEW s, s # {} PROVE First(s) \in s
BY DEF First

\* Some function satisfies that equation: the sum is defined.
LEMMA SumDefined ==
  ASSUME NEW f \in [Days -> Int]
  PROVE  Sums(f, CHOOSE sum : Sums(f, sum))
<1> DEFINE Upto(n, sum) == \A s \in SUBSET Days : Cardinality(s) <= n => sum[s] = SumStep(f, sum, s)
           Missing(n) == \A sum \in [SUBSET Days -> Int] : ~Upto(n, sum)
           B == {n \in Nat : Missing(n)}
<1>c. \A s \in SUBSET Days : IsFiniteSet(s) /\ Cardinality(s) \in Nat
  BY DaysAssumption, FS_Subset, FS_CardinalityType
<1>1. B = {}
  <2> SUFFICES ASSUME B # {} PROVE FALSE
    OBVIOUS
  <2>1. IsWellFoundedOn(OpToRel(<, Nat), Nat)
    BY NatLessThanWellFounded
  <2> DEFINE R == OpToRel(<, Nat)
  <2>2. \A x, y \in Nat : <<x, y>> \in R <=> x < y
    BY DEF OpToRel
  <2> HIDE DEF R
  <2>3. PICK n \in B : \A k \in B : ~(<<k, n>> \in R)
    BY <2>1, WFMin DEF R
  <2>4. n \in Nat /\ \A k \in Nat : k < n => ~Missing(k)
    BY <2>2, <2>3
  <2>5. CASE n = 0
    <3> DEFINE z == [s \in SUBSET Days |-> 0]
    <3>1. z \in [SUBSET Days -> Int]
      OBVIOUS
    <3>2. ASSUME NEW s \in SUBSET Days, Cardinality(s) <= 0 PROVE z[s] = SumStep(f, z, s)
      <4>1. s = {}
        BY <1>c, <3>2, FS_EmptySet
      <4> QED BY <4>1 DEF SumStep
    <3>3. Upto(n, z)
      BY <2>5, <3>2
    <3> QED BY <2>3, <3>1, <3>3
  <2>6. CASE n > 0
    <3>0. n - 1 \in Nat /\ n - 1 < n
      BY <2>4, <2>6
    <3>1. PICK u \in [SUBSET Days -> Int] : Upto(n - 1, u)
      <4>1. ~Missing(n - 1)
        BY <2>4, <3>0
      <4> QED BY <4>1
    <3> DEFINE v == [s \in SUBSET Days |-> IF Cardinality(s) = n THEN SumStep(f, u, s) ELSE u[s]]
    <3>2. \A s \in SUBSET Days : SumStep(f, u, s) \in Int
      BY FirstIn DEF SumStep
    <3>3. v \in [SUBSET Days -> Int]
      BY <3>2
    <3>4. ASSUME NEW s \in SUBSET Days, Cardinality(s) <= n PROVE v[s] = SumStep(f, v, s)
      <4>1. SumStep(f, v, s) = SumStep(f, u, s)
        <5>1. CASE s = {}
          BY <5>1 DEF SumStep
        <5>2. CASE s # {}
          <6> DEFINE r == s \ {First(s)}
          <6>1. r \in SUBSET Days /\ Cardinality(r) = Cardinality(s) - 1
            BY <1>c, <5>2, FirstIn, FS_RemoveElement
          <6>2. v[r] = u[r]
            BY <1>c, <2>4, <3>4, <6>1
          <6> QED BY <5>2, <6>2 DEF SumStep
        <5> QED BY <5>1, <5>2
      <4>2. CASE Cardinality(s) = n
        BY <4>1, <4>2
      <4>3. CASE Cardinality(s) # n
        <5>1. Cardinality(s) <= n - 1
          BY <1>c, <2>4, <3>4, <4>3
        <5>2. u[s] = SumStep(f, u, s)
          BY <3>1, <5>1
        <5> QED BY <4>1, <4>3, <5>2
      <4> QED BY <4>2, <4>3
    <3> HIDE DEF v
    <3>5. Upto(n, v)
      BY <3>4
    <3> QED BY <2>3, <3>3, <3>5
  <2> QED BY <2>4, <2>5, <2>6
<1>2. Cardinality(Days) \in Nat /\ \A s \in SUBSET Days : Cardinality(s) <= Cardinality(Days)
  BY DaysAssumption, FS_Subset, FS_CardinalityType
<1>3. PICK sum \in [SUBSET Days -> Int] : Upto(Cardinality(Days), sum)
  BY <1>1, <1>2
<1>4. \A s \in SUBSET Days : sum[s] = SumStep(f, sum, s)
  BY <1>2, <1>3
<1>5. Sums(f, sum)
  BY <1>4 DEF Sums
<1> QED BY <1>5

\* The sums of functions that differ on one day differ by that difference.
LEMMA SumAtOne ==
  ASSUME NEW f \in [Days -> Int], NEW g \in [Days -> Int], NEW day \in Days,
         \A d \in Days : d # day => g[d] = f[d]
  PROVE  SumOf(f) \in Int /\ SumOf(g) = SumOf(f) + g[day] - f[day]
<1> DEFINE u == CHOOSE sum : Sums(f, sum)
           v == CHOOSE sum : Sums(g, sum)
           Off(s) == IF day \in s THEN g[day] - f[day] ELSE 0
           B == {s \in SUBSET Days : ~(u[s] \in Int /\ v[s] = u[s] + Off(s))}
<1>1. Sums(f, u) /\ Sums(g, v)
  BY SumDefined
<1> HIDE DEF u, v
<1>2. B = {}
  <2> SUFFICES ASSUME B # {} PROVE FALSE
    OBVIOUS
  <2>1. PICK s \in B : \A x \in s : s \ {x} \notin B
    BY SmallestSet
  <2>2. u[s] = SumStep(f, u, s) /\ v[s] = SumStep(g, v, s)
    BY <1>1 DEF Sums
  <2>3. CASE s = {}
    BY <2>1, <2>2, <2>3 DEF SumStep
  <2>4. CASE s # {}
    <3> DEFINE x == First(s)
               r == s \ {x}
    <3>1. x \in s /\ x \in Days
      BY <2>4, FirstIn
    <3>2. u[r] \in Int /\ v[r] = u[r] + Off(r)
      BY <2>1, <3>1
    <3>3. u[s] = f[x] + u[r] /\ v[s] = g[x] + v[r]
      BY <2>2, <2>4 DEF SumStep
    <3>4. f[x] \in Int /\ g[x] \in Int /\ f[day] \in Int /\ g[day] \in Int
      BY <3>1
    <3>5. CASE x = day
      BY <2>1, <3>1, <3>2, <3>3, <3>4, <3>5
    <3>6. CASE x # day
      <4>1. g[x] = f[x] /\ Off(r) = Off(s)
        BY <3>1, <3>6
      <4> QED BY <2>1, <3>2, <3>3, <3>4, <4>1
    <3> QED BY <3>5, <3>6
  <2> QED BY <2>3, <2>4
<1>3. u[Days] \in Int /\ v[Days] = u[Days] + Off(Days)
  BY <1>2
<1>4. f[day] \in Int /\ g[day] \in Int
  OBVIOUS
<1> QED BY <1>3, <1>4 DEF SumOf, u, v
\* Recorded is such a sum.
LEMMA RecordedSum ==
  ASSUME NEW d
  PROVE  Recorded(d) = SumOf([day \in Days |-> usage_for_day(d, day)])
<1> DEFINE f == [day \in Days |-> usage_for_day(d, day)]
           Iter(sum) == sum = [s \in SUBSET Days |->
                          IF s = {} THEN 0
                          ELSE usage_for_day(d, CHOOSE x \in s : TRUE)
                               + sum[s \ {CHOOSE x \in s : TRUE}]]
<1>1. Recorded(d) = (CHOOSE sum : Iter(sum))[Days]
  BY DEF Recorded, MapThenSumSet, MapThenFoldSet
<1>2. ASSUME NEW sum PROVE Iter(sum) <=> Sums(f, sum)
  <2>1. ASSUME NEW s \in SUBSET Days
        PROVE  SumStep(f, sum, s) = IF s = {} THEN 0
                                    ELSE usage_for_day(d, CHOOSE x \in s : TRUE)
                                         + sum[s \ {CHOOSE x \in s : TRUE}]
    <3>1. s # {} => f[First(s)] = usage_for_day(d, First(s))
      BY FirstIn
    <3> QED BY <3>1 DEF SumStep, First
  <2> QED BY <2>1 DEF Sums
<1> HIDE DEF Iter, f
<1>3. (CHOOSE sum : Iter(sum)) = (CHOOSE sum : Sums(f, sum))
  BY <1>2
<1> QED BY <1>1, <1>3 DEF SumOf, f

\* The time counted on each day, and in all.
CountedOf(s) == [d \in Days |-> Counted(s, d)]
Total(s) == SumOf(CountedOf(s))

\* The play time since the last tick, at a state of a handler.
FlightOf(s) == IF s.mem.game # None /\ ~s.mem.suspended THEN mono - s.mem.tick_mono ELSE 0

\* A handler on s that ends in t leaves the counted time of each day alone.
Same(s, t) == \A d \in Days : Counted(t, d) = Counted(s, d)

\* The counted time is a number, on each day and in all.
LEMMA CountedType ==
  ASSUME NEW s \in State
  PROVE  CountedOf(s) \in [Days -> Int] /\ Total(s) \in Int
<1>1. CountedOf(s) \in [Days -> Int]
  BY LedgerType DEF CountedOf
<1>2. s.mem.day_key \in Days
  BY Fields
<1> QED BY <1>1, <1>2, SumAtOne DEF Total

\* States with the same time on each day have the same in all.
LEMMA SameTotal ==
  ASSUME NEW s, NEW t, Same(s, t)
  PROVE  Total(t) = Total(s)
<1>1. CountedOf(t) = CountedOf(s)
  BY DEF CountedOf, Same
<1> QED BY <1>1 DEF Total

\* What leaves rows and session alone, leaves the counted time alone.
LEMMA ViewSame ==
  ASSUME NEW s, NEW t, LedgerView(t) = LedgerView(s)
  PROVE  Same(s, t)
BY DEF LedgerView, Same, Counted

\* A checkpoint stores the duration that counts already,
LEMMA CheckpointSame ==
  ASSUME NEW s, Good(s), s.mem.game # None
  PROVE  Same(s, checkpoint_session(s))
<1> DEFINE t == checkpoint_session(s)
<1>1. s \in State /\ s.db.open # None
  BY DEF Good, Balanced
<1>2. /\ t.mem = s.mem
      /\ t.db.closed = s.db.closed
      /\ t.db.open = [day |-> s.db.open.day, duration |-> s.mem.session_duration]
  BY <1>1, CheckpointFrame
<1>3. t.db.open # None
  BY <1>1, CheckpointGood, <1>2 DEF Good, Balanced
<1> HIDE DEF t
<1>4. Same(s, t)
  BY <1>1, <1>2, <1>3 DEF Counted, Same
<1> QED BY <1>4 DEF t

\* and a roll-over closes the session on its own day and begins one with nothing.
LEMMA RollSame ==
  ASSUME NEW s, Good(s), NEW day \in Days, mono \in Nat
  PROVE  Same(s, roll_day(s, day))
<1> DEFINE a == RollFlush(s)
           b == RollClose(a)
           t == roll_day(s, day)
<1>1. s \in State /\ Good(a) /\ a \in State /\ Unmoved(s, a)
  BY FlushGood, RollFlushFrame DEF Good, RollFlush
<1>2. b.db = IF a.mem.game = None THEN a.db ELSE close_session(a.db, a.mem.session_duration)
  BY <1>1, RollCloseFrame
<1>3. /\ t.db.closed = b.db.closed
      /\ t.db.open = IF s.mem.game = None THEN b.db.open ELSE [day |-> day, duration |-> 0]
      /\ t.mem.session_duration = IF s.mem.game = None THEN s.mem.session_duration ELSE 0
  BY <1>1, RollFrame
<1>4. a.mem.game = s.mem.game /\ LedgerView(a) = LedgerView(s)
  BY <1>1 DEF Unmoved
<1>5. CASE s.mem.game = None
  <2> HIDE DEF a, b, t
  <2>1. LedgerView(t) = LedgerView(s)
    BY <1>2, <1>3, <1>4, <1>5 DEF LedgerView
  <2> QED BY <2>1, ViewSame DEF t
<1>6. CASE s.mem.game # None
  <2>1. ASSUME NEW d \in Days
        PROVE  b.db.closed[d] = Counted(s, d)
    <3>1. Counted(a, d) = Counted(s, d)
      BY <1>4 DEF LedgerView, Counted
    <3> QED BY <1>1, <1>2, <1>4, <1>6, <3>1, ClosedIsCounted
  <2> HIDE DEF a, b, t
  <2>2. ASSUME NEW d \in Days PROVE Counted(t, d) = Counted(s, d)
    <3>1. Counted(s, d) \in Nat
      BY <1>1, LedgerType
    <3> QED BY <1>3, <1>6, <2>1, <3>1 DEF Counted
  <2> QED BY <2>2 DEF Same, t
<1> QED BY <1>5, <1>6

\* Time played is added to one day, that of the open session.
LEMMA AccountTotal ==
  ASSUME NEW s, Good(s), NEW n \in Nat, NEW r \in BOOLEAN
  PROVE  Total(account_game_elapsed(s, n, r)) = Total(s) + IF s.mem.game # None THEN n ELSE 0
<1> DEFINE t == account_game_elapsed(s, n, r)
<1>1. /\ s \in State /\ t \in State
      /\ s.mem.session_duration \in Nat
      /\ t.db = s.db
      /\ t.mem.session_duration = s.mem.session_duration + IF s.mem.game # None THEN n ELSE 0
  BY AccountType, AccountFrame, Fields DEF Good
<1>2. /\ s.mem.game # None => s.db.open # None /\ s.db.open.day \in Days
      /\ \A d \in Days : s.db.closed[d] \in Nat
  BY <1>1, Parts DEF Good, Balanced, Db, SessionRow
<1>3. Total(s) \in Int /\ CountedOf(s) \in [Days -> Int] /\ CountedOf(t) \in [Days -> Int]
  BY <1>1, CountedType
<1> HIDE DEF t
<1>4. CASE s.mem.game = None
  <2>1. LedgerView(t) = LedgerView(s)
    BY <1>1, <1>4 DEF LedgerView
  <2>2. Total(t) = Total(s)
    BY <2>1, ViewSame, SameTotal
  <2> QED BY <1>3, <1>4, <2>2 DEF t
<1>5. CASE s.mem.game # None
  <2> DEFINE day == s.db.open.day
  <2>1. day \in Days
    BY <1>2, <1>5
  <2>2. \A d \in Days : d # day => CountedOf(t)[d] = CountedOf(s)[d]
    BY <1>1 DEF CountedOf, Counted
  <2>3. CountedOf(t)[day] = CountedOf(s)[day] + n
    BY <1>1, <1>2, <1>5, <2>1 DEF CountedOf, Counted
  <2>4. Total(t) = Total(s) + CountedOf(t)[day] - CountedOf(s)[day]
    BY <1>3, <2>1, <2>2, SumAtOne DEF Total
  <2>5. CountedOf(s)[day] \in Int
    BY <1>3, <2>1
  <2>6. Total(t) = Total(s) + n
    BY <1>3, <2>3, <2>4, <2>5
  <2> QED BY <1>5, <2>6 DEF t
<1> QED BY <1>4, <1>5

\* A tick counts the elapsed time once, in one day or in two.
LEMMA AccountElapsedTotal ==
  ASSUME NEW s, Good(s), NEW c \in ConfigType, wall \in Wall, mono \in Nat
  PROVE  Total(AccountElapsed(s, c))
           = Total(s) + IF s.mem.game # None /\ ~s.mem.suspended THEN Elapsed(s) ELSE 0
<1> DEFINE new    == c.accounting_day[wall]
           before == SplitBefore(Elapsed(s), s.mem.tick_wall, wall, c.day_start[new])
           rest   == Elapsed(s) - before
           first  == IF s.mem.suspended THEN 0
                     ELSE IF new = s.mem.day_key THEN Elapsed(s) ELSE before
           a      == AccountBefore(s, c)
           rolled == roll_day(a, new)
           r      == Reliable(s)
           e      == account_game_elapsed(rolled, rest, r)
           f      == flush_usage_buckets(e)
<1>1. s \in State /\ new \in Days /\ Elapsed(s) \in Nat /\ Total(s) \in Int
  BY ElapsedType, CountedType DEF Good, ConfigType
<1>2. before \in Nat /\ rest \in Nat /\ r \in BOOLEAN
  BY <1>1, SplitElapsed DEF Reliable
<1>3. a = account_game_elapsed(s, first, r)
  BY DEF AccountBefore
<1>4. rest + before = Elapsed(s)
  BY <1>1, <1>2
<1> HIDE DEF rest, r, before
<1>5. first \in Nat
  BY <1>1, <1>2
<1>6. /\ Good(a)
      /\ a.mem.game = s.mem.game
      /\ Total(a) = Total(s) + IF s.mem.game # None THEN first ELSE 0
  BY <1>1, <1>2, <1>3, <1>5, AccountBeforeGood, AccountBeforeFrame, AccountTotal
<1> HIDE DEF a
<1>7. /\ Good(rolled)
      /\ rolled.mem.game = s.mem.game
      /\ Total(rolled) = Total(a)
  BY <1>1, <1>6, RollGood, RollFrame, RollSame, SameTotal DEF Good
<1> HIDE DEF rolled
<1>8. e \in State /\ Total(e) = Total(a) + IF s.mem.game # None THEN rest ELSE 0
  BY <1>2, <1>7, AccountType, AccountTotal DEF Good
<1> HIDE DEF e
<1>9. Total(f) = Total(e)
  BY <1>8, FlushFrame, ViewSame, SameTotal DEF Unmoved
<1> HIDE DEF f
<1>10. AccountElapsed(s, c) = IF new = s.mem.day_key THEN a
                              ELSE IF s.mem.suspended THEN rolled ELSE f
  BY DEF AccountElapsed, f, e, rolled, a, rest, before, r, new
<1>11. CASE new = s.mem.day_key \/ s.mem.suspended
  BY <1>1, <1>6, <1>7, <1>10, <1>11
<1>12. CASE new # s.mem.day_key /\ ~s.mem.suspended
  BY <1>1, <1>2, <1>4, <1>6, <1>8, <1>9, <1>10, <1>12
<1> QED BY <1>11, <1>12

\* So does the tick as a whole, whose other parts count nothing.
LEMMA TickTotal ==
  ASSUME NEW s, Good(s), NEW c \in ConfigType, wall \in Wall, mono \in Nat,
         s.mem.tick_mono <= mono
  PROVE  Total(Tick(s, c)) = Total(s) + FlightOf(s)
<1> DEFINE n == NoteClock(s)
           a == AccountElapsed(n, c)
           e == TimerElapse(a, c)
           r == CheckpointRow(e, c)
           f == CheckpointFlush(r, c)
           p == PersistTimer(f, c)
           w == warning_events(p, c, warning_snapshot(s, c))
           x == refresh_restriction(w, c)
           t == SetBaselines(x)
<1>1. Good(n) /\ n.mem = s.mem /\ n.db = s.db
  BY NoteClockGood, NoteClockFrame DEF Good
<1>2. Total(n) = Total(s) /\ s.mem.tick_mono \in Nat
  BY <1>1, ViewSame, SameTotal, UnsavedType DEF LedgerView
<1> HIDE DEF n
<1>3. Good(a) /\ Total(a) = Total(s) + FlightOf(s)
  <2>1. Elapsed(n) = mono - s.mem.tick_mono
    BY <1>1, <1>2 DEF Elapsed, Max0
  <2> QED BY <1>1, <1>2, <2>1, AccountElapsedGood, AccountElapsedTotal DEF FlightOf
<1> HIDE DEF a
<1>4. Good(e) /\ Total(e) = Total(a)
  BY <1>3, TimerElapseGood, TimerElapseFrame, ViewSame, SameTotal DEF Good
<1> HIDE DEF e
<1>5. Good(r) /\ Total(r) = Total(e)
  BY <1>4, CheckpointRowGood, CheckpointSame, SameTotal DEF CheckpointRow, CheckpointDue
<1> HIDE DEF r
<1>6. Good(f) /\ Total(f) = Total(r)
  BY <1>5, CheckpointFlushGood, CheckpointFlushFrame, ViewSame, SameTotal DEF Good
<1> HIDE DEF f
<1>7. Good(p) /\ Total(p) = Total(f)
  BY <1>6, PersistTimerGood, PersistFrame, ViewSame, SameTotal DEF Good
<1> HIDE DEF p
<1>8. w \in State /\ Total(w) = Total(p)
  BY <1>7, WarningFrame, ViewSame, SameTotal DEF Unmoved
<1> HIDE DEF w
<1>9. x \in State /\ Total(x) = Total(w)
  BY <1>8, RefreshFrame, ViewSame, SameTotal DEF Unmoved
<1> HIDE DEF x
<1>10. Total(t) = Total(x)
  BY <1>9, BaselinesFrame, ViewSame, SameTotal
<1>11. Tick(s, c) = t
  BY DEF Tick, TickRecord, t, x, w, p, f, r, e, a, n
<1> QED BY <1>3, <1>4, <1>5, <1>6, <1>7, <1>8, <1>9, <1>10, <1>11

\* A handler moves counted time between session and rows, never between days.
LEMMA CloseGameSame ==
  ASSUME NEW s, Good(s)
  PROVE  Same(s, close_current_game(s))
<1> DEFINE t == close_current_game(s)
           e == close_session(s.db, s.mem.session_duration)
<1>1. s \in State
  BY DEF Good
<1>2. /\ t.mem.session_duration = 0
      /\ t.db.closed = IF s.mem.game = None THEN s.db.closed ELSE e.closed
      /\ t.db.open = IF s.mem.game = None THEN s.db.open ELSE e.open
  BY <1>1, CloseGameFrame
<1> HIDE DEF t
<1>3. ASSUME NEW d \in Days PROVE Counted(t, d) = Counted(s, d)
  <2>0. Counted(s, d) \in Nat
    BY <1>1, LedgerType
  <2>1. CASE s.mem.game = None
    BY <1>2, <2>1 DEF Good, Balanced, Counted
  <2>2. CASE s.mem.game # None
    <3>1. e.closed[d] = Counted(s, d) /\ e.open = None
      BY <2>2, ClosedIsCounted
    <3> QED BY <1>2, <2>0, <2>2, <3>1 DEF Counted
  <2> QED BY <2>1, <2>2
<1> QED BY <1>3 DEF Same, t

\* The change of the game,
LEMMA SetGameSame ==
  ASSUME NEW s, Good(s), NEW g \in Games, mono \in Nat
  PROVE  Same(s, set_game(s, g))
<1> DEFINE k == close_current_game(s)
           o == OpenGame(k, g)
           n == Note(s, "game.metadata_updated")
<1>1. s \in State /\ Good(k) /\ k \in State /\ k.db.open = None /\ Same(s, k)
  BY CloseGameGood, CloseGameSame DEF Good
<1>2. set_game(s, g) \in {n, k, o}
  BY DEF set_game, k, n, o
<1> HIDE DEF k
<1>3. /\ o.mem.session_duration = 0
      /\ o.db.closed = k.db.closed
  BY <1>1, OpenGameFrame
<1> HIDE DEF o
<1>4. ASSUME NEW d \in Days PROVE Counted(o, d) = Counted(k, d)
  <2>1. k.db.closed[d] \in Nat
    BY <1>1, Parts DEF Db
  <2> QED BY <1>1, <1>3, <2>1 DEF Counted
<1>5. Same(s, o)
  BY <1>1, <1>4 DEF Same
<1>6. Same(s, n)
  BY <1>1, NoteFrame, ViewSame DEF LedgerView
<1> QED BY <1>1, <1>2, <1>5, <1>6

\* its end,
LEMMA StopGameSame ==
  ASSUME NEW s, Good(s), NEW c \in ConfigType
  PROVE  Same(s, stop_game(s, c))
<1> DEFINE k == close_current_game(s)
           t == refresh_restriction(k, c)
<1>1. k \in State /\ Same(s, k)
  BY CloseGameGood, CloseGameSame DEF Good
<1> HIDE DEF k
<1>2. Same(k, t)
  BY <1>1, RefreshFrame, ViewSame DEF Unmoved
<1>3. Same(s, t)
  BY <1>1, <1>2 DEF Same
<1> QED BY <1>3 DEF stop_game, t, k

\* a resume,
LEMMA ResumeSame ==
  ASSUME NEW s, Good(s), NEW c \in ConfigType, wall \in Wall, mono \in Nat
  PROVE  Same(s, resume(s, c))
<1> DEFINE t      == resume(s, c)
           new    == c.accounting_day[wall]
           based  == SetBaselines(s)
           rolled == IF new = s.mem.day_key THEN based ELSE roll_day(based, new)
<1>1. s \in State /\ new \in Days
  BY DEF Good, ConfigType
<1>2. LedgerView(t) = LedgerView(rolled)
  BY ResumeFrame
<1>3. Good(based) /\ Same(s, based)
  BY <1>1, BaselinesGood, BaselinesFrame, ViewSame
<1> HIDE DEF t, new, based
<1>4. Same(based, roll_day(based, new))
  BY <1>1, <1>3, RollSame
<1>5. Same(s, rolled)
  BY <1>3, <1>4 DEF Same
<1> HIDE DEF rolled
<1>6. Same(s, t)
  BY <1>2, <1>5, ViewSame DEF Same
<1> QED BY <1>6 DEF t

\* a change of configuration
LEMMA UpdateSame ==
  ASSUME NEW s, Good(s), NEW old \in ConfigType, NEW new \in ConfigType,
         wall \in Wall, mono \in Nat
  PROVE  Same(s, update_config(s, old, new))
<1> DEFINE t      == update_config(s, old, new)
           day    == new.accounting_day[wall]
           rolled == IF day = s.mem.day_key THEN s ELSE roll_day(s, day)
<1>1. day \in Days
  BY DEF ConfigType
<1>2. LedgerView(t) = LedgerView(rolled)
  BY UpdateFrame
<1> HIDE DEF t, day
<1>3. Same(s, rolled)
  BY <1>1, RollSame DEF Same
<1> HIDE DEF rolled
<1>4. Same(s, t)
  BY <1>2, <1>3, ViewSame DEF Same
<1> QED BY <1>4 DEF t

\* and an orderly stop, which leaves all of it in closed rows.
LEMMA ShutdownSame ==
  ASSUME NEW s, Good(s), NEW d \in Days
  PROVE  usage_for_day(shutdown(s).db, d) = Counted(s, d)
<1> DEFINE k == checkpoint_session(s)
           g == close_current_game(k)
           t == IF s.mem.game = None THEN s ELSE g
           v == save_timer(t)
<1>1. Good(s) /\ s \in State /\ Same(s, s)
  BY DEF Good, Same
<1>2. /\ Good(t) /\ t \in State
      /\ Same(s, t)
      /\ t.db.open = None
  <2>1. CASE s.mem.game = None
    BY <1>1, <2>1 DEF Good, Balanced
  <2>2. CASE s.mem.game # None
    <3>1. Good(k) /\ Same(s, k)
      BY <2>2, CheckpointGood, CheckpointSame
    <3> HIDE DEF k
    <3>2. Good(g) /\ Same(k, g) /\ g.db.open = None
      BY <3>1, CloseGameGood, CloseGameSame
    <3>3. g \in State /\ Same(s, g)
      BY <3>1, <3>2 DEF Same, Good
    <3> QED BY <2>2, <3>2, <3>3
  <2> QED BY <2>1, <2>2
<1>3. shutdown(s) \in {t, v}
  BY DEF shutdown
<1> HIDE DEF t
<1>4. v.db.closed = t.db.closed /\ v.db.open = t.db.open
  BY <1>2 DEF save_timer, State, Db
<1> HIDE DEF v
<1>5. t.db.closed[d] \in Nat /\ Counted(t, d) = Counted(s, d)
  BY <1>2, Parts DEF Same, Db
<1>6. t.db.closed[d] = Counted(s, d)
  BY <1>2, <1>5 DEF Counted
<1> QED BY <1>2, <1>3, <1>4, <1>5, <1>6 DEF usage_for_day

\* What is recorded, and counted but not stored, is the counted time of all days.
LEMMA RecordedAndUnsaved ==
  ASSUME NEW s, Good(s)
  PROVE  /\ Recorded(s.db) \in Int
         /\ Recorded(s.db) + UnsavedAt(s) = Total(s)
<1> DEFINE f == [d \in Days |-> usage_for_day(s.db, d)]
           g == CountedOf(s)
<1>1. s \in State /\ s.mem.day_key \in Days
  BY Fields DEF Good
<1>2. f \in [Days -> Int]
  BY <1>1, UsageType, Parts
<1>3. g \in [Days -> Int] /\ Total(s) \in Int
  BY <1>1, CountedType
<1>4. Recorded(s.db) = SumOf(f)
  BY RecordedSum
<1>5. SumOf(f) \in Int
  BY <1>1, <1>2, SumAtOne
<1>6. CASE s.db.open = None
  <2>1. ASSUME NEW d \in Days PROVE f[d] = g[d]
    BY <1>6 DEF CountedOf, Counted, usage_for_day
  <2>2. f = g
    BY <1>2, <1>3, <2>1
  <2>3. Recorded(s.db) = Total(s) /\ UnsavedAt(s) = 0
    BY <1>4, <1>6, <2>2 DEF Total, UnsavedAt
  <2> QED BY <1>3, <2>3
<1>7. CASE s.db.open # None
  <2> DEFINE day == s.db.open.day
  <2>1. /\ day \in Days /\ s.db.open.duration \in Nat /\ s.mem.session_duration \in Nat
        /\ \A d \in Days : s.db.closed[d] \in Nat
    BY <1>1, <1>7, Parts, Fields DEF Db, SessionRow
  <2>2. \A d \in Days : d # day => g[d] = f[d]
    BY DEF CountedOf, Counted, usage_for_day
  <2>3. /\ f[day] = s.db.closed[day] + s.db.open.duration
        /\ g[day] = s.db.closed[day] + s.mem.session_duration
    BY <1>7, <2>1 DEF CountedOf, Counted, usage_for_day
  <2>4. Total(s) = SumOf(f) + g[day] - f[day]
    BY <1>2, <1>3, <2>1, <2>2, SumAtOne DEF Total
  <2>5. UnsavedAt(s) = s.mem.session_duration - s.db.open.duration
    BY <1>7 DEF UnsavedAt
  <2> HIDE DEF f, g, day
  <2>6. s.db.closed[day] \in Nat
    BY <2>1
  <2> QED BY <1>4, <1>5, <2>1, <2>3, <2>4, <2>5, <2>6
<1> QED BY <1>6, <1>7

-----------------------------------------------------------------------------
(* Every step, as seen by the books. *)

\* A handler that ticks: it ends at the present and leaves the counted time of
\* every day as its tick left it.
LEMMA HandlerSame ==
  ASSUME IInv, Running,
         \/ TickLoop \/ GameReported \/ GameCleared \/ Suspend \/ Resume
         \/ PauseTimer \/ ResumeTimer \/ StartTimer \/ CancelTimer \/ AdjustTimer
         \/ GrantDailyTime \/ UpdateConfig
  PROVE  \E t : /\ Saves(Ticked, t) /\ Same(Ticked, t)
                /\ mem' = t.mem /\ db' = t.db /\ mono' = mono
<1> DEFINE Goal == \E t : /\ Saves(Ticked, t) /\ Same(Ticked, t)
                          /\ mem' = t.mem /\ db' = t.db /\ mono' = mono
<1> SUFFICES Goal
  OBVIOUS
<1> USE DEF Commit, Step
<1>0. C \in ConfigType /\ wall \in Wall /\ mono \in Nat /\ cfg \in Profiles
  BY ConfigAssumption DEF IInv, TypeOK, C
<1>t. Good(Ticked) /\ Ticked \in State /\ Ticked.mem.tick_mono = mono
  BY <1>0, RunningGood, TickedGood, TickTime DEF Ticked, Good
<1>h. ASSUME NEW t, Saves(Ticked, t), Same(Ticked, t), Step(t)
      PROVE  Goal
  BY <1>h
<1>v. ASSUME NEW t, Good(t), LedgerView(t) = LedgerView(Ticked), Step(t),
             t.mem.tick_mono = Ticked.mem.tick_mono,
             t.mem.checkpoint_mono = Ticked.mem.checkpoint_mono
      PROVE  Goal
  BY <1>h, <1>v, KeptSaves, ViewSame
<1>w. ASSUME NEW t, Good(t), TimerOnly(Ticked, t), Step(t)
      PROVE  Goal
  BY <1>v, <1>w DEF TimerOnly
<1> HIDE DEF Goal
<1>1. CASE TickLoop
  BY <1>1, <1>t, <1>v DEF TickLoop
<1>2. CASE GameReported
  <2>1. PICK g \in Games : Step(set_game(Ticked, g))
    BY <1>2 DEF GameReported
  <2> QED BY <1>0, <1>t, <1>h, <2>1, SetGameSaves, SetGameSame
<1>3. CASE GameCleared
  BY <1>0, <1>3, <1>t, <1>h, StopGameSaves, StopGameSame DEF GameCleared
<1>4. CASE Suspend
  <2>1. Step(suspend(Ticked))
    BY <1>4 DEF Suspend
  <2> QED BY <1>t, <1>v, <2>1, SuspendGood, SuspendFrame
<1>5. CASE Resume
  BY <1>0, <1>5, <1>t, <1>h, ResumeSaves, ResumeSame DEF Resume
<1>6. CASE StartTimer
  <2>1. PICK n \in TimerDurations, a \in TimerActions : Step(start_timer(Ticked, n, a))
    BY <1>6 DEF StartTimer
  <2> QED BY <1>t, <1>w, <2>1, StartTimerGood, StartTimerFrame
<1>7. CASE PauseTimer
  BY <1>7, <1>t, <1>w, PauseTimerGood, PauseTimerFrame DEF PauseTimer
<1>8. CASE ResumeTimer
  BY <1>8, <1>t, <1>w, ResumeTimerGood, ResumeTimerFrame DEF ResumeTimer
<1>9. CASE CancelTimer
  BY <1>0, <1>9, <1>t, <1>w, CancelTimerGood, CancelTimerFrame DEF CancelTimer
<1>10. CASE AdjustTimer
  <2>1. PICK n \in Adjustments : Step(adjust_timer(Ticked, C, n))
    BY <1>10 DEF AdjustTimer
  <2> QED BY <1>0, <1>t, <1>w, <2>1, AdjustTimerGood, AdjustTimerFrame
<1>11. CASE GrantDailyTime
  <2>1. PICK n \in Grants : Step(grant_daily_time(Ticked, C, n))
    BY <1>11 DEF GrantDailyTime
  <2>2. /\ Good(grant_daily_time(Ticked, C, n))
        /\ LedgerView(grant_daily_time(Ticked, C, n)) = LedgerView(Ticked)
        /\ ClockView(grant_daily_time(Ticked, C, n)) = ClockView(Ticked)
        /\ grant_daily_time(Ticked, C, n).mem.checkpoint_mono = Ticked.mem.checkpoint_mono
    BY <1>0, <1>t, GrantGood, GrantFrame
  <2> QED BY <1>v, <2>1, <2>2 DEF ClockView
<1>12. CASE UpdateConfig
  <2>1. PICK p \in Profiles : Step(update_config(Ticked, C, Config[p]))
    BY <1>12 DEF UpdateConfig
  <2>2. Config[p] \in ConfigType
    BY ConfigAssumption
  <2> QED BY <1>0, <1>t, <1>h, <2>1, <2>2, UpdateSaves, UpdateSame
<1> QED
  BY <1>1, <1>2, <1>3, <1>4, <1>5, <1>6, <1>7, <1>8, <1>9, <1>10, <1>11, <1>12

\* While the service runs, the audited time is the counted time of all days and
\* the time since the last tick,
LEMMA BookOf ==
  ASSUME IInv, Running
  PROVE  /\ Recorded(db) \in Int /\ Total(S) \in Int
         /\ Recorded(db) + Unsaved = Total(S)
         /\ InFlight = FlightOf(S)
         /\ Conservation <=> active = Total(S) + FlightOf(S)
<1>1. Good(S) /\ S.mem = mem /\ S.db = db
  BY RunningGood
<1>2. Total(S) \in Int
  BY <1>1, CountedType DEF Good
<1>3. Unsaved = UnsavedAt(S) /\ InFlight = FlightOf(S)
  BY <1>1 DEF Unsaved, UnsavedAt, InFlight, FlightOf, Timing
<1> QED BY <1>1, <1>2, <1>3, RecordedAndUnsaved DEF Conservation

\* also after a step that leaves it in the state t.
LEMMA BookNext ==
  ASSUME NEW t, Good(t), Running', mem' = t.mem, db' = t.db,
         NEW n, n = IF t.mem.game # None /\ ~t.mem.suspended THEN mono' - t.mem.tick_mono ELSE 0,
         active' = Total(t) + n
  PROVE  Conservation'
<1>1. Unsaved' = UnsavedAt(t)
  BY DEF Unsaved, UnsavedAt
<1>2. InFlight' = n
  BY DEF InFlight, Timing
<1>3. Recorded(t.db) + UnsavedAt(t) = Total(t)
  BY RecordedAndUnsaved
<1>4. Recorded(db') + Unsaved' + InFlight' = active'
  BY <1>1, <1>2, <1>3
<1> QED BY <1>4 DEF Conservation

\* What a stopped service recorded is all there is.
LEMMA BookStopped ==
  ASSUME ~Running', Recorded(db') \in Int, active' = Recorded(db')
  PROVE  Conservation'
<1>1. Unsaved' = 0 /\ InFlight' = 0
  BY DEF Unsaved, InFlight, Timing
<1>2. Recorded(db') + Unsaved' + InFlight' = active'
  BY <1>1
<1> QED BY <1>2 DEF Conservation

\* The recorded time is a number.
LEMMA RecordedType ==
  ASSUME NEW d \in Db, NEW day \in Days
  PROVE  Recorded(d) \in Int
<1> DEFINE f == [x \in Days |-> usage_for_day(d, x)]
<1>1. f \in [Days -> Int]
  BY UsageType
<1>2. Recorded(d) = SumOf(f)
  BY RecordedSum
<1> HIDE DEF f
<1> QED BY <1>1, <1>2, SumAtOne

\* The time recorded in all is determined by the time recorded on each day.
LEMMA RecordedBy ==
  ASSUME NEW d, NEW f, \A x \in Days : usage_for_day(d, x) = f[x],
         f = [x \in Days |-> f[x]]
  PROVE  Recorded(d) = SumOf(f)
<1>1. [x \in Days |-> usage_for_day(d, x)] = f
  OBVIOUS
<1> QED BY <1>1, RecordedSum

\* No time on any day is none in all.
LEMMA SumOfNothing == SumOf(NoSeconds) = 0
<1> DEFINE u == CHOOSE sum : Sums(NoSeconds, sum)
           B == {s \in SUBSET Days : u[s] # 0}
<1>1. NoSeconds \in [Days -> Int] /\ \A d \in Days : NoSeconds[d] = 0
  BY DEF NoSeconds
<1>2. Sums(NoSeconds, u)
  BY <1>1, SumDefined
<1> HIDE DEF u
<1>3. B = {}
  <2> SUFFICES ASSUME B # {} PROVE FALSE
    OBVIOUS
  <2>1. PICK s \in B : \A x \in s : s \ {x} \notin B
    BY SmallestSet
  <2>2. u[s] = SumStep(NoSeconds, u, s)
    BY <1>2 DEF Sums
  <2>3. CASE s = {}
    BY <2>1, <2>2, <2>3 DEF SumStep
  <2>4. CASE s # {}
    <3>1. First(s) \in s /\ First(s) \in Days
      BY <2>4, FirstIn
    <3>2. u[s \ {First(s)}] = 0
      BY <2>1, <3>1
    <3> QED BY <1>1, <2>1, <2>2, <2>4, <3>1, <3>2 DEF SumStep
  <2> QED BY <2>3, <2>4
<1>4. u[Days] = 0
  BY <1>3
<1> QED BY <1>4 DEF SumOf, u

\* The books and the bound on the last tick, which a step needs to keep them.
ConsInv == LossInv /\ Conservation

\* Every step keeps the books balanced.
LEMMA NextConserves == ConsInv /\ [AuditNext]_auditVars => Conservation'
<1> SUFFICES ASSUME ConsInv, [AuditNext]_auditVars PROVE Conservation'
  OBVIOUS
<1>0. [Next]_vars
  BY DEF AuditNext, Next, auditVars, vars
<1>1. /\ IInv /\ IInv' /\ C \in ConfigType /\ wall \in Wall /\ mono \in Nat
      /\ db \in Db /\ db' \in Db /\ TimerConsistent(db.timer)
      /\ C.accounting_day[wall] \in Days
  BY <1>0, NextIInv, ConfigAssumption DEF ConsInv, LossInv, IInv, TypeOK, C, ConfigType,
     TimerRowAgrees
<1>2. Recorded(db) \in Int /\ Recorded(db') \in Int
  BY <1>1, RecordedType
<1>r. ASSUME Running
      PROVE  /\ Good(S) /\ S \in State /\ S.mem = mem /\ S.db = db
             /\ mem.tick_mono \in Nat /\ mem.tick_mono <= mono
             /\ Total(S) \in Int
             /\ FlightOf(S) = IF mem.game # None /\ ~mem.suspended THEN mono - mem.tick_mono ELSE 0
             /\ active = Total(S) + FlightOf(S)
  BY <1>1, <1>r, RunningGood, UnsavedType, BookOf DEF ConsInv, LossInv, Trailing, FlightOf
<1>n. ASSUME ~Running PROVE active = Recorded(db)
  BY <1>2, <1>n DEF ConsInv, Conservation, Unsaved, InFlight, Timing
<1>t. ASSUME Running
      PROVE  Good(Ticked) /\ Total(Ticked) = active
  BY <1>1, <1>t, <1>r, TickedGood, TickTotal DEF Ticked
<1>3. CASE Advance /\ active' = active + (IF Timing THEN 1 ELSE 0)
  <2>1. mem' = mem /\ db' = db /\ mono' = mono + 1 /\ (Running' <=> Running)
    BY <1>3 DEF Advance, Running
  <2>2. CASE Running
    <3> DEFINE n == IF mem.game # None /\ ~mem.suspended THEN mono' - mem.tick_mono ELSE 0
    <3>1. active' = Total(S) + n
      BY <1>1, <1>3, <1>r, <2>1, <2>2 DEF Timing
    <3> HIDE DEF n
    <3>2. n = IF S.mem.game # None /\ ~S.mem.suspended THEN mono' - S.mem.tick_mono ELSE 0
      BY <1>r, <2>2 DEF n
    <3> QED BY <1>r, <2>1, <2>2, <3>1, <3>2, BookNext
  <2>3. CASE ~Running
    <3>1. active' = Recorded(db')
      BY <1>2, <1>3, <1>n, <2>1, <2>3 DEF Timing
    <3> QED BY <1>2, <2>1, <2>3, <3>1, BookStopped
  <2> QED BY <2>2, <2>3
<1>4. CASE (SetWall /\ UNCHANGED active) \/ UNCHANGED auditVars
  <2>1. mem' = mem /\ db' = db /\ mono' = mono /\ active' = active
    BY <1>4 DEF SetWall, auditVars, vars
  <2> QED BY <2>1 DEF ConsInv, Conservation, Unsaved, InFlight, Timing, Running
<1>5. CASE (Crash \/ UpdateDies \/ AdjustDies) /\ active' = Recorded(db')
  <2>1. ~Running'
    BY <1>5 DEF Crash, UpdateDies, AdjustDies, Running
  <2> QED BY <1>2, <1>5, <2>1, BookStopped
<1>6. CASE Boot /\ UNCHANGED active
  <2> DEFINE t == boot(db, C)
             f == [d \in Days |-> usage_for_day(db, d)]
  <2>1. ~Running /\ mem' = t.mem /\ db' = t.db
    BY <1>6 DEF Boot, Commit, Step
  <2>2. Good(t) /\ t.mem.game = None /\ t.db.open = None
    <3>1. Good(t) /\ t.db.open = None
      BY <1>1, BootGood, BootSame
    <3> QED BY <3>1 DEF Good, Balanced
  <2>3. ASSUME NEW d \in Days PROVE usage_for_day(t.db, d) = f[d]
    <3>1. t.db.closed[d] = usage_for_day(db, d) /\ t.db.open = None
      BY <1>1, BootSame
    <3>2. usage_for_day(db, d) \in Nat
      BY <1>1, UsageType
    <3> HIDE DEF t
    <3> QED BY <3>1, <3>2 DEF usage_for_day
  <2> HIDE DEF t
  <2>4. f = [x \in Days |-> f[x]]
    OBVIOUS
  <2>5. Recorded(db) = SumOf(f)
    BY RecordedSum
  <2> HIDE DEF f
  <2>6. Recorded(t.db) = Recorded(db)
    BY <2>3, <2>4, <2>5, RecordedBy
  <2>7. Unsaved' = 0 /\ InFlight' = 0
    BY <2>1, <2>2 DEF Unsaved, InFlight, Timing
  <2>8. Recorded(db') + Unsaved' + InFlight' = active'
    BY <1>2, <1>6, <1>n, <2>1, <2>6, <2>7
  <2> QED BY <2>8 DEF Conservation
<1>7. CASE BootDies /\ UNCHANGED active
  <2> DEFINE f == [d \in Days |-> usage_for_day(db, d)]
  <2>1. ~Running /\ ~Running' /\ db' = RecoverSession(Loaded(db, C)).db
    BY <1>7 DEF BootDies, Running
  <2>2. ASSUME NEW d \in Days PROVE usage_for_day(db', d) = f[d]
    <3>1. db'.closed[d] = usage_for_day(db, d) /\ db'.open = None
      BY <1>1, <2>1, RecoverSame
    <3>2. usage_for_day(db, d) \in Nat
      BY <1>1, UsageType
    <3> QED BY <3>1, <3>2 DEF usage_for_day
  <2>3. f = [x \in Days |-> f[x]]
    OBVIOUS
  <2>4. Recorded(db) = SumOf(f)
    BY RecordedSum
  <2> HIDE DEF f
  <2>5. Recorded(db') = Recorded(db)
    BY <2>2, <2>3, <2>4, RecordedBy
  <2> QED BY <1>2, <1>7, <1>n, <2>1, <2>5, BookStopped
<1>8. CASE Shutdown /\ UNCHANGED active
  <2>1. Running /\ ~Running' /\ db' = shutdown(Ticked).db
    BY <1>8 DEF Shutdown, Running
  <2>2. Good(Ticked) /\ Total(Ticked) = active
    BY <1>t, <2>1
  <2> DEFINE f == CountedOf(Ticked)
  <2>3. ASSUME NEW d \in Days PROVE usage_for_day(db', d) = f[d]
    BY <2>1, <2>2, ShutdownSame DEF CountedOf
  <2>4. f = [x \in Days |-> f[x]]
    BY DEF CountedOf
  <2> HIDE DEF f
  <2>5. Recorded(db') = SumOf(f)
    BY <2>3, <2>4, RecordedBy
  <2>6. Recorded(db') = active
    BY <2>2, <2>5 DEF Total, f
  <2> QED BY <1>2, <1>8, <2>1, <2>6, BookStopped
<1>9. CASE RestartCheckpoint /\ UNCHANGED active
  <2> DEFINE t == IF mem.game = None THEN S ELSE checkpoint_session(S)
  <2>1. Running /\ mem' = t.mem /\ db' = t.db /\ mono' = mono
    BY <1>9 DEF RestartCheckpoint, Commit, Step
  <2>2. Good(t) /\ Total(t) = Total(S) /\ t.mem = mem
    <3>1. CASE mem.game = None
      BY <1>r, <2>1, <3>1
    <3>2. CASE mem.game # None
      <4>1. S.db.open # None
        BY <1>r, <2>1, <3>2 DEF Good, Balanced
      <4> QED BY <1>r, <2>1, <3>2, <4>1, CheckpointGood, CheckpointFrame, CheckpointSame, SameTotal
    <3> QED BY <3>1, <3>2
  <2> HIDE DEF t
  <2> DEFINE n == FlightOf(S)
  <2>3. n = IF t.mem.game # None /\ ~t.mem.suspended THEN mono' - t.mem.tick_mono ELSE 0
    BY <1>r, <2>1, <2>2
  <2>4. active' = Total(t) + n /\ Running'
    BY <1>9, <1>r, <2>1, <2>2 DEF Running
  <2> HIDE DEF n
  <2> QED BY <2>1, <2>2, <2>3, <2>4, BookNext
<1>10. CASE ClearHistory /\ active' = Recorded(db') + Unsaved + InFlight
  <2> DEFINE t == clear_history(S)
  <2>1. Running /\ mem' = t.mem /\ db' = t.db /\ mono' = mono
    BY <1>10 DEF ClearHistory, Commit, Step
  <2>2. Unsaved' = Unsaved /\ InFlight' = InFlight
    <3>1. CASE db.open = None
      <4>1. Good(t) /\ S.mem.game = None /\ t.mem.game = S.mem.game
        BY <1>r, <2>1, <3>1, ClearHistoryGood DEF Good, Balanced, clear_history, State, Mem
      <4>2. t.db.open = None
        BY <4>1 DEF Good, Balanced
      <4> HIDE DEF t
      <4> QED BY <1>r, <2>1, <3>1, <4>1, <4>2 DEF Unsaved, InFlight, Timing
    <3>2. CASE db.open # None
      <4>1. t = S
        BY <1>r, <2>1, <3>2 DEF clear_history
      <4>2. mem' = mem /\ db' = db
        BY <1>r, <2>1, <4>1
      <4> QED BY <2>1, <4>2 DEF Unsaved, InFlight, Timing, Running
    <3> QED BY <3>1, <3>2
  <2> HIDE DEF t
  <2>3. Recorded(db') + Unsaved' + InFlight' = active'
    BY <1>10, <2>2
  <2> QED BY <2>3 DEF Conservation
<1>11. CASE /\ \/ TickLoop \/ GameReported \/ GameCleared \/ Suspend \/ Resume
               \/ PauseTimer \/ ResumeTimer \/ StartTimer \/ CancelTimer \/ AdjustTimer
               \/ GrantDailyTime \/ UpdateConfig
            /\ UNCHANGED active
  <2>1. Running
    BY <1>11 DEF TickLoop, GameReported, GameCleared, Suspend, Resume, PauseTimer, ResumeTimer,
       StartTimer, CancelTimer, AdjustTimer, GrantDailyTime, UpdateConfig
  <2>2. PICK t : /\ Saves(Ticked, t) /\ Same(Ticked, t)
                 /\ mem' = t.mem /\ db' = t.db /\ mono' = mono
    BY <1>1, <1>11, <2>1, HandlerSame
  <2>3. Good(t) /\ t.mem.tick_mono = mono /\ Total(t) = active /\ t.mem # None /\ Total(t) \in Int
    <3>1. Ticked.mem.tick_mono = mono
      BY <1>1, <1>r, <2>1, TickTime DEF Ticked
    <3>2. Good(t) /\ t \in State
      BY <2>2 DEF Saves, Good
    <3> QED BY <1>t, <2>1, <2>2, <3>1, <3>2, SameTotal, CountedType, Parts, NoneAssumption DEF Saves
  <2> DEFINE n == IF t.mem.game # None /\ ~t.mem.suspended THEN mono' - t.mem.tick_mono ELSE 0
  <2>4. n = 0 /\ Running'
    BY <1>1, <2>2, <2>3 DEF Running
  <2> HIDE DEF n
  <2>5. active' = Total(t) + n
    BY <1>11, <2>3, <2>4
  <2> QED BY <2>2, <2>3, <2>4, <2>5, BookNext DEF n
<1> QED
  BY <1>3, <1>4, <1>5, <1>6, <1>7, <1>8, <1>9, <1>10, <1>11 DEF AuditNext, Hear

\* docs/architecture.md, Time management: every second of active play is recorded in
\* exactly one session of one day, counted but unsaved, or elapsed since the last
\* tick, after every sequence of roll-overs (engine.py:587), game changes, suspends,
\* configuration changes, clock jumps, shutdowns, crashes and restarts.
THEOREM TimeIsConserved == AuditSpec => []Conservation
<1>1. AuditInit => ConsInv
  <2> SUFFICES ASSUME AuditInit PROVE ConsInv
    OBVIOUS
  <2>1. LossInv
    BY InitLossInv
  <2>2. ~Running /\ db.open = None /\ db.closed = NoSeconds /\ active = 0
    BY DEF AuditInit, Init, Running
  <2>3. Recorded(db) = 0
    <3>1. ASSUME NEW x \in Days PROVE usage_for_day(db, x) = 0
      BY <2>2 DEF usage_for_day, NoSeconds
    <3>2. [x \in Days |-> usage_for_day(db, x)] = NoSeconds
      BY <3>1 DEF NoSeconds
    <3> QED BY <3>2, RecordedSum, SumOfNothing
  <2>4. Unsaved = 0 /\ InFlight = 0
    BY <2>2 DEF Unsaved, InFlight, Timing
  <2> QED BY <2>1, <2>2, <2>3, <2>4 DEF ConsInv, Conservation
<1>2. [AuditNext]_auditVars => [Next]_vars
  BY DEF AuditNext, Next, auditVars, vars
<1>3. ConsInv /\ [AuditNext]_auditVars => ConsInv'
  BY <1>2, NextLossInv, NextConserves DEF ConsInv
<1>4. ConsInv => Conservation
  BY DEF ConsInv
<1> QED BY <1>1, <1>3, <1>4, PTL DEF AuditSpec

=============================================================================
