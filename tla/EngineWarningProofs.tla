------------------------ MODULE EngineWarningProofs ------------------------
(***************************************************************************)
(* No warning is given twice, although the daemon may crash between a      *)
(* warning and anything it does afterwards.  The invariant that is         *)
(* inductive says more than WarnedOnce: whatever was announced since time  *)
(* was last added is marked in the database, not in memory.  A restart     *)
(* reads the marks back, and marks are cleared only when time is added,    *)
(* which also clears the history.  A handler marks a threshold before it   *)
(* announces it, so every prefix of a handler keeps the invariant.         *)
(***************************************************************************)
EXTENDS EngineLedgerProofs, SequenceTheorems

-----------------------------------------------------------------------------
(* Warnings.  The events of a handler, as they follow those before them. *)

Follows(a, b) == Len(a) <= Len(b) /\ \A i \in 1 .. Len(a) : b[i] = a[i]

\* The thresholds announced in b after a.
Since(a, b, scope) ==
    {b[i].threshold : i \in {j \in Len(a) + 1 .. Len(b) :
        b[j].kind = "notification.warning" /\ b[j].scope = scope}}

\* Events follow those before the ones they follow, and so do their warnings.
LEMMA SinceTrans ==
  ASSUME NEW a \in Seq(Event), NEW b \in Seq(Event), NEW c \in Seq(Event), NEW scope,
         Follows(a, b), Follows(b, c)
  PROVE  Follows(a, c) /\ Since(a, c, scope) = Since(a, b, scope) \cup Since(b, c, scope)
<1>1. Len(a) \in Nat /\ Len(b) \in Nat /\ Len(c) \in Nat /\ Len(a) <= Len(b) /\ Len(b) <= Len(c)
  BY DEF Follows
<1>2. \A i \in 1 .. Len(b) : c[i] = b[i]
  BY DEF Follows
<1>3. Follows(a, c)
  BY <1>1, <1>2 DEF Follows
<1>4. \A x : x \in Since(a, c, scope) <=> x \in Since(a, b, scope) \/ x \in Since(b, c, scope)
  <2> TAKE x
  <2>1. ASSUME NEW i \in Len(a) + 1 .. Len(c), c[i].kind = "notification.warning",
               c[i].scope = scope, x = c[i].threshold
        PROVE  x \in Since(a, b, scope) \/ x \in Since(b, c, scope)
    <3>1. CASE i <= Len(b)
      <4>1. i \in Len(a) + 1 .. Len(b) /\ b[i] = c[i]
        BY <1>1, <1>2, <3>1
      <4> QED BY <2>1, <4>1 DEF Since
    <3>2. CASE ~(i <= Len(b))
      <4>1. i \in Len(b) + 1 .. Len(c)
        BY <1>1, <3>2
      <4> QED BY <2>1, <4>1 DEF Since
    <3> QED BY <3>1, <3>2
  <2>2. ASSUME NEW i \in Len(a) + 1 .. Len(b), b[i].kind = "notification.warning",
               b[i].scope = scope, x = b[i].threshold
        PROVE  x \in Since(a, c, scope)
    <3>1. i \in Len(a) + 1 .. Len(c) /\ b[i] = c[i]
      BY <1>1, <1>2
    <3> QED BY <2>2, <3>1 DEF Since
  <2>3. ASSUME NEW i \in Len(b) + 1 .. Len(c), c[i].kind = "notification.warning",
               c[i].scope = scope, x = c[i].threshold
        PROVE  x \in Since(a, c, scope)
    <3>1. i \in Len(a) + 1 .. Len(c)
      BY <1>1
    <3> QED BY <2>3, <3>1 DEF Since
  <2> QED BY <2>1, <2>2, <2>3 DEF Since
<1> QED BY <1>3, <1>4

\* Nothing is announced between a state and itself,
LEMMA SinceSelf ==
  ASSUME NEW a \in Seq(Event), NEW scope
  PROVE  Follows(a, a) /\ Since(a, a, scope) = {}
<1>1. Len(a) \in Nat
  OBVIOUS
<1>2. Len(a) + 1 .. Len(a) = {}
  BY <1>1
<1> QED BY <1>1, <1>2 DEF Follows, Since

\* and by an event its threshold, if it is a warning.
LEMMA SinceAppend ==
  ASSUME NEW a \in Seq(Event), NEW e \in Event, NEW scope
  PROVE  /\ Follows(a, Append(a, e))
         /\ Since(a, Append(a, e), scope)
              = IF e.kind = "notification.warning" /\ e.scope = scope THEN {e.threshold} ELSE {}
<1> DEFINE b == Append(a, e)
<1>1. Len(a) \in Nat /\ Len(b) = Len(a) + 1 /\ b[Len(a) + 1] = e
  OBVIOUS
<1>2. \A i \in 1 .. Len(a) : b[i] = a[i]
  OBVIOUS
<1> HIDE DEF b
<1>3. Follows(a, b)
  BY <1>1, <1>2 DEF Follows
<1>4. Len(a) + 1 .. Len(b) = {Len(a) + 1}
  BY <1>1
<1>5. Since(a, b, scope)
        = IF e.kind = "notification.warning" /\ e.scope = scope THEN {e.threshold} ELSE {}
  BY <1>1, <1>4 DEF Since
<1> QED BY <1>3, <1>5 DEF b

\* The observer's view of the same.
LEMMA SinceHeard ==
  ASSUME NEW a \in Seq(Event), NEW b \in Seq(Event), Follows(a, b), NEW scope
  PROVE  Warned(SubSeq(b, Len(a) + 1, Len(b)), scope) = Since(a, b, scope)
<1> DEFINE l == SubSeq(b, Len(a) + 1, Len(b))
<1>1. Len(a) \in Nat /\ Len(b) \in Nat /\ Len(a) <= Len(b)
  BY DEF Follows
<1>2. /\ DOMAIN l = 1 .. Len(b) - Len(a)
      /\ \A i \in 1 .. Len(b) - Len(a) : l[i] = b[Len(a) + i]
  <2>1. /\ l \in Seq(Event)
        /\ Len(l) = IF Len(a) + 1 <= Len(b) THEN Len(b) - (Len(a) + 1) + 1 ELSE 0
        /\ \A i \in 1 .. Len(b) - (Len(a) + 1) + 1 : l[i] = b[Len(a) + 1 + i - 1]
    BY <1>1, SubSeqProperties
  <2>2. Len(l) = Len(b) - Len(a) /\ DOMAIN l = 1 .. Len(l)
    BY <1>1, <2>1
  <2>3. ASSUME NEW i \in 1 .. Len(b) - Len(a) PROVE l[i] = b[Len(a) + i]
    <3>1. i \in 1 .. Len(b) - (Len(a) + 1) + 1 /\ Len(a) + 1 + i - 1 = Len(a) + i
      BY <1>1
    <3> QED BY <2>1, <3>1
  <2> HIDE DEF l
  <2> QED BY <2>2, <2>3
<1> HIDE DEF l
<1>3. ASSUME NEW x, x \in Warned(l, scope) PROVE x \in Since(a, b, scope)
  <2>1. PICK i \in DOMAIN l : /\ l[i].kind = "notification.warning" /\ l[i].scope = scope
                              /\ x = l[i].threshold
    BY <1>3 DEF Warned
  <2>2. Len(a) + i \in Len(a) + 1 .. Len(b) /\ l[i] = b[Len(a) + i]
    BY <1>1, <1>2, <2>1
  <2> QED BY <2>1, <2>2 DEF Since
<1>4. ASSUME NEW x, x \in Since(a, b, scope) PROVE x \in Warned(l, scope)
  <2>1. PICK i \in Len(a) + 1 .. Len(b) :
           /\ b[i].kind = "notification.warning" /\ b[i].scope = scope
           /\ x = b[i].threshold
    BY <1>4 DEF Since
  <2>2. i - Len(a) \in DOMAIN l /\ l[i - Len(a)] = b[i]
    <3>1. i - Len(a) \in 1 .. Len(b) - Len(a) /\ Len(a) + (i - Len(a)) = i
      BY <1>1
    <3> QED BY <1>2, <3>1
  <2> QED BY <2>1, <2>2 DEF Warned
<1> QED BY <1>3, <1>4 DEF l

\* A handler begins with no events.
LEMMA SinceNothing ==
  ASSUME NEW b \in Seq(Event), NEW scope
  PROVE  Follows(<<>>, b) /\ Warned(b, scope) = Since(<<>>, b, scope)
<1>1. Len(b) \in Nat /\ Len(<<>>) = 0 /\ DOMAIN b = 1 .. Len(b)
  OBVIOUS
<1>2. 0 + 1 .. Len(b) = DOMAIN b
  BY <1>1
<1>3. Follows(<<>>, b)
  BY <1>1 DEF Follows
<1> QED BY <1>1, <1>2, <1>3 DEF Warned, Since

-----------------------------------------------------------------------------
(* What each part of a handler announces and marks. *)

\* s and t have the same marks, and no warning in between.
Silent(s, t) ==
    /\ Follows(s.out, t.out)
    /\ Since(s.out, t.out, "timer") = {}
    /\ Since(s.out, t.out, "daily") = {}
    /\ t.db.timer_marks = s.db.timer_marks
    /\ t.db.daily_marks = s.db.daily_marks

\* What is announced between s and t is not marked in s, and marked in t with all
\* that s has marked; but for a scope whose marks were cleared: the timer's, or
\* those of the day.
Speaks(s, t, timerCleared, dayCleared) ==
    LET timer == Since(s.out, t.out, "timer")
        daily == Since(s.out, t.out, "daily")
        day   == t.mem.day_key
    IN  /\ Follows(s.out, t.out)
        /\ timer \subseteq t.db.timer_marks
        /\ daily \subseteq t.db.daily_marks[day]
        /\ \/ timerCleared
           \/ timer \cap s.db.timer_marks = {} /\ s.db.timer_marks \subseteq t.db.timer_marks
        /\ \/ dayCleared
           \/ /\ daily \cap s.db.daily_marks[day] = {}
              /\ s.db.daily_marks[day] \subseteq t.db.daily_marks[day]
        /\ \A d \in Days \ {day} : s.db.daily_marks[d] \subseteq t.db.daily_marks[d]

\* A part that is silent,
LEMMA SameVoice ==
  ASSUME NEW s \in State, NEW t, t.out = s.out,
         t.db.timer_marks = s.db.timer_marks, t.db.daily_marks = s.db.daily_marks
  PROVE  Silent(s, t)
<1>1. s.out \in Seq(Event)
  BY DEF State
<1> QED BY <1>1, SinceSelf DEF Silent

\* two of them,
LEMMA SilentTrans ==
  ASSUME NEW s \in State, NEW t \in State, NEW u \in State, Silent(s, t), Silent(t, u)
  PROVE  Silent(s, u)
<1>1. s.out \in Seq(Event) /\ t.out \in Seq(Event) /\ u.out \in Seq(Event)
  BY DEF State
<1> QED BY <1>1, SinceTrans DEF Silent

\* a silent part as one that speaks and has nothing to say,
LEMMA SilentSpeaks ==
  ASSUME NEW s \in State, NEW t \in State, Silent(s, t), NEW a, NEW b
  PROVE  Speaks(s, t, a, b)
BY DEF Silent, Speaks

\* and before one that speaks,
LEMMA SilentThenSpeaks ==
  ASSUME NEW s \in State, NEW t \in State, NEW u \in State, NEW a \in BOOLEAN, NEW b \in BOOLEAN,
         Silent(s, t), Speaks(t, u, a, b)
  PROVE  Speaks(s, u, a, b)
<1>1. s.out \in Seq(Event) /\ t.out \in Seq(Event) /\ u.out \in Seq(Event)
  BY DEF State
<1>2. /\ Follows(s.out, u.out)
      /\ Since(s.out, u.out, "timer") = Since(t.out, u.out, "timer")
      /\ Since(s.out, u.out, "daily") = Since(t.out, u.out, "daily")
  <2>1. /\ Follows(s.out, t.out) /\ Follows(t.out, u.out)
        /\ Since(s.out, t.out, "timer") = {} /\ Since(s.out, t.out, "daily") = {}
    BY DEF Silent, Speaks
  <2>2. ASSUME NEW x
        PROVE  /\ Follows(s.out, u.out)
               /\ Since(s.out, u.out, x) = Since(s.out, t.out, x) \cup Since(t.out, u.out, x)
    BY <1>1, <2>1, SinceTrans
  <2> QED BY <2>1, <2>2
<1> QED BY <1>2 DEF Silent, Speaks

\* and one that speaks before another of the same day.
LEMMA SpeaksTrans ==
  ASSUME NEW s \in State, NEW t \in State, NEW u \in State, NEW a \in BOOLEAN, NEW b \in BOOLEAN,
         Speaks(s, t, a, b), Speaks(t, u, FALSE, FALSE), u.mem.day_key = t.mem.day_key
  PROVE  Speaks(s, u, a, b)
<1>1. s.out \in Seq(Event) /\ t.out \in Seq(Event) /\ u.out \in Seq(Event)
  BY DEF State
<1> DEFINE day == u.mem.day_key
           T(x, y) == Since(x.out, y.out, "timer")
           D(x, y) == Since(x.out, y.out, "daily")
<1>2. /\ Follows(s.out, u.out)
      /\ T(s, u) = T(s, t) \cup T(t, u)
      /\ D(s, u) = D(s, t) \cup D(t, u)
  BY <1>1, SinceTrans DEF Speaks
<1>3. /\ T(s, t) \subseteq t.db.timer_marks /\ T(t, u) \subseteq u.db.timer_marks
      /\ T(t, u) \cap t.db.timer_marks = {} /\ t.db.timer_marks \subseteq u.db.timer_marks
      /\ a \/ (T(s, t) \cap s.db.timer_marks = {} /\ s.db.timer_marks \subseteq t.db.timer_marks)
  BY DEF Speaks
<1>4. /\ D(s, t) \subseteq t.db.daily_marks[day] /\ D(t, u) \subseteq u.db.daily_marks[day]
      /\ D(t, u) \cap t.db.daily_marks[day] = {}
      /\ t.db.daily_marks[day] \subseteq u.db.daily_marks[day]
      /\ b \/ (/\ D(s, t) \cap s.db.daily_marks[day] = {}
               /\ s.db.daily_marks[day] \subseteq t.db.daily_marks[day])
      /\ \A d \in Days \ {day} : /\ s.db.daily_marks[d] \subseteq t.db.daily_marks[d]
                                 /\ t.db.daily_marks[d] \subseteq u.db.daily_marks[d]
  BY DEF Speaks
<1>5. \A d \in Days \ {day} : s.db.daily_marks[d] \subseteq u.db.daily_marks[d]
  BY <1>4
<1> HIDE DEF T, D
<1>6. /\ T(s, u) \subseteq u.db.timer_marks
      /\ a \/ (T(s, u) \cap s.db.timer_marks = {} /\ s.db.timer_marks \subseteq u.db.timer_marks)
  BY <1>2, <1>3
<1>7. /\ D(s, u) \subseteq u.db.daily_marks[day]
      /\ b \/ (/\ D(s, u) \cap s.db.daily_marks[day] = {}
               /\ s.db.daily_marks[day] \subseteq u.db.daily_marks[day])
  BY <1>2, <1>4
<1> QED BY <1>2, <1>5, <1>6, <1>7 DEF Speaks, T, D

\* An event that is no warning is silent,
LEMMA NoteSilent ==
  ASSUME NEW s \in State, NEW k \in Kinds
  PROVE  Note(s, k) \in State /\ Silent(s, Note(s, k))
<1> DEFINE e == [kind |-> k]
           t == Note(s, k)
<1>1. e \in Event /\ e.kind # "notification.warning" /\ s.out \in Seq(Event)
  BY DEF Event, Kinds, State
<1>2. t \in State /\ t.out = Append(s.out, e) /\ t.db = s.db
  BY NoteType, NoteFrame DEF Note, Emit, State
<1> HIDE DEF e, t
<1>3. Silent(s, t)
  BY <1>1, <1>2, SinceAppend DEF Silent
<1> QED BY <1>2, <1>3 DEF t

\* so are the events about the clock,
LEMMA NoteClockSilent ==
  ASSUME NEW s \in State
  PROVE  Silent(s, NoteClock(s))
<1> DEFINE a == Note(s, "system.suspend_inferred")
           b == Note(a, "system.resume_inferred")
           c == Note(s, "clock.changed")
<1>1. a \in State /\ Silent(s, a) /\ Silent(s, c) /\ Silent(s, s)
  BY NoteSilent, SameVoice DEF Kinds
<1> HIDE DEF a
<1>2. b \in State /\ Silent(a, b)
  BY <1>1, NoteSilent DEF Kinds
<1> HIDE DEF b
<1>3. Silent(s, b)
  BY <1>1, <1>2, SilentTrans
<1> QED BY <1>1, <1>3 DEF NoteClock, a, b, c

\* the play time and its queue,
LEMMA AccountSilent ==
  ASSUME NEW s \in State, NEW n \in Nat, NEW r \in BOOLEAN
  PROVE  Silent(s, account_game_elapsed(s, n, r))
<1> DEFINE t == account_game_elapsed(s, n, r)
<1>1. t.out = s.out /\ t.db = s.db
  BY DEF account_game_elapsed, State
<1> HIDE DEF t
<1>2. Silent(s, t)
  BY <1>1, SameVoice
<1> QED BY <1>2 DEF t

\* its flush,
LEMMA FlushSilent ==
  ASSUME NEW s \in State
  PROVE  Silent(s, flush_usage_buckets(s))
<1> DEFINE t == flush_usage_buckets(s)
<1>1. /\ t.out = s.out
      /\ t.db.timer_marks = s.db.timer_marks /\ t.db.daily_marks = s.db.daily_marks
  BY DEF flush_usage_buckets, State, Db
<1> HIDE DEF t
<1>2. Silent(s, t)
  BY <1>1, SameVoice
<1> QED BY <1>2 DEF t

\* the end of a session in the database,
LEMMA CloseMarks ==
  ASSUME NEW d \in Db, NEW n
  PROVE  /\ close_session(d, n).timer_marks = d.timer_marks
         /\ close_session(d, n).daily_marks = d.daily_marks
BY DEF close_session, Db

\* the steps of a roll-over: the flush,
LEMMA RollFlushSilent ==
  ASSUME NEW s \in State
  PROVE  Silent(s, RollFlush(s))
BY FlushSilent, SameVoice DEF RollFlush

\* the close,
LEMMA RollCloseSilent ==
  ASSUME NEW s \in State
  PROVE  Silent(s, RollClose(s))
<1> DEFINE t == RollClose(s)
           k == close_session(s.db, s.mem.session_duration)
<1>1. t.out = s.out /\ (t.db = s.db \/ t.db = k)
  BY DEF RollClose, State
<1>2. k.timer_marks = s.db.timer_marks /\ k.daily_marks = s.db.daily_marks
  BY Parts, CloseMarks
<1> HIDE DEF t, k
<1>3. Silent(s, t)
  BY <1>1, <1>2, SameVoice
<1> QED BY <1>3 DEF t

\* the new session,
LEMMA RollOpenSilent ==
  ASSUME NEW s \in State, NEW day \in Days, mono \in Nat
  PROVE  Silent(s, RollOpen(s, day))
<1> DEFINE a == [s EXCEPT !.db = open_session(@, day),
                          !.mem = [@ EXCEPT !.session_duration = 0, !.checkpoint_mono = mono]]
           t == Note(a, "session.rotated_at_daily_reset")
<1>1. a \in State
  BY OpenType DEF State, Mem
<1>2. /\ a.out = s.out
      /\ a.db.timer_marks = s.db.timer_marks /\ a.db.daily_marks = s.db.daily_marks
  BY DEF open_session, State, Db
<1> HIDE DEF a
<1>3. Silent(s, a) /\ Silent(s, s)
  BY <1>2, SameVoice
<1>4. t \in State /\ Silent(a, t)
  BY <1>1, NoteSilent DEF Kinds
<1> HIDE DEF t
<1>5. Silent(s, t)
  BY <1>1, <1>3, <1>4, SilentTrans
<1>6. RollOpen(s, day) \in {s, t}
  BY DEF RollOpen, t, a
<1> QED BY <1>3, <1>5, <1>6

\* the new day,
LEMMA RollKeySilent ==
  ASSUME NEW s \in State, NEW day \in Days
  PROVE  Silent(s, RollKey(s, day))
<1> DEFINE a == [s EXCEPT !.mem = [@ EXCEPT !.day_key = day,
                                            !.played_today = usage_for_day(s.db, day)]]
           t == Note(a, "daily.reset")
<1>1. a \in State
  BY UsageType, Parts DEF State, Mem
<1>2. a.out = s.out /\ a.db = s.db
  BY DEF State
<1> HIDE DEF a
<1>3. Silent(s, a)
  BY <1>2, SameVoice
<1>4. t \in State /\ Silent(a, t)
  BY <1>1, NoteSilent DEF Kinds
<1> HIDE DEF t
<1>5. Silent(s, t)
  BY <1>1, <1>3, <1>4, SilentTrans
<1> QED BY <1>5 DEF RollKey, t, a

\* and all of it,
LEMMA RollSilent ==
  ASSUME NEW s \in State, NEW day \in Days, mono \in Nat
  PROVE  Silent(s, roll_day(s, day))
<1> DEFINE a == RollFlush(s)
           b == RollClose(a)
           o == RollOpen(b, day)
           t == RollKey(o, day)
<1>1. a \in State /\ b \in State /\ o \in State /\ t \in State
  BY RollFlushType, RollCloseType, RollOpenType, RollKeyType
<1>2. Silent(s, a) /\ Silent(a, b) /\ Silent(b, o) /\ Silent(o, t)
  BY <1>1, RollFlushSilent, RollCloseSilent, RollOpenSilent, RollKeySilent
<1> HIDE DEF a, b, o, t
<1>3. Silent(s, b)
  BY <1>1, <1>2, SilentTrans
<1>4. Silent(s, o)
  BY <1>1, <1>2, <1>3, SilentTrans
<1>5. Silent(s, t)
  BY <1>1, <1>2, <1>4, SilentTrans
<1> QED BY <1>5 DEF roll_day, t, o, b, a

\* the interval before a day boundary,
LEMMA AccountBeforeSilent ==
  ASSUME NEW s \in State, NEW c \in ConfigType, wall \in Wall, mono \in Nat
  PROVE  AccountBefore(s, c) \in State /\ Silent(s, AccountBefore(s, c))
<1> DEFINE new == c.accounting_day[wall]
           n == IF s.mem.suspended THEN 0
                ELSE IF new = s.mem.day_key THEN Elapsed(s)
                ELSE SplitBefore(Elapsed(s), s.mem.tick_wall, wall, c.day_start[new])
<1>1. Elapsed(s) \in Nat /\ Reliable(s) \in BOOLEAN
  BY ElapsedType DEF Reliable
<1>2. n \in Nat
  BY <1>1, SplitElapsed DEF ConfigType
<1> HIDE DEF n
<1>3. AccountBefore(s, c) = account_game_elapsed(s, n, Reliable(s))
  BY DEF AccountBefore, n
<1> QED BY <1>1, <1>2, <1>3, AccountType, AccountSilent

\* and the whole of the accounting,
LEMMA AccountElapsedSilent ==
  ASSUME NEW s \in State, NEW c \in ConfigType, wall \in Wall, mono \in Nat
  PROVE  Silent(s, AccountElapsed(s, c))
<1> DEFINE new    == c.accounting_day[wall]
           before == SplitBefore(Elapsed(s), s.mem.tick_wall, wall, c.day_start[new])
           rest   == Elapsed(s) - before
           a      == AccountBefore(s, c)
           rolled == roll_day(a, new)
           r      == Reliable(s)
           e      == account_game_elapsed(rolled, rest, r)
           f      == flush_usage_buckets(e)
<1>0. new \in Days /\ Elapsed(s) \in Nat
  BY ElapsedType DEF ConfigType
<1>1. new \in Days /\ rest \in Nat /\ r \in BOOLEAN
  BY <1>0, SplitElapsed DEF Reliable
<1> HIDE DEF rest, r
<1>2. a \in State /\ Silent(s, a)
  BY AccountBeforeSilent
<1> HIDE DEF a
<1>3. rolled \in State /\ Silent(a, rolled)
  BY <1>1, <1>2, RollType, RollSilent
<1> HIDE DEF rolled
<1>4. e \in State /\ Silent(rolled, e)
  BY <1>1, <1>3, AccountType, AccountSilent
<1> HIDE DEF e
<1>5. f \in State /\ Silent(e, f)
  BY <1>4, FlushType, FlushSilent
<1> HIDE DEF f
<1>6. Silent(s, rolled)
  BY <1>2, <1>3, SilentTrans
<1>7. Silent(s, e)
  BY <1>3, <1>4, <1>6, SilentTrans
<1>8. Silent(s, f)
  BY <1>4, <1>5, <1>7, SilentTrans
<1>9. AccountElapsed(s, c) = IF new = s.mem.day_key THEN a
                             ELSE IF s.mem.suspended THEN rolled ELSE f
  BY DEF AccountElapsed, f, e, rolled, a, rest, before, r, new
<1> QED BY <1>2, <1>6, <1>8, <1>9

\* the timer, as it runs, expires and is saved,
LEMMA SaveSilent ==
  ASSUME NEW s \in State, NEW tm \in Timer
  PROVE  LET t == save_timer([s EXCEPT !.mem.timer = tm])
         IN  t \in State /\ Silent(s, t) /\ t.mem.day_key = s.mem.day_key
<1> DEFINE m == [s EXCEPT !.mem.timer = tm]
           t == save_timer(m)
<1>1. m \in State
  BY DEF State, Mem
<1>2. t \in State
  BY <1>1, SaveTimerType
<1>3. /\ t.out = s.out /\ t.mem.day_key = s.mem.day_key
      /\ t.db.timer_marks = s.db.timer_marks /\ t.db.daily_marks = s.db.daily_marks
  BY DEF save_timer, State, Mem, Db
<1> HIDE DEF t
<1>4. Silent(s, t)
  BY <1>3, SameVoice
<1> QED BY <1>2, <1>3, <1>4 DEF t

\* the countdown and its end,
LEMMA TimerElapseSilent ==
  ASSUME NEW s \in State, NEW c \in ConfigType, mono \in Nat
  PROVE  TimerElapse(s, c) \in State /\ Silent(s, TimerElapse(s, c))
<1> DEFINE left == Max0(s.mem.timer.remaining - Elapsed(s))
           a    == [s EXCEPT !.mem.timer.remaining = left]
           dead == [s.mem.timer EXCEPT !.remaining = 0, !.state = "expired"]
           b    == save_timer([s EXCEPT !.mem.timer = dead])
           t    == Note(b, "timer.expired")
<1>1. s.mem.timer \in Timer /\ Elapsed(s) \in Nat
  BY ElapsedType, Fields
<1>2. left \in 0 .. MaxTimer /\ 0 \in 0 .. MaxTimer
  BY <1>1, TimerAssumption DEF Max0, Timer
<1> HIDE DEF left
<1>3. a \in State /\ a.out = s.out /\ a.db = s.db
  BY <1>1, <1>2 DEF State, Mem, Timer
<1>4. dead \in Timer
  BY <1>1, <1>2 DEF Timer, TimerStates
<1> HIDE DEF a, dead
<1>5. Silent(s, a) /\ Silent(s, s)
  BY <1>3, SameVoice
<1>6. b \in State /\ Silent(s, b)
  BY <1>4, SaveSilent
<1> HIDE DEF b
<1>7. t \in State /\ Silent(b, t)
  BY <1>6, NoteSilent DEF Kinds
<1> HIDE DEF t
<1>8. Silent(s, t)
  BY <1>6, <1>7, SilentTrans
<1>9. TimerElapse(s, c) \in {s, a, t}
  BY DEF TimerElapse, t, b, a, dead, left
<1> QED BY <1>3, <1>5, <1>7, <1>8, <1>9

\* the checkpoint of the session,
LEMMA CheckpointSilent ==
  ASSUME NEW s \in State
  PROVE  Silent(s, checkpoint_session(s))
<1> DEFINE t == checkpoint_session(s)
<1>1. /\ t.out = s.out
      /\ t.db.timer_marks = s.db.timer_marks /\ t.db.daily_marks = s.db.daily_marks
  BY DEF checkpoint_session, State, Db
<1> HIDE DEF t
<1>2. Silent(s, t)
  BY <1>1, SameVoice
<1> QED BY <1>2 DEF t

\* if it is due,
LEMMA CheckpointRowSilent ==
  ASSUME NEW s \in State, NEW c
  PROVE  Silent(s, CheckpointRow(s, c))
BY CheckpointSilent, SameVoice DEF CheckpointRow

\* with its queue,
LEMMA CheckpointFlushSilent ==
  ASSUME NEW s \in State, NEW c, mono \in Nat
  PROVE  Silent(s, CheckpointFlush(s, c))
<1> DEFINE a == [s EXCEPT !.mem.checkpoint_mono = mono]
           t == flush_usage_buckets(a)
<1>1. a \in State /\ a.out = s.out /\ a.db = s.db
  BY DEF State, Mem
<1> HIDE DEF a
<1>2. Silent(s, a) /\ Silent(s, s)
  BY <1>1, SameVoice
<1>3. t \in State /\ Silent(a, t)
  BY <1>1, FlushType, FlushSilent
<1> HIDE DEF t
<1>4. Silent(s, t)
  BY <1>1, <1>2, <1>3, SilentTrans
<1>5. CheckpointFlush(s, c) \in {s, t}
  BY DEF CheckpointFlush, t, a
<1> QED BY <1>2, <1>4, <1>5

\* and that of the timer.
LEMMA PersistSilent ==
  ASSUME NEW s \in State, NEW c, mono \in Nat
  PROVE  Silent(s, PersistTimer(s, c))
<1> DEFINE t == save_timer([s EXCEPT !.mem.persist_mono = mono])
<1>1. /\ t.out = s.out
      /\ t.db.timer_marks = s.db.timer_marks /\ t.db.daily_marks = s.db.daily_marks
  BY DEF save_timer, State, Mem, Db
<1> HIDE DEF t
<1>2. Silent(s, t) /\ Silent(s, s)
  BY <1>1, SameVoice
<1>3. PersistTimer(s, c) \in {s, t}
  BY DEF PersistTimer, t
<1> QED BY <1>2, <1>3

\* So is all that a tick records.
LEMMA TickRecordSilent ==
  ASSUME NEW s, Good(s), NEW c \in ConfigType, wall \in Wall, mono \in Nat
  PROVE  Silent(s, TickRecord(s, c))
<1> DEFINE n == NoteClock(s)
           a == AccountElapsed(n, c)
           e == TimerElapse(a, c)
           r == CheckpointRow(e, c)
           f == CheckpointFlush(r, c)
           p == PersistTimer(f, c)
<1>1. s \in State /\ Good(n) /\ n \in State /\ Silent(s, n)
  BY NoteClockGood, NoteClockSilent DEF Good
<1> HIDE DEF n
<1>2. Good(a) /\ a \in State /\ Silent(n, a)
  BY <1>1, AccountElapsedGood, AccountElapsedSilent DEF Good
<1> HIDE DEF a
<1>3. Good(e) /\ e \in State /\ Silent(a, e)
  BY <1>2, TimerElapseGood, TimerElapseSilent DEF Good
<1> HIDE DEF e
<1>4. Good(r) /\ r \in State /\ Silent(e, r)
  BY <1>3, CheckpointRowGood, CheckpointRowSilent DEF Good
<1> HIDE DEF r
<1>5. Good(f) /\ f \in State /\ Silent(r, f)
  BY <1>4, CheckpointFlushGood, CheckpointFlushSilent DEF Good
<1> HIDE DEF f
<1>6. Good(p) /\ p \in State /\ Silent(f, p)
  BY <1>5, PersistTimerGood, PersistSilent DEF Good
<1> HIDE DEF p
<1>7. Silent(s, a)
  BY <1>1, <1>2, SilentTrans
<1>8. Silent(s, e)
  BY <1>1, <1>2, <1>3, <1>7, SilentTrans
<1>9. Silent(s, r)
  BY <1>1, <1>3, <1>4, <1>8, SilentTrans
<1>10. Silent(s, f)
  BY <1>1, <1>4, <1>5, <1>9, SilentTrans
<1>11. Silent(s, p)
  BY <1>1, <1>5, <1>6, <1>10, SilentTrans
<1> QED BY <1>11 DEF TickRecord, p, f, r, e, a, n

\* Only a threshold that is not marked is announced, and it is marked.
LEMMA AnnounceSpeaks ==
  ASSUME NEW s \in State, NEW scope \in {"timer", "daily"}, NEW new \in SUBSET Nat
  PROVE  LET t == Announce(s, scope, new)
         IN  /\ t \in State /\ t.mem = s.mem /\ t.db = s.db
             /\ Follows(s.out, t.out)
             /\ Since(s.out, t.out, scope) \subseteq new
             /\ \A other \in {"timer", "daily"} \ {scope} : Since(s.out, t.out, other) = {}
<1> DEFINE e == [kind |-> "notification.warning", scope |-> scope, threshold |-> Least(new)]
           t == Announce(s, scope, new)
<1>1. s.out \in Seq(Event)
  BY DEF State
<1>2. CASE new = {}
  <2>1. t = s
    BY <1>2 DEF Announce
  <2> QED BY <1>1, <2>1, SinceSelf
<1>3. CASE new # {}
  <2>1. Least(new) \in new /\ Least(new) \in Nat
    BY <1>3, LeastType
  <2>2. e \in Event /\ e.kind = "notification.warning" /\ e.scope = scope /\ e.threshold \in new
    BY <2>1 DEF Event
  <2>3. t = Emit(s, e)
    BY <1>3 DEF Announce
  <2> HIDE DEF e
  <2>4. t \in State /\ t.mem = s.mem /\ t.db = s.db /\ t.out = Append(s.out, e)
    BY <2>2, <2>3, EmitType, EmitFrame DEF Emit, State
  <2> HIDE DEF t
  <2>5. /\ Follows(s.out, t.out)
        /\ \A x : Since(s.out, t.out, x) = IF x = scope THEN {e.threshold} ELSE {}
    BY <1>1, <2>2, <2>4, SinceAppend
  <2> QED BY <2>2, <2>4, <2>5 DEF t
<1> QED BY <1>2, <1>3

\* The warnings of the timer,
LEMMA WarnTimerSpeaks ==
  ASSUME NEW s \in State, NEW c \in ConfigType, NEW previous
  PROVE  LET t == WarnTimer(s, c, previous)
         IN  t \in State /\ t.mem = s.mem /\ Speaks(s, t, FALSE, FALSE)
<1> DEFINE crossed == Crossed(c, previous.timer, warning_snapshot(s, c).timer)
           a       == [s EXCEPT !.db.timer_marks = @ \cup crossed]
           new     == crossed \ s.db.timer_marks
           t       == Announce(a, "timer", new)
<1>1. crossed \in SUBSET Nat /\ new \in SUBSET Nat
  BY CrossedType
<1>2. WarnTimer(s, c, previous) = t
  BY DEF WarnTimer, t, a, crossed
<1> HIDE DEF crossed
<1>3. /\ a \in State /\ a.mem = s.mem /\ a.out = s.out
      /\ a.db.timer_marks = s.db.timer_marks \cup crossed
      /\ a.db.daily_marks = s.db.daily_marks
  BY <1>1 DEF State, Db
<1> HIDE DEF a
<1>4. /\ t \in State /\ t.mem = a.mem /\ t.db = a.db
      /\ Follows(a.out, t.out)
      /\ Since(a.out, t.out, "timer") \subseteq new
      /\ Since(a.out, t.out, "daily") = {}
  BY <1>1, <1>3, AnnounceSpeaks
<1> HIDE DEF t
<1>5. Speaks(s, t, FALSE, FALSE)
  BY <1>3, <1>4 DEF Speaks
<1> QED BY <1>2, <1>3, <1>4, <1>5

\* those of the day,
LEMMA WarnDailySpeaks ==
  ASSUME NEW s \in State, NEW c \in ConfigType, NEW previous
  PROVE  LET t == WarnDaily(s, c, previous)
         IN  t \in State /\ t.mem = s.mem /\ Speaks(s, t, FALSE, FALSE)
<1> DEFINE day     == s.mem.day_key
           now     == warning_snapshot(s, c)
           crossed == IF previous.day = now.day
                      THEN Crossed(c, previous.daily, now.daily)
                      ELSE {}
           marks   == [s.db.daily_marks EXCEPT ![day] = @ \cup crossed]
           a       == [s EXCEPT !.db = [s.db EXCEPT !.daily_marks = marks]]
           new     == crossed \ s.db.daily_marks[day]
           t       == Announce(a, "daily", new)
<1>1. crossed \in SUBSET Nat /\ new \in SUBSET Nat
  BY CrossedType
<1>2. now.day = day /\ day \in Days /\ s.db \in Db /\ s.db.daily_marks \in [Days -> SUBSET Nat]
  BY Fields, Parts DEF warning_snapshot, Db
<1>3. a = [s EXCEPT !.db.daily_marks[day] = @ \cup crossed]
  BY DEF State, Db
<1>4. WarnDaily(s, c, previous) = t
  BY <1>2, <1>3 DEF WarnDaily
<1> HIDE DEF crossed, now
<1>5. marks \in [Days -> SUBSET Nat] /\ marks[day] = s.db.daily_marks[day] \cup crossed
      /\ \A d \in Days \ {day} : marks[d] = s.db.daily_marks[d]
  BY <1>1, <1>2
<1> HIDE DEF marks
<1>6. /\ a \in State /\ a.mem = s.mem /\ a.out = s.out
      /\ a.db.timer_marks = s.db.timer_marks
      /\ a.db.daily_marks = marks
  BY <1>2, <1>5 DEF State, Db
<1> HIDE DEF a
<1>7. /\ t \in State /\ t.mem = a.mem /\ t.db = a.db
      /\ Follows(a.out, t.out)
      /\ Since(a.out, t.out, "daily") \subseteq new
      /\ Since(a.out, t.out, "timer") = {}
  BY <1>1, <1>6, AnnounceSpeaks
<1> HIDE DEF t
<1>8. Speaks(s, t, FALSE, FALSE)
  BY <1>5, <1>6, <1>7 DEF Speaks
<1> QED BY <1>4, <1>6, <1>7, <1>8

\* and both;
LEMMA WarningSpeaks ==
  ASSUME NEW s \in State, NEW c \in ConfigType, NEW previous
  PROVE  LET t == warning_events(s, c, previous)
         IN  t \in State /\ t.mem = s.mem /\ Speaks(s, t, FALSE, FALSE)
<1> DEFINE a == WarnTimer(s, c, previous)
           t == WarnDaily(a, c, previous)
<1>1. a \in State /\ a.mem = s.mem /\ Speaks(s, a, FALSE, FALSE)
  BY WarnTimerSpeaks
<1> HIDE DEF a
<1>2. t \in State /\ t.mem = a.mem /\ Speaks(a, t, FALSE, FALSE)
  BY <1>1, WarnDailySpeaks
<1> HIDE DEF t
<1>3. Speaks(s, t, FALSE, FALSE)
  BY <1>1, <1>2, SpeaksTrans
<1> QED BY <1>1, <1>2, <1>3 DEF warning_events, t, a

\* the restriction is announced by events of its own,
LEMMA RefreshSilent ==
  ASSUME NEW s \in State, NEW c \in ConfigType
  PROVE  LET t == refresh_restriction(s, c)
         IN  t \in State /\ Silent(s, t) /\ t.mem.day_key = s.mem.day_key
<1> DEFINE a == SetRestriction(s, c)
           r == a.mem.reason
           l == a.mem.level
           e == [kind   |-> IF r = "none" THEN "restriction.cleared"
                            ELSE IF l = 0 THEN "allowance.exhausted"
                            ELSE "restriction.activated",
                 reason |-> r,
                 level  |-> l,
                 notice |-> r = "outside_allowed_period" \/ ~c.notify_zero]
           t == refresh_restriction(s, c)
<1>1. a \in State /\ a.out = s.out /\ a.db = s.db
  BY RestrictionType DEF SetRestriction, State
<1>2. t \in State /\ t.db = s.db /\ t.mem.day_key = s.mem.day_key
  BY RefreshFrame DEF Unmoved, PolicyView
<1>3. r \in Reasons /\ l \in 0 .. 3
  BY <1>1, Parts DEF Mem
<1>4. t \in {a, Emit(a, e)}
  BY DEF refresh_restriction
<1> HIDE DEF a, t, r, l
<1>5. e \in Event /\ e.kind # "notification.warning"
  BY <1>3 DEF Event
<1> HIDE DEF e
<1>6. t.out = s.out \/ t.out = Append(s.out, e)
  BY <1>1, <1>4 DEF Emit, State
<1>7. s.out \in Seq(Event)
  BY DEF State
<1>8. Silent(s, t)
  BY <1>2, <1>5, <1>6, <1>7, SinceSelf, SinceAppend DEF Silent
<1> QED BY <1>2, <1>8 DEF t

\* and so does the end of the handlers that give or take time.
LEMMA WarnedSpeaks ==
  ASSUME NEW s \in State, NEW c \in ConfigType, NEW previous
  PROVE  LET t == refresh_restriction(warning_events(s, c, previous), c)
         IN  t \in State /\ t.mem.day_key = s.mem.day_key /\ Speaks(s, t, FALSE, FALSE)
<1> DEFINE w == warning_events(s, c, previous)
           t == refresh_restriction(w, c)
<1>1. w \in State /\ w.mem = s.mem /\ Speaks(s, w, FALSE, FALSE)
  BY WarningSpeaks
<1> HIDE DEF w
<1>2. t \in State /\ Silent(w, t) /\ t.mem.day_key = w.mem.day_key
  BY <1>1, RefreshSilent
<1> HIDE DEF t
<1>3. Speaks(w, t, FALSE, FALSE)
  BY <1>1, <1>2, SilentSpeaks
<1>4. Speaks(s, t, FALSE, FALSE)
  BY <1>1, <1>2, <1>3, SpeaksTrans
<1> QED BY <1>1, <1>2, <1>4 DEF t, w

\* A tick announces what was not marked, and marks it.
LEMMA TickSpeaks ==
  ASSUME NEW s, Good(s), NEW c \in ConfigType, wall \in Wall, mono \in Nat
  PROVE  Speaks(s, Tick(s, c), FALSE, FALSE)
<1> DEFINE p == TickRecord(s, c)
           x == refresh_restriction(warning_events(p, c, warning_snapshot(s, c)), c)
           t == SetBaselines(x)
<1>1. s \in State /\ p \in State /\ Silent(s, p)
  BY TickRecordGood, TickRecordSilent DEF Good
<1> HIDE DEF p
<1>2. x \in State /\ Speaks(p, x, FALSE, FALSE)
  BY <1>1, WarnedSpeaks
<1> HIDE DEF x
<1>3. t \in State /\ t.db = x.db /\ t.mem.day_key = x.mem.day_key /\ t.out = x.out
  BY <1>2, BaselinesFrame DEF PolicyView, SetBaselines, State
<1> HIDE DEF t
<1>4. Speaks(x, t, FALSE, FALSE)
  BY <1>2, <1>3, SameVoice, SilentSpeaks
<1>5. Speaks(s, x, FALSE, FALSE)
  BY <1>1, <1>2, SilentThenSpeaks
<1>6. Speaks(s, t, FALSE, FALSE)
  BY <1>1, <1>2, <1>3, <1>4, <1>5, SpeaksTrans
<1> QED BY <1>6 DEF Tick, t, x, p

-----------------------------------------------------------------------------
(* The handlers that follow a tick. *)

\* The end of a game,
LEMMA CloseGameSilent ==
  ASSUME NEW s, Good(s)
  PROVE  Silent(s, close_current_game(s))
<1> DEFINE f == flush_usage_buckets(s)
           k == [f EXCEPT !.db = close_session(@, s.mem.session_duration),
                          !.mem = [@ EXCEPT !.game = None, !.session_duration = 0]]
           z == [s EXCEPT !.mem.session_duration = 0]
           t == Note(k, "game.stopped")
<1>1. s \in State /\ f \in State /\ Silent(s, f)
  BY FlushType, FlushSilent DEF Good
<1> HIDE DEF f
<1>2. /\ k \in State /\ k.out = f.out
      /\ k.db = close_session(f.db, s.mem.session_duration)
  BY <1>1, CloseType, Parts, Fields DEF State, Mem
<1>3. k.db.timer_marks = f.db.timer_marks /\ k.db.daily_marks = f.db.daily_marks
  BY <1>1, <1>2, CloseMarks, Parts
<1> HIDE DEF k
<1>4. Silent(f, k)
  BY <1>1, <1>2, <1>3, SameVoice
<1>5. t \in State /\ Silent(k, t)
  BY <1>2, NoteSilent DEF Kinds
<1> HIDE DEF t
<1>6. Silent(s, k)
  BY <1>1, <1>2, <1>4, SilentTrans
<1>7. Silent(s, t)
  BY <1>1, <1>2, <1>5, <1>6, SilentTrans
<1>8. z.out = s.out /\ z.db = s.db
  BY <1>1 DEF State
<1> HIDE DEF z
<1>9. Silent(s, z)
  BY <1>1, <1>8, SameVoice
<1>10. close_current_game(s) \in {z, t}
  BY DEF close_current_game, z, t, k, f
<1> QED BY <1>7, <1>9, <1>10

\* its begin,
LEMMA OpenGameSilent ==
  ASSUME NEW s \in State, NEW g \in Games, mono \in Nat
  PROVE  OpenGame(s, g) \in State /\ Silent(s, OpenGame(s, g))
<1> DEFINE a == [s EXCEPT
                   !.db = open_session(@, s.mem.day_key),
                   !.mem = [@ EXCEPT !.game = g, !.session_duration = 0, !.checkpoint_mono = mono]]
           n == Note(a, "game.started")
           t == NoteRestricted(n)
<1>1. a \in State
  BY OpenType, Fields DEF State, Mem
<1>2. /\ a.out = s.out
      /\ a.db.timer_marks = s.db.timer_marks /\ a.db.daily_marks = s.db.daily_marks
  BY DEF open_session, State, Db
<1> HIDE DEF a
<1>3. Silent(s, a)
  BY <1>2, SameVoice
<1>4. n \in State /\ Silent(a, n)
  BY <1>1, NoteSilent DEF Kinds
<1> HIDE DEF n
<1>5. t \in State /\ Silent(n, t)
  BY <1>4, NoteSilent, SameVoice DEF NoteRestricted, Kinds
<1> HIDE DEF t
<1>6. Silent(s, n)
  BY <1>1, <1>3, <1>4, SilentTrans
<1>7. Silent(s, t)
  BY <1>4, <1>5, <1>6, SilentTrans
<1> QED BY <1>5, <1>7 DEF OpenGame, t, n, a

\* the change from one to another,
LEMMA SetGameSilent ==
  ASSUME NEW s, Good(s), NEW g \in Games, mono \in Nat
  PROVE  Silent(s, set_game(s, g))
<1> DEFINE k == close_current_game(s)
           o == OpenGame(k, g)
           n == Note(s, "game.metadata_updated")
<1>1. s \in State /\ k \in State /\ Silent(s, k) /\ Silent(s, n)
  BY CloseGameGood, CloseGameSilent, NoteSilent DEF Good, Kinds
<1> HIDE DEF k, n
<1>2. o \in State /\ Silent(k, o)
  BY <1>1, OpenGameSilent
<1> HIDE DEF o
<1>3. Silent(s, o)
  BY <1>1, <1>2, SilentTrans
<1>4. set_game(s, g) \in {n, k, o}
  BY DEF set_game, k, n, o
<1> QED BY <1>1, <1>3, <1>4

\* and no game;
LEMMA StopGameSilent ==
  ASSUME NEW s, Good(s), NEW c \in ConfigType
  PROVE  Silent(s, stop_game(s, c))
<1> DEFINE k == close_current_game(s)
           t == refresh_restriction(k, c)
<1>1. s \in State /\ k \in State /\ Silent(s, k)
  BY CloseGameGood, CloseGameSilent DEF Good
<1> HIDE DEF k
<1>2. t \in State /\ Silent(k, t)
  BY <1>1, RefreshSilent
<1> HIDE DEF t
<1>3. Silent(s, t)
  BY <1>1, <1>2, SilentTrans
<1> QED BY <1>3 DEF stop_game, t, k

\* a suspend,
LEMMA SuspendSilent ==
  ASSUME NEW s \in State
  PROVE  Silent(s, suspend(s))
<1> DEFINE a == [s EXCEPT !.mem.suspended = TRUE]
           t == Note(a, "system.suspended")
<1>1. a \in State /\ a.out = s.out /\ a.db = s.db
  BY DEF State, Mem
<1> HIDE DEF a
<1>2. Silent(s, a) /\ Silent(s, s) /\ t \in State /\ Silent(a, t)
  BY <1>1, SameVoice, NoteSilent DEF Kinds
<1> HIDE DEF t
<1>3. Silent(s, t)
  BY <1>1, <1>2, SilentTrans
<1> QED BY <1>2, <1>3 DEF suspend, t, a

\* and a resume, though it may roll the day over.
LEMMA ResumeSilent ==
  ASSUME NEW s \in State, NEW c \in ConfigType, wall \in Wall, mono \in Nat
  PROVE  Silent(s, resume(s, c))
<1> DEFINE new    == c.accounting_day[wall]
           based  == SetBaselines(s)
           rolled == IF new = s.mem.day_key THEN based ELSE roll_day(based, new)
           a      == [rolled EXCEPT !.mem.suspended = FALSE]
           t      == Note(a, "system.resumed")
<1>1. new \in Days
  BY DEF ConfigType
<1>2. based \in State /\ based.db = s.db /\ based.out = s.out
  BY BaselinesFrame DEF SetBaselines, State
<1> HIDE DEF based, new
<1>3. Silent(s, based)
  BY <1>2, SameVoice
<1>4. rolled \in State /\ Silent(based, rolled)
  BY <1>1, <1>2, RollType, RollSilent, SameVoice
<1> HIDE DEF rolled
<1>5. a \in State /\ a.out = rolled.out /\ a.db = rolled.db
  BY <1>4 DEF State, Mem
<1> HIDE DEF a
<1>6. Silent(rolled, a) /\ t \in State /\ Silent(a, t)
  BY <1>4, <1>5, SameVoice, NoteSilent DEF Kinds
<1> HIDE DEF t
<1>7. Silent(s, rolled)
  BY <1>2, <1>3, <1>4, SilentTrans
<1>8. Silent(s, a)
  BY <1>4, <1>5, <1>6, <1>7, SilentTrans
<1>9. Silent(s, t)
  BY <1>5, <1>6, <1>8, SilentTrans
<1>10. resume(s, c) \in {rolled, t}
  BY DEF resume, t, a, rolled, based, new
<1> QED BY <1>7, <1>9, <1>10

\* The state has returned an event of this kind.
Says(t, kind) == \E i \in DOMAIN t.out : t.out[i].kind = kind

\* An event that was noted was returned.
LEMMA NoteSays ==
  ASSUME NEW s \in State, NEW k \in Kinds
  PROVE  Says(Note(s, k), k)
<1> DEFINE e == [kind |-> k]
           b == Append(s.out, e)
<1>1. s.out \in Seq(Event) /\ e \in Event
  BY DEF State, Event
<1>2. b \in Seq(Event) /\ Len(b) = Len(s.out) + 1 /\ b[Len(s.out) + 1] = e /\ Len(s.out) \in Nat
  BY <1>1
<1>3. DOMAIN b = 1 .. Len(b) /\ e.kind = k
  BY <1>1
<1>4. Note(s, k).out = b
  BY DEF Note, Emit, State
<1> HIDE DEF b, e
<1>5. Len(s.out) + 1 \in DOMAIN b
  BY <1>2, <1>3
<1> QED BY <1>2, <1>3, <1>4, <1>5 DEF Says

\* What was returned stays so.
LEMMA SaysStill ==
  ASSUME NEW s \in State, NEW t \in State, NEW k, Says(s, k), Follows(s.out, t.out)
  PROVE  Says(t, k)
<1>1. s.out \in Seq(Event) /\ t.out \in Seq(Event)
  BY DEF State
<1>2. Len(s.out) \in Nat /\ Len(t.out) \in Nat /\ Len(s.out) <= Len(t.out)
      /\ DOMAIN s.out = 1 .. Len(s.out) /\ DOMAIN t.out = 1 .. Len(t.out)
  BY <1>1 DEF Follows
<1>3. PICK i \in DOMAIN s.out : s.out[i].kind = k
  BY DEF Says
<1>4. i \in DOMAIN t.out /\ t.out[i] = s.out[i]
  BY <1>2, <1>3 DEF Follows
<1> QED BY <1>3, <1>4 DEF Says

\* The marks of the timer replaced.
LEMMA TimerMarksSpeak ==
  ASSUME NEW s \in State, NEW t, t.out = s.out, t.db.daily_marks = s.db.daily_marks
  PROVE  Speaks(s, t, TRUE, FALSE)
<1>1. s.out \in Seq(Event)
  BY DEF State
<1>2. /\ Follows(s.out, t.out)
      /\ Since(s.out, t.out, "timer") = {} /\ Since(s.out, t.out, "daily") = {}
  BY <1>1, SinceSelf
<1> QED BY <1>2 DEF Speaks

\* A timer that starts has no marks, and says so;
LEMMA StartTimerSpeaks ==
  ASSUME NEW s \in State, NEW n \in TimerDurations, NEW a \in TimerActions
  PROVE  LET t == start_timer(s, n, a)
         IN  \/ Silent(s, t)
             \/ Speaks(s, t, TRUE, FALSE) /\ Says(t, "timer.started")
<1> DEFINE tm == [state |-> "running", remaining |-> n, action |-> a]
           v  == save_timer([s EXCEPT !.mem.timer = tm])
           k  == ClearTimerMarks(v)
           t  == Note(k, "timer.started")
<1>1. CASE n \in MinTimer .. MaxTimer
  <2>1. tm \in Timer
    BY <1>1, TimerAssumption DEF Timer, TimerStates
  <2> HIDE DEF tm
  <2>2. v \in State /\ Silent(s, v)
    BY <2>1, SaveSilent
  <2> HIDE DEF v
  <2>3. k \in State /\ k.out = v.out /\ k.db.daily_marks = v.db.daily_marks
    BY <2>2 DEF ClearTimerMarks, State, Db
  <2> HIDE DEF k
  <2>4. Speaks(v, k, TRUE, FALSE)
    BY <2>2, <2>3, TimerMarksSpeak
  <2>5. t \in State /\ Silent(k, t) /\ Says(t, "timer.started") /\ t.mem = k.mem
    BY <2>3, NoteSilent, NoteSays, NoteFrame DEF Kinds
  <2> HIDE DEF t
  <2>6. Speaks(s, k, TRUE, FALSE)
    BY <2>2, <2>3, <2>4, SilentThenSpeaks
  <2>7. Speaks(s, t, TRUE, FALSE)
    BY <2>3, <2>5, <2>6, SilentSpeaks, SpeaksTrans
  <2>8. start_timer(s, n, a) \in {s, t}
    BY DEF start_timer, t, k, v, tm
  <2> QED BY <2>5, <2>7, <2>8, SameVoice
<1>2. CASE n \notin MinTimer .. MaxTimer
  BY <1>2, SameVoice DEF start_timer
<1> QED BY <1>1, <1>2

\* a pause
LEMMA PauseSilent ==
  ASSUME NEW s \in State
  PROVE  Silent(s, pause_timer(s))
<1> DEFINE tm == [s.mem.timer EXCEPT !.state = "paused"]
           m == [s EXCEPT !.mem.timer.state = "paused"]
           v == save_timer(m)
           t == Note(v, "timer.paused")
<1>1. tm \in Timer
  BY Fields DEF Timer, TimerStates
<1>2. m = [s EXCEPT !.mem.timer = tm]
  BY DEF State, Mem
<1> HIDE DEF tm, m
<1>3. v \in State /\ Silent(s, v)
  BY <1>1, <1>2, SaveSilent
<1> HIDE DEF v
<1>4. t \in State /\ Silent(v, t)
  BY <1>3, NoteSilent DEF Kinds
<1> HIDE DEF t
<1>5. Silent(s, t)
  BY <1>3, <1>4, SilentTrans
<1>6. pause_timer(s) \in {s, t}
  BY DEF pause_timer, t, v, m
<1> QED BY <1>5, <1>6, SameVoice

\* and a resume of the timer keep them;
LEMMA ResumeTimerSilent ==
  ASSUME NEW s \in State
  PROVE  Silent(s, resume_timer(s))
<1> DEFINE tm == [s.mem.timer EXCEPT !.state = "running"]
           m == [s EXCEPT !.mem.timer.state = "running"]
           v == save_timer(m)
           t == Note(v, "timer.resumed")
<1>1. tm \in Timer
  BY Fields DEF Timer, TimerStates
<1>2. m = [s EXCEPT !.mem.timer = tm]
  BY DEF State, Mem
<1> HIDE DEF tm, m
<1>3. v \in State /\ Silent(s, v)
  BY <1>1, <1>2, SaveSilent
<1> HIDE DEF v
<1>4. t \in State /\ Silent(v, t)
  BY <1>3, NoteSilent DEF Kinds
<1> HIDE DEF t
<1>5. Silent(s, t)
  BY <1>3, <1>4, SilentTrans
<1>6. resume_timer(s) \in {s, t}
  BY DEF resume_timer, t, v, m
<1> QED BY <1>5, <1>6, SameVoice

\* one that is cancelled loses them, and says so.
LEMMA CancelSpeaks ==
  ASSUME NEW s \in State, NEW c \in ConfigType
  PROVE  LET t == cancel_timer(s, c)
         IN  \/ Silent(s, t)
             \/ Speaks(s, t, TRUE, FALSE) /\ Says(t, "timer.cancelled")
<1> DEFINE v == save_timer([s EXCEPT !.mem.timer = IdleTimer])
           k == ClearTimerMarks(v)
           n == Note(k, "timer.cancelled")
           t == refresh_restriction(n, c)
<1>1. IdleTimer \in Timer
  BY TimerAssumption DEF IdleTimer, Timer, TimerStates, Actions
<1>2. v \in State /\ Silent(s, v)
  BY <1>1, SaveSilent
<1> HIDE DEF v
<1>3. k \in State /\ k.out = v.out /\ k.db.daily_marks = v.db.daily_marks
  BY <1>2 DEF ClearTimerMarks, State, Db
<1> HIDE DEF k
<1>4. Speaks(v, k, TRUE, FALSE)
  BY <1>2, <1>3, TimerMarksSpeak
<1>5. n \in State /\ Silent(k, n) /\ Says(n, "timer.cancelled") /\ n.mem = k.mem
  BY <1>3, NoteSilent, NoteSays, NoteFrame DEF Kinds
<1> HIDE DEF n
<1>6. t \in State /\ Silent(n, t) /\ t.mem.day_key = n.mem.day_key
  BY <1>5, RefreshSilent
<1> HIDE DEF t
<1>7. Speaks(s, k, TRUE, FALSE)
  BY <1>2, <1>3, <1>4, SilentThenSpeaks
<1>8. Silent(k, t)
  BY <1>3, <1>5, <1>6, SilentTrans
<1>9. Speaks(s, t, TRUE, FALSE)
  BY <1>3, <1>5, <1>6, <1>7, <1>8, SilentSpeaks, SpeaksTrans
<1>10. Says(t, "timer.cancelled")
  BY <1>5, <1>6, SaysStill DEF Silent
<1>11. cancel_timer(s, c) \in {s, t}
  BY DEF cancel_timer, t, n, k, v
<1> QED BY <1>9, <1>10, <1>11, SameVoice

\* A timer that gets time starts over, and one that loses time goes on.
LEMMA AdjustSpeaks ==
  ASSUME NEW s, Good(s), NEW c \in ConfigType, NEW n \in Adjustments
  PROVE  LET t == adjust_timer(s, c, n)
         IN  \/ Speaks(s, t, FALSE, FALSE)
             \/ /\ Speaks(s, t, TRUE, FALSE)
                /\ Says(t, "timer.adjusted")
                /\ t.mem.timer.remaining > 0
                /\ t.mem.timer.remaining >= s.mem.timer.remaining
<1> DEFINE tm == Adjusted(s.mem.timer, n)
           v  == save_timer([s EXCEPT !.mem.timer = tm])
           k  == RearmTimer(v, c)
           r  == IF n > 0 THEN k ELSE v
           o  == Note(r, "timer.adjusted")
           t  == refresh_restriction(warning_events(o, c, warning_snapshot(s, c)), c)
<1>1. s \in State /\ s.mem.timer \in Timer /\ TimerConsistent(s.mem.timer) /\ n \in Int
  BY Fields, TimerAssumption DEF Good, Behind
<1>2. CASE ~(s.mem.timer.state = "idle" \/ n = 0)
  <2>1. tm \in Timer
    BY <1>1, <1>2, AdjustedType
  <2>2. n > 0 => tm.remaining > 0 /\ tm.remaining >= s.mem.timer.remaining
    BY <1>1, TimerAssumption DEF Adjusted, Timer, Max0
  <2>3. adjust_timer(s, c, n) = t
    BY <1>1, <1>2 DEF adjust_timer, State
  <2> HIDE DEF tm
  <2>4. v \in State /\ Silent(s, v) /\ Good(v)
    BY <1>1, <1>2, <2>1, SaveSilent, SavedGood DEF tm, State
  <2>5. v.mem.timer = tm
    BY <1>1, <2>1, NewTimerFrame
  <2> HIDE DEF v
  <2>6. k \in State /\ k.out = v.out /\ k.db.daily_marks = v.db.daily_marks /\ k.mem = v.mem
    BY <2>4 DEF RearmTimer, State, Db, ConfigType
  <2>7. LedgerPart(k) = LedgerPart(v) /\ TimerPart(k) = TimerPart(v)
    BY <2>4 DEF RearmTimer, State, Db, LedgerPart, TimerPart
  <2> HIDE DEF k
  <2>8. Good(k)
    BY <2>4, <2>6, <2>7, Frame
  <2>9. Speaks(v, k, TRUE, FALSE) /\ Speaks(s, v, FALSE, FALSE)
    BY <1>1, <2>4, <2>6, TimerMarksSpeak, SilentSpeaks
  <2>10. Speaks(s, k, TRUE, FALSE)
    BY <1>1, <2>4, <2>6, <2>9, SilentThenSpeaks
  <2>11. r \in State /\ Good(r) /\ r.mem.timer = tm
    BY <2>4, <2>5, <2>6, <2>8
  <2>12. IF n > 0 THEN Speaks(s, r, TRUE, FALSE) ELSE Speaks(s, r, FALSE, FALSE)
    BY <2>9, <2>10
  <2> HIDE DEF r
  <2>13. o \in State /\ Good(o) /\ Silent(r, o) /\ Says(o, "timer.adjusted") /\ o.mem = r.mem
    BY <2>11, NoteSilent, NoteSays, NoteFrame, NoteGood DEF Kinds
  <2> HIDE DEF o
  <2>14. /\ t \in State /\ t.mem.day_key = o.mem.day_key /\ Speaks(o, t, FALSE, FALSE)
         /\ Unmoved(o, t)
    BY <2>13, WarnedSpeaks, WarnedFrame
  <2> HIDE DEF t
  <2>15. t.mem.timer = tm /\ t.mem.day_key = r.mem.day_key
    BY <2>11, <2>13, <2>14 DEF Unmoved, TimerView
  <2>16. Says(t, "timer.adjusted")
    BY <2>13, <2>14, SaysStill DEF Speaks
  <2>17. Speaks(r, t, FALSE, FALSE)
    BY <2>11, <2>13, <2>14, SilentThenSpeaks
  <2>18. IF n > 0 THEN Speaks(s, t, TRUE, FALSE) ELSE Speaks(s, t, FALSE, FALSE)
    BY <1>1, <2>11, <2>12, <2>14, <2>15, <2>17, SpeaksTrans
  <2> QED BY <2>2, <2>3, <2>15, <2>16, <2>18
<1>3. CASE s.mem.timer.state = "idle" \/ n = 0
  <2>1. adjust_timer(s, c, n) = s
    BY <1>3 DEF adjust_timer
  <2> QED BY <1>1, <2>1, SameVoice, SilentSpeaks
<1> QED BY <1>2, <1>3

\* The marks of the day cleared.
LEMMA DailyMarksSpeak ==
  ASSUME NEW s \in State
  PROVE  LET t == ClearDailyMarks(s)
         IN  t \in State /\ t.mem = s.mem /\ Unmoved(s, t) /\ Speaks(s, t, FALSE, TRUE)
<1> DEFINE day   == s.mem.day_key
           marks == [s.db.daily_marks EXCEPT ![day] = {}]
           t     == ClearDailyMarks(s)
<1>1. s.out \in Seq(Event) /\ day \in Days /\ s.db \in Db
      /\ s.db.daily_marks \in [Days -> SUBSET Nat]
  BY Fields, Parts DEF State, Db
<1>2. /\ marks \in [Days -> SUBSET Nat]
      /\ marks[day] = {}
      /\ \A d \in Days \ {day} : marks[d] = s.db.daily_marks[d]
  BY <1>1
<1>3. t = [s EXCEPT !.db = [s.db EXCEPT !.daily_marks = marks]]
  BY DEF ClearDailyMarks, State, Db
<1> HIDE DEF marks
<1>4. /\ t \in State /\ t.mem = s.mem /\ t.out = s.out
      /\ t.db.timer_marks = s.db.timer_marks /\ t.db.daily_marks = marks
  BY <1>1, <1>2, <1>3 DEF State, Db
<1>5. Unmoved(s, t)
  BY MarksFrame
<1> HIDE DEF t
<1>6. /\ Follows(s.out, t.out)
      /\ Since(s.out, t.out, "timer") = {} /\ Since(s.out, t.out, "daily") = {}
  BY <1>1, <1>4, SinceSelf
<1>7. Speaks(s, t, FALSE, TRUE)
  BY <1>2, <1>4, <1>6 DEF Speaks
<1> QED BY <1>4, <1>5, <1>7 DEF t

\* A day that is granted time starts over.
LEMMA GrantSpeaks ==
  ASSUME NEW s, Good(s), NEW c \in ConfigType, NEW n \in Grants
  PROVE  LET t == grant_daily_time(s, c, n)
         IN  \/ Speaks(s, t, FALSE, FALSE)
             \/ /\ Speaks(s, t, FALSE, TRUE)
                /\ t.mem.day_key = s.mem.day_key
                /\ t.db.adjustment[s.mem.day_key] > s.db.adjustment[s.mem.day_key]
<1> DEFINE day == s.mem.day_key
           adj == [s.db.adjustment EXCEPT ![day] = @ + n]
           g   == Granted(s, n)
           k   == ClearDailyMarks(g)
           r   == IF n > 0 THEN k ELSE g
           o   == Note(r, "daily.adjusted")
           t   == refresh_restriction(warning_events(o, c, warning_snapshot(s, c)), c)
<1>1. s \in State /\ day \in Days /\ n \in Int /\ s.db.adjustment \in [Days -> Int]
  BY Fields, Parts, GrantAssumption DEF Good, Db
<1>2. n > 0 => adj[day] > s.db.adjustment[day]
  BY <1>1
<1>3. Good(g) /\ g \in State
  BY GrantedGood DEF Good
<1>4. g = [s EXCEPT !.db = [s.db EXCEPT !.adjustment = adj]]
  BY <1>1 DEF Granted, State, Db
<1> HIDE DEF adj
<1>5. /\ g.mem = s.mem /\ g.out = s.out /\ g.db.adjustment = adj
      /\ g.db.timer_marks = s.db.timer_marks /\ g.db.daily_marks = s.db.daily_marks
  BY <1>1, <1>4 DEF State, Db
<1>6. grant_daily_time(s, c, n) = IF n = 0 THEN s ELSE t
  BY DEF grant_daily_time
<1> HIDE DEF g
<1>7. Silent(s, g) /\ Silent(s, s)
  BY <1>1, <1>5, SameVoice
<1>8. Speaks(s, g, FALSE, FALSE) /\ Speaks(s, s, FALSE, FALSE)
  BY <1>1, <1>3, <1>7, SilentSpeaks
<1>9. k \in State /\ k.mem = g.mem /\ Unmoved(g, k) /\ Speaks(g, k, FALSE, TRUE) /\ Good(k)
  BY <1>3, DailyMarksSpeak, ClearDailyMarksGood
<1> HIDE DEF k
<1>10. Speaks(s, k, FALSE, TRUE)
  BY <1>1, <1>3, <1>7, <1>9, SilentThenSpeaks
<1>11. Good(r) /\ r \in State /\ r.mem = s.mem /\ r.db.adjustment = adj
  BY <1>3, <1>5, <1>9 DEF Unmoved, PolicyView
<1>12. IF n > 0 THEN Speaks(s, r, FALSE, TRUE) ELSE Speaks(s, r, FALSE, FALSE)
  BY <1>8, <1>10
<1> HIDE DEF r
<1>13. Good(o) /\ o \in State /\ Silent(r, o) /\ o.mem = r.mem /\ o.db = r.db
  BY <1>11, NoteSilent, NoteFrame, NoteGood DEF Kinds
<1> HIDE DEF o
<1>14. /\ t \in State /\ t.mem.day_key = o.mem.day_key /\ Speaks(o, t, FALSE, FALSE)
       /\ Unmoved(o, t)
  BY <1>13, WarnedSpeaks, WarnedFrame
<1> HIDE DEF t
<1>15. t.mem.day_key = r.mem.day_key /\ t.mem.day_key = day /\ t.db.adjustment = adj
  BY <1>11, <1>13, <1>14 DEF Unmoved, PolicyView
<1>16. Speaks(r, t, FALSE, FALSE)
  BY <1>11, <1>13, <1>14, SilentThenSpeaks
<1>17. IF n > 0 THEN Speaks(s, t, FALSE, TRUE) ELSE Speaks(s, t, FALSE, FALSE)
  BY <1>1, <1>11, <1>12, <1>14, <1>15, <1>16, SpeaksTrans
<1> QED BY <1>2, <1>6, <1>8, <1>15, <1>17

\* The remaining time depends on what the restriction depends on.
LEMMA SameLeft ==
  ASSUME NEW s, NEW t, NEW c, PolicyView(t) = PolicyView(s)
  PROVE  warning_snapshot(t, c) = warning_snapshot(s, c)
BY DEF PolicyView, warning_snapshot, EffectiveLimit

\* The day starts over when a new configuration leaves more of it.
LEMMA UpdateSpeaks ==
  ASSUME NEW s, Good(s), NEW old \in ConfigType, NEW new \in ConfigType,
         wall \in Wall, mono \in Nat
  PROVE  LET t == update_config(s, old, new)
         IN  \/ Speaks(s, t, FALSE, FALSE)
             \/ /\ Speaks(s, t, FALSE, TRUE)
                /\ DailyLeft(s, old) # None /\ DailyLeft(t, new) # None
                /\ DailyLeft(t, new) > DailyLeft(s, old)
<1> DEFINE previous == warning_snapshot(s, old)
           day      == new.accounting_day[wall]
           rolled   == IF day = s.mem.day_key THEN s ELSE roll_day(s, day)
           now      == warning_snapshot(rolled, new)
           k        == ClearDailyMarks(rolled)
           grew     == now.daily # None /\ previous.daily # None /\ now.daily > previous.daily
           grown    == RearmGrown(rolled, new, previous)
           x        == refresh_restriction(warning_events(grown, new, previous), new)
           t        == Note(x, "config.updated")
<1>1. s \in State /\ day \in Days /\ s.mem.timer.remaining \in Nat
  BY Fields DEF Good, ConfigType, Timer
<1>2. Good(rolled) /\ rolled \in State /\ TimerView(rolled) = TimerView(s)
  BY <1>1, RollGood, RollFrame DEF Good
<1>3. Silent(s, rolled)
  BY <1>1, RollSilent, SameVoice
<1>4. update_config(s, old, new) = t
  BY DEF update_config
<1>5. previous.daily = DailyLeft(s, old)
  BY DEF DailyLeft
<1>6. now.timer = previous.timer
  BY <1>2 DEF TimerView, warning_snapshot
<1>7. ~(previous.timer # None /\ now.timer # None /\ now.timer > previous.timer)
  <2>1. previous.timer = None \/ previous.timer = s.mem.timer.remaining
    BY DEF warning_snapshot
  <2> HIDE DEF previous, now
  <2> QED BY <1>1, <1>6, <2>1
<1>8. grown = rolled \/ (grown = k /\ grew)
  BY <1>7 DEF RearmGrown
<1> HIDE DEF rolled, previous, day, now, grown
<1>9. k \in State /\ k.mem = rolled.mem /\ Unmoved(rolled, k) /\ Speaks(rolled, k, FALSE, TRUE)
      /\ Good(k)
  BY <1>2, DailyMarksSpeak, ClearDailyMarksGood
<1> HIDE DEF k
<1>10. Speaks(s, k, FALSE, TRUE) /\ Speaks(s, rolled, FALSE, FALSE)
  BY <1>1, <1>2, <1>3, <1>9, SilentThenSpeaks, SilentSpeaks
<1>11. /\ Good(grown) /\ grown \in State /\ PolicyView(grown) = PolicyView(rolled)
       /\ IF grown = k /\ grew THEN Speaks(s, grown, FALSE, TRUE) ELSE Speaks(s, grown, FALSE, FALSE)
  BY <1>2, <1>8, <1>9, <1>10 DEF Unmoved
<1>12. /\ x \in State /\ x.mem.day_key = grown.mem.day_key /\ Speaks(grown, x, FALSE, FALSE)
       /\ Unmoved(grown, x)
  BY <1>11, WarnedSpeaks, WarnedFrame
<1> HIDE DEF x
<1>13. t \in State /\ Silent(x, t) /\ t.mem = x.mem /\ t.db = x.db
  BY <1>12, NoteSilent, NoteFrame DEF Kinds
<1> HIDE DEF t
<1>14. Speaks(x, t, FALSE, FALSE)
  BY <1>12, <1>13, SilentSpeaks
<1>15. PolicyView(t) = PolicyView(rolled)
  BY <1>11, <1>12, <1>13 DEF Unmoved, PolicyView
<1>16. DailyLeft(t, new) = now.daily
  BY <1>15, SameLeft DEF DailyLeft, now
<1>17. Speaks(grown, t, FALSE, FALSE)
  BY <1>11, <1>12, <1>13, <1>14, SpeaksTrans
<1>18. t.mem.day_key = grown.mem.day_key
  BY <1>12, <1>13
<1>19. CASE grown = k /\ grew
  <2>1. Speaks(s, t, FALSE, TRUE)
    BY <1>1, <1>11, <1>13, <1>17, <1>18, <1>19, SpeaksTrans
  <2> QED BY <1>4, <1>5, <1>16, <1>19, <2>1
<1>20. CASE ~(grown = k /\ grew)
  <2>1. Speaks(s, t, FALSE, FALSE)
    BY <1>1, <1>11, <1>13, <1>17, <1>18, <1>20, SpeaksTrans
  <2> QED BY <1>4, <2>1
<1> QED BY <1>19, <1>20

-----------------------------------------------------------------------------
(* The marks a crash or a restart finds. *)

\* No mark of s is missing in t.
Marked(s, t) ==
    /\ s.db.timer_marks \subseteq t.db.timer_marks
    /\ \A d \in Days : s.db.daily_marks[d] \subseteq t.db.daily_marks[d]

\* Marks are kept by a part that is silent,
LEMMA SilentMarked ==
  ASSUME NEW s, NEW t, Silent(s, t)
  PROVE  Marked(s, t)
BY DEF Silent, Marked

\* or speaks and clears none;
LEMMA SpeaksMarked ==
  ASSUME NEW s \in State, NEW t \in State, Speaks(s, t, FALSE, FALSE)
  PROVE  Marked(s, t)
BY DEF Speaks, Marked

\* by one after the other,
LEMMA MarkedTrans ==
  ASSUME NEW s, NEW t, NEW u, Marked(s, t), Marked(t, u)
  PROVE  Marked(s, u)
BY DEF Marked

\* by the commits of a roll-over,
LEMMA RollStagesMarked ==
  ASSUME NEW s \in State, NEW day \in Days, mono \in Nat, NEW t \in RollStages(s, day)
  PROVE  Marked(s, t)
<1> DEFINE f == RollFlush(s)
<1>1. f \in State /\ Silent(s, f)
  BY RollFlushType, RollFlushSilent
<1>2. t \in {f, RollClose(f), roll_day(s, day)}
  BY DEF RollStages
<1> HIDE DEF f
<1>3. Silent(f, RollClose(f)) /\ RollClose(f) \in State
  BY <1>1, RollCloseSilent, RollCloseType
<1>4. Silent(s, RollClose(f))
  BY <1>1, <1>3, SilentTrans
<1>5. Silent(s, roll_day(s, day))
  BY RollSilent
<1> QED BY <1>1, <1>2, <1>4, <1>5, SilentMarked

\* by those of a tick,
LEMMA TickStagesMarked ==
  ASSUME NEW s, Good(s), NEW c \in ConfigType, wall \in Wall, mono \in Nat,
         NEW t \in TickStages(s, c)
  PROVE  Marked(s, t)
<1> DEFINE a == AccountBefore(s, c)
           b == AccountElapsed(s, c)
           e == TimerElapse(b, c)
           r == CheckpointRow(e, c)
           f == CheckpointFlush(r, c)
           p == PersistTimer(f, c)
           w == WarnTimer(p, c, warning_snapshot(s, c))
           new == c.accounting_day[wall]
<1>1. s \in State /\ new \in Days
  BY DEF Good, ConfigType
<1>2. t \in {s, b, e, r, f, p, w} \cup RollStages(a, new)
  BY DEF TickStages
<1>3. a \in State /\ Marked(s, a)
  BY <1>1, AccountBeforeGood, AccountBeforeSilent, SilentMarked DEF Good
<1> HIDE DEF a
<1>4. Good(b) /\ b \in State /\ Marked(s, b)
  BY <1>1, AccountElapsedGood, AccountElapsedSilent, SilentMarked DEF Good
<1> HIDE DEF b
<1>5. Good(e) /\ e \in State /\ Marked(b, e)
  BY <1>4, TimerElapseGood, TimerElapseSilent, SilentMarked DEF Good
<1> HIDE DEF e
<1>6. Good(r) /\ r \in State /\ Marked(e, r)
  BY <1>5, CheckpointRowGood, CheckpointRowSilent, SilentMarked DEF Good
<1> HIDE DEF r
<1>7. Good(f) /\ f \in State /\ Marked(r, f)
  BY <1>6, CheckpointFlushGood, CheckpointFlushSilent, SilentMarked DEF Good
<1> HIDE DEF f
<1>8. Good(p) /\ p \in State /\ Marked(f, p)
  BY <1>7, PersistTimerGood, PersistSilent, SilentMarked DEF Good
<1> HIDE DEF p
<1>9. Marked(p, w)
  BY <1>8, WarnTimerSpeaks, SpeaksMarked
<1> HIDE DEF w
<1>10. Marked(s, s)
  BY DEF Marked
<1>11. CASE t \in RollStages(a, new)
  <2>1. Marked(a, t)
    BY <1>1, <1>3, <1>11, RollStagesMarked
  <2> QED BY <1>3, <2>1, MarkedTrans
<1>12. Marked(s, e)
  BY <1>4, <1>5, MarkedTrans
<1>13. Marked(s, r)
  BY <1>6, <1>12, MarkedTrans
<1>14. Marked(s, f)
  BY <1>7, <1>13, MarkedTrans
<1>15. Marked(s, p)
  BY <1>8, <1>14, MarkedTrans
<1>16. Marked(s, w)
  BY <1>9, <1>15, MarkedTrans
<1> QED BY <1>2, <1>4, <1>10, <1>11, <1>12, <1>13, <1>14, <1>15, <1>16

\* by those of the handlers that follow a tick,
LEMMA HandlerStagesMarked ==
  ASSUME NEW s, Good(s), NEW t \in CloseStages(s) \cup AdjustStages(s) \cup GrantStages(s)
  PROVE  Marked(s, t)
<1>1. s \in State
  BY DEF Good
<1>2. CASE t \in CloseStages(s)
  <2> DEFINE k == checkpoint_session(s)
             f == RollFlush(s)
  <2>1. /\ s.mem.game # None
        /\ t \in {flush_usage_buckets(s), RollClose(f), k, flush_usage_buckets(k)}
    BY <1>2 DEF CloseStages
  <2>2. k \in State /\ Marked(s, k)
    BY <1>1, <2>1, CheckpointGood, CheckpointSilent, SilentMarked DEF Good
  <2>3. f \in State /\ Marked(s, f)
    BY <1>1, RollFlushType, RollFlushSilent, SilentMarked
  <2> HIDE DEF k, f
  <2>4. Marked(f, RollClose(f)) /\ Marked(k, flush_usage_buckets(k))
        /\ Marked(s, flush_usage_buckets(s))
    BY <1>1, <2>2, <2>3, RollCloseSilent, FlushSilent, SilentMarked
  <2>5. Marked(s, RollClose(f)) /\ Marked(s, flush_usage_buckets(k))
    BY <2>2, <2>3, <2>4, MarkedTrans
  <2> QED BY <2>1, <2>2, <2>4, <2>5
<1>3. CASE t \in AdjustStages(s)
  <2>1. PICK n \in Adjustments : /\ s.mem.timer.state # "idle"
                                 /\ t = save_timer([s EXCEPT !.mem.timer = Adjusted(@, n)])
    BY <1>3 DEF AdjustStages
  <2>2. s.mem.timer \in Timer /\ TimerConsistent(s.mem.timer) /\ n \in Int
    BY <1>1, Fields, TimerAssumption DEF Good, Behind
  <2>3. Adjusted(s.mem.timer, n) \in Timer
    BY <2>1, <2>2, AdjustedType
  <2>4. t = save_timer([s EXCEPT !.mem.timer = Adjusted(s.mem.timer, n)])
    BY <1>1, <2>1 DEF State
  <2>5. Silent(s, t)
    BY <1>1, <2>3, <2>4, SaveSilent
  <2> QED BY <2>5, SilentMarked
<1>4. CASE t \in GrantStages(s)
  <2>1. PICK n \in Grants : t = Granted(s, n)
    BY <1>4 DEF GrantStages
  <2>2. t.db.timer_marks = s.db.timer_marks /\ t.db.daily_marks = s.db.daily_marks
    BY <1>1, <2>1 DEF Granted, State, Db
  <2> QED BY <2>2 DEF Marked
<1> QED BY <1>2, <1>3, <1>4

\* and so in every state in which the process may die,
LEMMA CrashMarked ==
  ASSUME NEW s, Good(s), NEW c \in ConfigType, wall \in Wall, mono \in Nat,
         NEW t \in CrashStages(s, c)
  PROVE  Marked(s, t)
<1> DEFINE k == Tick(s, c)
<1>1. s \in State /\ Good(k) /\ k \in State /\ Speaks(s, k, FALSE, FALSE)
  BY TickGood, TickSpeaks DEF Good
<1>2. t \in TickStages(s, c) \cup {k}
            \cup (CloseStages(k) \cup AdjustStages(k) \cup GrantStages(k))
  BY DEF CrashStages
<1> HIDE DEF k
<1>3. Marked(s, k)
  BY <1>1, SpeaksMarked
<1>4. CASE t \in TickStages(s, c)
  BY <1>4, TickStagesMarked
<1>5. CASE t \in CloseStages(k) \cup AdjustStages(k) \cup GrantStages(k)
  <2>1. Marked(k, t)
    BY <1>1, <1>5, HandlerStagesMarked
  <2> QED BY <1>3, <2>1, MarkedTrans
<1> QED BY <1>2, <1>3, <1>4, <1>5

\* config.update included.
LEMMA UpdateStagesMarked ==
  ASSUME NEW s, Good(s), NEW old \in ConfigType, NEW new \in ConfigType,
         wall \in Wall, mono \in Nat, NEW t \in UpdateStages(s, old, new)
  PROVE  Marked(s, t)
<1> DEFINE k   == Tick(s, old)
           day == new.accounting_day[wall]
<1>1. /\ s \in State /\ Good(k) /\ k \in State /\ Speaks(s, k, FALSE, FALSE)
      /\ day \in Days
  BY TickGood, TickSpeaks DEF Good, ConfigType
<1>2. t \in TickStages(s, old) \cup {k} \cup RollStages(k, day)
  BY DEF UpdateStages
<1> HIDE DEF k, day
<1>3. Marked(s, k)
  BY <1>1, SpeaksMarked
<1>4. CASE t \in TickStages(s, old)
  BY <1>4, TickStagesMarked
<1>5. CASE t \in RollStages(k, day)
  <2>1. Marked(k, t)
    BY <1>1, <1>5, RollStagesMarked
  <2> QED BY <1>3, <2>1, MarkedTrans
<1> QED BY <1>2, <1>3, <1>4, <1>5

\* A shutdown leaves the marks,
LEMMA ShutdownMarked ==
  ASSUME NEW s, Good(s)
  PROVE  Marked(s, shutdown(s))
<1> DEFINE k == checkpoint_session(s)
           t == IF s.mem.game = None THEN s ELSE close_current_game(k)
<1>1. t \in State /\ Marked(s, t)
  <2>1. CASE s.mem.game = None
    BY <2>1 DEF Good, Marked
  <2>2. CASE s.mem.game # None
    <3>1. Good(k) /\ Marked(s, k)
      BY <2>2, CheckpointGood, CheckpointSilent, SilentMarked DEF Good
    <3> HIDE DEF k
    <3>2. close_current_game(k) \in State /\ Marked(k, close_current_game(k))
      BY <3>1, CloseGameGood, CloseGameSilent, SilentMarked DEF Good
    <3> QED BY <2>2, <3>1, <3>2, MarkedTrans
  <2> QED BY <2>1, <2>2
<1>2. shutdown(s) = IF t.mem.timer.state = "running" THEN save_timer(t) ELSE t
  BY DEF shutdown
<1> HIDE DEF t
<1>3. /\ save_timer(t).db.timer_marks = t.db.timer_marks
      /\ save_timer(t).db.daily_marks = t.db.daily_marks
  BY <1>1 DEF save_timer, State, Db
<1>4. Marked(t, save_timer(t))
  BY <1>3 DEF Marked
<1>5. Marked(s, save_timer(t))
  BY <1>1, <1>4, MarkedTrans
<1> QED BY <1>1, <1>2, <1>5

\* and a start, complete or not, finds them and keeps them.
LEMMA BootMarked ==
  ASSUME NEW d \in Db, TimerConsistent(d.timer), NEW c \in ConfigType,
         wall \in Wall, mono \in Nat
  PROVE  LET s == Loaded(d, c)
         IN  s.db = d /\ Marked(s, RecoverSession(s)) /\ Marked(s, boot(d, c))
<1> DEFINE s == Loaded(d, c)
           k == [s EXCEPT !.db = close_session(@, @.open.duration)]
           r == RecoverSession(s)
           m == [r EXCEPT !.mem.timer.state = "paused"]
           u == RecoverTimer(r)
           b == SetRestriction(u, c)
<1>1. s.db = d /\ s = [mem |-> LoadedEngine(d, c), db |-> d, out |-> <<>>]
  BY DEF Loaded
<1>2. Good(r) /\ r \in State
  BY RecoverSessionGood DEF Good
<1>3. r.db = s.db \/ r.db = close_session(d, d.open.duration)
  BY <1>1 DEF RecoverSession, Note, Emit
<1> HIDE DEF s, r
<1>4. Marked(s, r)
  BY <1>1, <1>3, CloseMarks DEF Marked
<1>5. Good(u) /\ u \in State
  BY <1>2, TimerStateGood, NoteGood DEF RecoverTimer, Kinds, Good
<1>6. /\ u.db.timer_marks = r.db.timer_marks
      /\ u.db.daily_marks = r.db.daily_marks
  <2>1. /\ m.db = r.db /\ save_timer(m).db.timer_marks = m.db.timer_marks
        /\ save_timer(m).db.daily_marks = m.db.daily_marks
    BY <1>2 DEF save_timer, State, Db
  <2>2. u = r \/ u.db = save_timer(m).db
    BY <1>2 DEF RecoverTimer, Note, Emit, save_timer, State
  <2> QED BY <2>1, <2>2
<1> HIDE DEF u
<1>7. b.db = u.db
  BY <1>5 DEF SetRestriction, State
<1> HIDE DEF b
<1>8. Marked(r, b)
  BY <1>6, <1>7 DEF Marked
<1>9. Marked(s, b)
  BY <1>4, <1>8, MarkedTrans
<1> QED BY <1>1, <1>4, <1>9 DEF b, u, r, s, boot

-----------------------------------------------------------------------------
(* What was said is marked. *)

\* The observer heard nothing twice, and nothing that is not marked.
Hears == [timer : SUBSET Nat, daily : [Days -> SUBSET Nat], repeated : BOOLEAN]

Recalls(h, d) ==
    /\ h \in Hears
    /\ h.timer \subseteq d.timer_marks
    /\ \A day \in Days : h.daily[day] \subseteq d.daily_marks[day]
    /\ ~h.repeated

SaidInv == IInv /\ Recalls(said, db)

\* More marks do no harm.
LEMMA RecallsMarked ==
  ASSUME NEW h, NEW s, NEW t, Recalls(h, s.db), Marked(s, t)
  PROVE  Recalls(h, t.db)
BY DEF Recalls, Marked

\* A part that clears no marks repeats nothing.
LEMMA HeardRecalls ==
  ASSUME NEW s \in State, NEW t \in State, NEW h, Recalls(h, s.db), Speaks(s, t, FALSE, FALSE),
         NEW events,
         Warned(events, "timer") = Since(s.out, t.out, "timer"),
         Warned(events, "daily") = Since(s.out, t.out, "daily")
  PROVE  Recalls(Heard(h, events, t.mem.day_key), t.db)
<1> DEFINE day   == t.mem.day_key
           timer == Warned(events, "timer")
           daily == Warned(events, "daily")
           H     == Heard(h, events, day)
<1>1. /\ day \in Days
      /\ t.db.timer_marks \in SUBSET Nat /\ t.db.daily_marks \in [Days -> SUBSET Nat]
  BY Fields, Parts DEF Db
<1>2. /\ timer \subseteq t.db.timer_marks
      /\ daily \subseteq t.db.daily_marks[day]
      /\ timer \cap s.db.timer_marks = {} /\ s.db.timer_marks \subseteq t.db.timer_marks
      /\ daily \cap s.db.daily_marks[day] = {}
      /\ \A d \in Days : s.db.daily_marks[d] \subseteq t.db.daily_marks[d]
  BY DEF Speaks
<1>3. /\ h.timer \in SUBSET Nat /\ h.daily \in [Days -> SUBSET Nat] /\ ~h.repeated
      /\ h.timer \subseteq s.db.timer_marks
      /\ \A d \in Days : h.daily[d] \subseteq s.db.daily_marks[d]
  BY DEF Recalls, Hears
<1>4. /\ H.timer = h.timer \cup timer
      /\ H.daily = [h.daily EXCEPT ![day] = @ \cup daily]
      /\ H.repeated = (\/ h.repeated
                       \/ timer \cap h.timer # {}
                       \/ daily \cap h.daily[day] # {})
      /\ H = [timer |-> H.timer, daily |-> H.daily, repeated |-> H.repeated]
  BY DEF Heard
<1> HIDE DEF H, timer, daily, day
<1>5. timer \cap h.timer = {} /\ daily \cap h.daily[day] = {}
  BY <1>1, <1>2, <1>3
<1>6. H.timer \in SUBSET Nat /\ H.timer \subseteq t.db.timer_marks
  BY <1>1, <1>2, <1>3, <1>4
<1>7. /\ \A d \in Days : H.daily[d] \subseteq t.db.daily_marks[d]
      /\ H.daily \in [Days -> SUBSET Nat]
  <2>1. /\ H.daily[day] = h.daily[day] \cup daily
        /\ \A d \in Days \ {day} : H.daily[d] = h.daily[d]
    BY <1>1, <1>3, <1>4
  <2>2. \A d \in Days : H.daily[d] \subseteq t.db.daily_marks[d]
    BY <1>1, <1>2, <1>3, <2>1
  <2>3. H.daily \in [Days -> SUBSET Nat]
    <3>1. h.daily[day] \cup daily \in SUBSET Nat
      BY <1>1, <1>2, <1>3
    <3> QED BY <1>1, <1>3, <1>4, <3>1
  <2> QED BY <2>2, <2>3
<1>8. ~H.repeated /\ H.repeated \in BOOLEAN
  BY <1>3, <1>4, <1>5
<1>9. H \in Hears
  BY <1>4, <1>6, <1>7, <1>8 DEF Hears
<1>10. Recalls(H, t.db)
  BY <1>6, <1>7, <1>8, <1>9 DEF Recalls
<1> QED BY <1>10 DEF H, day

\* Renewed, at a given day.
RenewedOn(h, day, timerGrew, dayGrew) ==
    [h EXCEPT !.timer = IF timerGrew THEN {} ELSE @,
              !.daily = IF dayGrew THEN [@ EXCEPT ![day] = {}] ELSE @]

\* A part that clears the marks of a scope, where the observer starts again.
LEMMA RenewedRecalls ==
  ASSUME NEW s \in State, NEW t \in State, NEW h, Recalls(h, s.db),
         NEW timerGrew \in BOOLEAN, NEW dayGrew \in BOOLEAN, Speaks(s, t, timerGrew, dayGrew),
         NEW n, n = RenewedOn(h, t.mem.day_key, timerGrew, dayGrew)
  PROVE  \E u \in State : /\ Recalls(n, u.db)
                          /\ u.out = s.out
                          /\ Speaks(u, t, FALSE, FALSE)
<1> DEFINE day   == t.mem.day_key
           tm    == IF timerGrew THEN {} ELSE s.db.timer_marks
           dm    == IF dayGrew THEN [s.db.daily_marks EXCEPT ![day] = {}] ELSE s.db.daily_marks
           u     == [s EXCEPT !.db = [s.db EXCEPT !.timer_marks = tm, !.daily_marks = dm]]
<1>1. /\ day \in Days /\ s.db \in Db
      /\ s.db.timer_marks \in SUBSET Nat /\ s.db.daily_marks \in [Days -> SUBSET Nat]
  BY Fields, Parts DEF Db
<1>2. tm \in SUBSET Nat /\ dm \in [Days -> SUBSET Nat]
  BY <1>1
<1>3. /\ dayGrew => dm[day] = {}
      /\ ~dayGrew => dm[day] = s.db.daily_marks[day]
      /\ \A d \in Days \ {day} : dm[d] = s.db.daily_marks[d]
  BY <1>1
<1>4. (timerGrew => tm = {}) /\ (~timerGrew => tm = s.db.timer_marks)
  OBVIOUS
<1> HIDE DEF tm, dm
<1>5. u \in State /\ u.out = s.out /\ u.db.timer_marks = tm /\ u.db.daily_marks = dm
  BY <1>1, <1>2 DEF State, Db
<1> HIDE DEF u
<1>6. /\ h.timer \in SUBSET Nat /\ h.daily \in [Days -> SUBSET Nat] /\ ~h.repeated
      /\ h.timer \subseteq s.db.timer_marks
      /\ \A d \in Days : h.daily[d] \subseteq s.db.daily_marks[d]
      /\ h \in Hears
  BY DEF Recalls, Hears
<1> DEFINE nt == IF timerGrew THEN {} ELSE h.timer
           nd == IF dayGrew THEN [h.daily EXCEPT ![day] = {}] ELSE h.daily
<1>7. n.timer = nt /\ n.daily = nd /\ n.repeated = h.repeated
      /\ n = [timer |-> nt, daily |-> nd, repeated |-> h.repeated]
  BY <1>6 DEF Hears, RenewedOn
<1>8. /\ dayGrew => nd[day] = {}
      /\ ~dayGrew => nd[day] = h.daily[day]
      /\ \A d \in Days \ {day} : nd[d] = h.daily[d]
      /\ nd \in [Days -> SUBSET Nat]
  BY <1>1, <1>6
<1>9. (timerGrew => nt = {}) /\ (~timerGrew => nt = h.timer) /\ nt \in SUBSET Nat
  BY <1>6
<1> HIDE DEF nt, nd
<1>10. nt \subseteq tm
  BY <1>4, <1>6, <1>9
<1>11. \A d \in Days : nd[d] \subseteq dm[d]
  BY <1>1, <1>3, <1>6, <1>8
<1>12. n \in Hears
  BY <1>6, <1>7, <1>8, <1>9 DEF Hears
<1>13. Recalls(n, u.db)
  BY <1>5, <1>6, <1>7, <1>10, <1>11, <1>12 DEF Recalls
<1>14. Speaks(u, t, FALSE, FALSE)
  <2> DEFINE timer == Since(s.out, t.out, "timer")
             daily == Since(s.out, t.out, "daily")
  <2>1. /\ Follows(s.out, t.out)
        /\ timer \subseteq t.db.timer_marks
        /\ daily \subseteq t.db.daily_marks[day]
        /\ \/ timerGrew
           \/ timer \cap s.db.timer_marks = {} /\ s.db.timer_marks \subseteq t.db.timer_marks
        /\ \/ dayGrew
           \/ /\ daily \cap s.db.daily_marks[day] = {}
              /\ s.db.daily_marks[day] \subseteq t.db.daily_marks[day]
        /\ \A d \in Days \ {day} : s.db.daily_marks[d] \subseteq t.db.daily_marks[d]
    BY DEF Speaks
  <2> HIDE DEF timer, daily
  <2>2. timer \cap tm = {} /\ tm \subseteq t.db.timer_marks
    BY <1>4, <2>1
  <2>3. daily \cap dm[day] = {} /\ dm[day] \subseteq t.db.daily_marks[day]
    BY <1>3, <2>1
  <2>4. \A d \in Days \ {day} : dm[d] \subseteq t.db.daily_marks[d]
    BY <1>3, <2>1
  <2> QED BY <1>5, <2>1, <2>2, <2>3, <2>4 DEF Speaks, timer, daily
<1> QED BY <1>5, <1>13, <1>14

\* A handler after its tick.
LEMMA HearRecalls ==
  ASSUME SaidInv, Running, NEW t \in State, Step(t),
         NEW a \in BOOLEAN, NEW b \in BOOLEAN, Speaks(Ticked, t, a, b),
         NEW timerGrew \in BOOLEAN, NEW dayGrew \in BOOLEAN, a => timerGrew, b => dayGrew,
         Hear(timerGrew, dayGrew)
  PROVE  Recalls(said', db')
<1> DEFINE k     == Ticked
           h     == Heard(said, k.out, k.mem.day_key)
           n     == RenewedOn(h, t.mem.day_key, timerGrew, dayGrew)
           later == SubSeq(t.out, Len(k.out) + 1, Len(t.out))
<1>1. mem' = t.mem /\ db' = t.db /\ out' = t.out
  BY DEF Step
<1>2. C \in ConfigType /\ wall \in Wall /\ mono \in Nat
  BY ConfigAssumption DEF SaidInv, IInv, TypeOK, C
<1>3. /\ S \in State /\ Good(S) /\ S.db = db /\ S.out = <<>>
      /\ k \in State /\ Speaks(S, k, FALSE, FALSE) /\ Recalls(said, S.db)
  BY <1>2, RunningGood, TickedGood, TickSpeaks DEF SaidInv, Good, S, Ticked
<1>4. said' = IF t.out = <<>> /\ ~timerGrew /\ ~dayGrew THEN said
              ELSE Heard(n, later, t.mem.day_key)
  BY <1>1 DEF Hear, Renewed, RenewedOn
<1> HIDE DEF k
<1>5. k.out \in Seq(Event) /\ t.out \in Seq(Event)
  BY <1>3 DEF State
<1>6. \A x : Warned(k.out, x) = Since(S.out, k.out, x)
  BY <1>3, <1>5, SinceNothing
<1>7. Recalls(h, k.db)
  BY <1>3, <1>6, HeardRecalls
<1> HIDE DEF h
<1>8. Speaks(k, t, timerGrew, dayGrew)
  BY DEF k, Speaks
<1>9. \E u \in State : Recalls(n, u.db) /\ u.out = k.out /\ Speaks(u, t, FALSE, FALSE)
  <2>1. CASE timerGrew /\ dayGrew
    <3>1. Speaks(k, t, TRUE, TRUE) /\ n = RenewedOn(h, t.mem.day_key, TRUE, TRUE)
      BY <1>8, <2>1 DEF Speaks, RenewedOn
    <3> HIDE DEF n
    <3> QED BY <1>3, <1>7, <3>1, RenewedRecalls
  <2>2. CASE timerGrew /\ ~dayGrew
    <3>1. Speaks(k, t, TRUE, FALSE) /\ n = RenewedOn(h, t.mem.day_key, TRUE, FALSE)
      BY <1>8, <2>2 DEF Speaks, RenewedOn
    <3> HIDE DEF n
    <3> QED BY <1>3, <1>7, <3>1, RenewedRecalls
  <2>3. CASE ~timerGrew /\ dayGrew
    <3>1. Speaks(k, t, FALSE, TRUE) /\ n = RenewedOn(h, t.mem.day_key, FALSE, TRUE)
      BY <1>8, <2>3 DEF Speaks, RenewedOn
    <3> HIDE DEF n
    <3> QED BY <1>3, <1>7, <3>1, RenewedRecalls
  <2>4. CASE ~timerGrew /\ ~dayGrew
    <3>1. Speaks(k, t, FALSE, FALSE) /\ n = RenewedOn(h, t.mem.day_key, FALSE, FALSE)
      BY <1>8, <2>4 DEF Speaks, RenewedOn
    <3> HIDE DEF n
    <3> QED BY <1>3, <1>7, <3>1, RenewedRecalls
  <2> QED BY <2>1, <2>2, <2>3, <2>4
<1> HIDE DEF n
<1>10. PICK u \in State : Recalls(n, u.db) /\ u.out = k.out /\ Speaks(u, t, FALSE, FALSE)
  BY <1>9
<1>11. Follows(k.out, t.out)
  BY <1>8 DEF Speaks
<1>12. \A x : Warned(later, x) = Since(u.out, t.out, x)
  BY <1>5, <1>10, <1>11, SinceHeard
<1> HIDE DEF later
<1>13. Recalls(Heard(n, later, t.mem.day_key), t.db)
  BY <1>10, <1>12, HeardRecalls
<1>14. CASE t.out = <<>> /\ ~timerGrew /\ ~dayGrew
  <2>1. Speaks(k, t, FALSE, FALSE)
    BY <1>8, <1>14 DEF Speaks
  <2>2. Marked(S, k) /\ Marked(k, t)
    BY <1>3, <2>1, SpeaksMarked
  <2>3. Recalls(said, t.db)
    BY <1>3, <2>2, MarkedTrans, RecallsMarked
  <2> QED BY <1>1, <1>4, <1>14, <2>3
<1> QED BY <1>1, <1>4, <1>13, <1>14

\* A tick grants nothing.
LEMMA TickAdjustment ==
  ASSUME NEW s, Good(s), NEW c \in ConfigType, wall \in Wall, mono \in Nat
  PROVE  Tick(s, c).db.adjustment = s.db.adjustment
<1> DEFINE n == NoteClock(s)
           a == AccountElapsed(n, c)
           e == TimerElapse(a, c)
           r == CheckpointRow(e, c)
           f == CheckpointFlush(r, c)
           p == PersistTimer(f, c)
           w == warning_events(p, c, warning_snapshot(s, c))
           x == refresh_restriction(w, c)
<1>1. Good(n) /\ n \in State /\ n.db = s.db
  BY NoteClockGood, NoteClockFrame DEF Good
<1> HIDE DEF n
<1>2. Good(a) /\ a.db.adjustment = n.db.adjustment
  BY <1>1, AccountElapsedGood, AccountElapsedFrame
<1> HIDE DEF a
<1>3. Good(e) /\ e.db.adjustment = a.db.adjustment
  BY <1>2, TimerElapseGood, TimerElapseFrame DEF Good
<1> HIDE DEF e
<1>4. Good(r) /\ r.db.adjustment = e.db.adjustment
  BY <1>3, CheckpointRowGood, CheckpointRowFrame DEF Good, Balanced
<1> HIDE DEF r
<1>5. Good(f) /\ f.db.adjustment = r.db.adjustment
  BY <1>4, CheckpointFlushGood, CheckpointFlushFrame DEF Good, PolicyView
<1> HIDE DEF f
<1>6. Good(p) /\ p.db.adjustment = f.db.adjustment
  BY <1>5, PersistTimerGood, PersistFrame DEF Good, PolicyView
<1> HIDE DEF p
<1>7. x \in State /\ x.db.adjustment = p.db.adjustment
  BY <1>6, WarnedFrame DEF Unmoved, PolicyView, w
<1> HIDE DEF x
<1>8. SetBaselines(x).db = x.db
  BY <1>7, BaselinesFrame
<1> QED BY <1>1, <1>2, <1>3, <1>4, <1>5, <1>6, <1>7, <1>8
        DEF Tick, TickRecord, x, w, p, f, r, e, a, n

\* A handler that announces what its tick does and clears no marks.
LEMMA SilentRecalls ==
  ASSUME SaidInv, Running, NEW t \in State, Step(t), Silent(Ticked, t) \/ t = Ticked,
         Hear(FALSE, FALSE)
  PROVE  Recalls(said', db')
<1>1. Ticked \in State
  BY TickedGood DEF SaidInv, Good
<1>2. Speaks(Ticked, t, FALSE, FALSE)
  BY <1>1, SameVoice, SilentSpeaks
<1> QED BY <1>2, HearRecalls

\* timer.adjust clears no marks of a day.
LEMMA AdjustCutMarks ==
  ASSUME NEW s, Good(s), s.mem.timer.state # "idle", NEW n \in Adjustments
  PROVE  AdjustCut(s, n).db.daily_marks = s.db.daily_marks
<1> DEFINE t == save_timer([s EXCEPT !.mem.timer = Adjusted(@, n)])
<1>1. s \in State /\ s.mem.timer \in Timer /\ TimerConsistent(s.mem.timer) /\ n \in Int
  BY Fields, TimerAssumption DEF Good, Behind
<1>2. Adjusted(s.mem.timer, n) \in Timer
  BY <1>1, AdjustedType
<1>3. t = save_timer([s EXCEPT !.mem.timer = Adjusted(s.mem.timer, n)])
  BY <1>1 DEF State
<1>4. t \in State /\ t.db.daily_marks = s.db.daily_marks
  BY <1>1, <1>2, <1>3, SaveSilent DEF Silent
<1> HIDE DEF t
<1>5. ClearTimerMarks(t).db.daily_marks = t.db.daily_marks
  BY <1>4 DEF ClearTimerMarks, State, Db
<1> QED BY <1>4, <1>5 DEF AdjustCut, t

\* Every step keeps what was said within what is marked: one case per action.
LEMMA NextRecalls == SaidInv /\ [AuditNext]_auditVars => Recalls(said', db')
<1> SUFFICES ASSUME SaidInv, [AuditNext]_auditVars PROVE Recalls(said', db')
  OBVIOUS
<1> USE DEF Commit
<1>0. /\ IInv /\ C \in ConfigType /\ wall \in Wall /\ mono \in Nat
      /\ Recalls(said, db) /\ db \in Db /\ TimerConsistent(db.timer)
  BY ConfigAssumption DEF SaidInv, IInv, TypeOK, TimerRowAgrees, C
<1>a. Running => Good(Ticked) /\ Ticked \in State /\ Good(S) /\ S \in State /\ S.db = db
  BY <1>0, TickedGood, RunningGood DEF Good
<1>1. CASE Advance /\ Quiet
  BY <1>0, <1>1 DEF Advance, Quiet
<1>2. CASE SetWall /\ Quiet
  BY <1>0, <1>2 DEF SetWall, Quiet
<1>3. CASE Crash /\ Quiet
  <2>1. PICK t \in CrashStages(S, C) : db' = t.db
    BY <1>3 DEF Crash
  <2>2. Marked(S, t)
    BY <1>0, <1>a, <1>3, CrashMarked DEF Crash
  <2>3. Recalls(said, t.db)
    BY <1>0, <1>a, <1>3, <2>2, RecallsMarked DEF Crash
  <2> QED BY <1>3, <2>1, <2>3 DEF Quiet
<1>4. CASE UpdateDies /\ Quiet
  <2>1. PICK p \in Profiles : \E t \in UpdateStages(S, C, Config[p]) : db' = t.db
    BY <1>4 DEF UpdateDies
  <2>2. PICK t \in UpdateStages(S, C, Config[p]) : db' = t.db
    BY <2>1
  <2>3. Config[p] \in ConfigType
    BY ConfigAssumption
  <2>4. Marked(S, t)
    BY <1>0, <1>a, <1>4, <2>3, UpdateStagesMarked DEF UpdateDies
  <2>5. Recalls(said, t.db)
    BY <1>0, <1>a, <1>4, <2>4, RecallsMarked DEF UpdateDies
  <2> QED BY <1>4, <2>2, <2>5 DEF Quiet
<1>5. CASE (Boot \/ BootDies) /\ Quiet
  <2> DEFINE s == Loaded(db, C)
  <2>1. s.db = db /\ Marked(s, RecoverSession(s)) /\ Marked(s, boot(db, C))
    BY <1>0, BootMarked
  <2>2. db' = RecoverSession(s).db \/ db' = boot(db, C).db
    BY <1>5 DEF Boot, BootDies, Step
  <2> HIDE DEF s
  <2>3. Recalls(said, RecoverSession(s).db) /\ Recalls(said, boot(db, C).db)
    BY <1>0, <2>1, RecallsMarked
  <2> QED BY <1>5, <2>2, <2>3 DEF Quiet
<1>6. CASE Shutdown /\ Quiet
  <2>1. Speaks(S, Ticked, FALSE, FALSE)
    BY <1>0, <1>a, <1>6, TickSpeaks DEF Shutdown, Ticked
  <2>2. Marked(S, Ticked) /\ Marked(Ticked, shutdown(Ticked))
    BY <1>a, <1>6, <2>1, SpeaksMarked, ShutdownMarked DEF Shutdown
  <2>3. Recalls(said, Ticked.db)
    BY <1>0, <1>a, <1>6, <2>2, RecallsMarked DEF Shutdown
  <2>4. Recalls(said, shutdown(Ticked).db)
    BY <2>2, <2>3, RecallsMarked
  <2> QED BY <1>6, <2>4 DEF Shutdown, Quiet
<1>7. CASE RestartCheckpoint /\ Quiet
  <2>1. Marked(S, S) /\ Marked(S, checkpoint_session(S))
    BY <1>a, <1>7, CheckpointSilent, SilentMarked DEF RestartCheckpoint, Marked
  <2>2. Recalls(said, S.db) /\ Recalls(said, checkpoint_session(S).db)
    BY <1>0, <1>a, <1>7, <2>1, RecallsMarked DEF RestartCheckpoint
  <2>3. db' = S.db \/ db' = checkpoint_session(S).db
    BY <1>7 DEF RestartCheckpoint, Step
  <2> QED BY <1>7, <2>2, <2>3 DEF Quiet
<1>8. CASE /\ ClearHistory
           /\ said' = IF db.open = None THEN [Nothing EXCEPT !.repeated = said.repeated]
                      ELSE said
  <2> DEFINE t == clear_history(S)
             n == [Nothing EXCEPT !.repeated = said.repeated]
  <2>1. db' = t.db /\ S.db = db /\ S \in State
    BY <1>a, <1>8 DEF ClearHistory, Step
  <2>2. CASE db.open # None
    <3>1. t = S
      BY <2>1, <2>2 DEF clear_history
    <3> QED BY <1>0, <1>8, <2>1, <2>2, <3>1
  <2>3. CASE db.open = None
    <3>1. /\ t.db.timer_marks = {}
          /\ t.db.daily_marks = [d \in Days |-> {}]
      BY <2>1, <2>3 DEF clear_history, State, Db
    <3>2. ~said.repeated
      BY <1>0 DEF Recalls
    <3>3. n = [timer |-> {}, daily |-> [d \in Days |-> {}], repeated |-> said.repeated]
      BY DEF Nothing
    <3>4. said.repeated \in BOOLEAN
      BY <1>0 DEF Recalls, Hears
    <3> HIDE DEF t, n
    <3>5. n \in Hears /\ n.timer = {} /\ n.daily = [d \in Days |-> {}] /\ ~n.repeated
      BY <3>2, <3>3, <3>4 DEF Hears
    <3>6. Recalls(n, t.db)
      BY <3>1, <3>5 DEF Recalls
    <3> QED BY <1>8, <2>1, <2>3, <3>6 DEF n
  <2> QED BY <2>2, <2>3
<1>9. CASE (TickLoop \/ GameReported \/ GameCleared \/ Suspend \/ Resume
            \/ PauseTimer \/ ResumeTimer) /\ Hear(FALSE, FALSE)
  <2>0. Running
    BY <1>9 DEF TickLoop, GameReported, GameCleared, Suspend, Resume, PauseTimer, ResumeTimer
  <2>1. CASE TickLoop
    BY <1>a, <1>9, <2>0, <2>1, SilentRecalls DEF TickLoop
  <2>2. CASE GameReported
    <3>1. PICK g \in Games : Step(set_game(Ticked, g))
      BY <2>2 DEF GameReported
    <3>2. set_game(Ticked, g) \in State /\ Silent(Ticked, set_game(Ticked, g))
      BY <1>0, <1>a, <2>0, SetGameGood, SetGameSilent DEF Good
    <3> QED BY <1>9, <2>0, <3>1, <3>2, SilentRecalls
  <2>3. CASE GameCleared
    <3>1. stop_game(Ticked, C) \in State /\ Silent(Ticked, stop_game(Ticked, C))
      BY <1>0, <1>a, <2>0, StopGameGood, StopGameSilent DEF Good
    <3> QED BY <1>9, <2>0, <2>3, <3>1, SilentRecalls DEF GameCleared
  <2>4. CASE Suspend
    <3>1. suspend(Ticked) \in State /\ Silent(Ticked, suspend(Ticked))
      BY <1>a, <2>0, SuspendGood, SuspendSilent DEF Good
    <3> QED BY <1>9, <2>0, <2>4, <3>1, SilentRecalls DEF Suspend
  <2>5. CASE Resume
    <3>1. resume(Ticked, C) \in State /\ Silent(Ticked, resume(Ticked, C))
      BY <1>0, <1>a, <2>0, ResumeGood, ResumeSilent DEF Good
    <3> QED BY <1>9, <2>0, <2>5, <3>1, SilentRecalls DEF Resume
  <2>6. CASE PauseTimer
    <3>1. pause_timer(Ticked) \in State /\ Silent(Ticked, pause_timer(Ticked))
      BY <1>a, <2>0, PauseTimerGood, PauseSilent DEF Good
    <3> QED BY <1>9, <2>0, <2>6, <3>1, SilentRecalls DEF PauseTimer
  <2>7. CASE ResumeTimer
    <3>1. resume_timer(Ticked) \in State /\ Silent(Ticked, resume_timer(Ticked))
      BY <1>a, <2>0, ResumeTimerGood, ResumeTimerSilent DEF Good
    <3> QED BY <1>9, <2>0, <2>7, <3>1, SilentRecalls DEF ResumeTimer
  <2> QED BY <1>9, <2>1, <2>2, <2>3, <2>4, <2>5, <2>6, <2>7
<1>10. CASE StartTimer /\ Hear(Happened("timer.started"), FALSE)
  <2>1. PICK n \in TimerDurations, a \in TimerActions : Step(start_timer(Ticked, n, a))
    BY <1>10 DEF StartTimer
  <2> DEFINE t == start_timer(Ticked, n, a)
  <2>2. Running /\ t \in State
    BY <1>a, <1>10, StartTimerGood DEF StartTimer, Good
  <2>3. Silent(Ticked, t) \/ (Speaks(Ticked, t, TRUE, FALSE) /\ Says(t, "timer.started"))
    BY <1>a, <2>2, StartTimerSpeaks
  <2>4. Step(t) /\ out' = t.out
    BY <2>1 DEF Step
  <2> HIDE DEF t
  <2>5. CASE Happened("timer.started")
    <3>1. Hear(TRUE, FALSE)
      BY <1>10, <2>5 DEF Hear
    <3>2. Speaks(Ticked, t, TRUE, FALSE)
      BY <1>a, <2>2, <2>3, SilentSpeaks
    <3> QED BY <2>2, <2>4, <3>1, <3>2, HearRecalls
  <2>6. CASE ~Happened("timer.started")
    <3>1. Hear(FALSE, FALSE)
      BY <1>10, <2>6 DEF Hear, Renewed
    <3>2. Silent(Ticked, t)
      BY <2>3, <2>4, <2>6 DEF Says, Happened
    <3> QED BY <2>2, <2>4, <3>1, <3>2, SilentRecalls
  <2> QED BY <2>5, <2>6
<1>11. CASE CancelTimer /\ Hear(Happened("timer.cancelled"), FALSE)
  <2> DEFINE t == cancel_timer(Ticked, C)
  <2>1. Running /\ t \in State
    BY <1>0, <1>a, <1>11, CancelTimerGood DEF CancelTimer, Good
  <2>2. Silent(Ticked, t) \/ (Speaks(Ticked, t, TRUE, FALSE) /\ Says(t, "timer.cancelled"))
    BY <1>0, <1>a, <2>1, CancelSpeaks
  <2>3. Step(t) /\ out' = t.out
    BY <1>11 DEF CancelTimer, Step
  <2> HIDE DEF t
  <2>4. CASE Happened("timer.cancelled")
    <3>1. Hear(TRUE, FALSE)
      BY <1>11, <2>4 DEF Hear
    <3>2. Speaks(Ticked, t, TRUE, FALSE)
      BY <1>a, <2>1, <2>2, SilentSpeaks
    <3> QED BY <2>1, <2>3, <3>1, <3>2, HearRecalls
  <2>5. CASE ~Happened("timer.cancelled")
    <3>1. Hear(FALSE, FALSE)
      BY <1>11, <2>5 DEF Hear, Renewed
    <3>2. Silent(Ticked, t)
      BY <2>2, <2>3, <2>5 DEF Says, Happened
    <3> QED BY <2>1, <2>3, <3>1, <3>2, SilentRecalls
  <2> QED BY <2>4, <2>5
<1>12. CASE AdjustTimer /\ Hear(Extended, FALSE)
  <2>1. PICK n \in Adjustments : Step(adjust_timer(Ticked, C, n))
    BY <1>12 DEF AdjustTimer
  <2> DEFINE t == adjust_timer(Ticked, C, n)
  <2>2. Running /\ t \in State
    BY <1>0, <1>a, <1>12, AdjustTimerGood DEF AdjustTimer, Good
  <2>3. \/ Speaks(Ticked, t, FALSE, FALSE)
        \/ /\ Speaks(Ticked, t, TRUE, FALSE)
           /\ Says(t, "timer.adjusted")
           /\ t.mem.timer.remaining > 0
           /\ t.mem.timer.remaining >= Ticked.mem.timer.remaining
    BY <1>0, <1>a, <2>2, AdjustSpeaks
  <2>4. Step(t) /\ out' = t.out /\ mem' = t.mem
    BY <2>1 DEF Step
  <2> HIDE DEF t
  <2>5. CASE Extended
    <3>1. Hear(TRUE, FALSE)
      BY <1>12, <2>5 DEF Hear
    <3>2. Speaks(Ticked, t, TRUE, FALSE) \/ Speaks(Ticked, t, FALSE, FALSE)
      BY <2>3
    <3> QED BY <2>2, <2>4, <3>1, <3>2, HearRecalls
  <2>6. CASE ~Extended
    <3>1. Hear(FALSE, FALSE)
      BY <1>12, <2>6 DEF Hear, Renewed
    <3>2. Speaks(Ticked, t, FALSE, FALSE)
      BY <2>3, <2>4, <2>6 DEF Says, Happened, Extended
    <3> QED BY <2>2, <2>4, <3>1, <3>2, HearRecalls
  <2> QED BY <2>5, <2>6
<1>13. CASE /\ GrantDailyTime
            /\ Hear(FALSE, \E d \in Days : db'.adjustment[d] > db.adjustment[d])
  <2>1. PICK n \in Grants : Step(grant_daily_time(Ticked, C, n))
    BY <1>13 DEF GrantDailyTime
  <2> DEFINE t     == grant_daily_time(Ticked, C, n)
             day   == Ticked.mem.day_key
             grew  == \E d \in Days : db'.adjustment[d] > db.adjustment[d]
  <2>2. Running /\ t \in State /\ day \in Days
    BY <1>0, <1>a, <1>13, GrantGood, Fields DEF GrantDailyTime, Good
  <2>3. \/ Speaks(Ticked, t, FALSE, FALSE)
        \/ /\ Speaks(Ticked, t, FALSE, TRUE)
           /\ t.db.adjustment[day] > Ticked.db.adjustment[day]
    BY <1>0, <1>a, <2>2, GrantSpeaks
  <2>4. Step(t) /\ db' = t.db
    BY <2>1 DEF Step
  <2>5. Ticked.db.adjustment = db.adjustment
    BY <1>0, <1>a, <2>2, TickAdjustment DEF Ticked
  <2> HIDE DEF t
  <2>6. CASE grew
    <3>1. Hear(FALSE, TRUE)
      BY <1>13, <2>6 DEF Hear
    <3>2. Speaks(Ticked, t, FALSE, TRUE) \/ Speaks(Ticked, t, FALSE, FALSE)
      BY <2>3
    <3> QED BY <2>2, <2>4, <3>1, <3>2, HearRecalls
  <2>7. CASE ~grew
    <3>1. Hear(FALSE, FALSE)
      BY <1>13, <2>7 DEF Hear
    <3>2. Speaks(Ticked, t, FALSE, FALSE)
      BY <2>2, <2>3, <2>4, <2>5, <2>7
    <3> QED BY <2>2, <2>4, <3>1, <3>2, HearRecalls
  <2> QED BY <2>6, <2>7
<1>14. CASE /\ UpdateConfig
            /\ Hear(FALSE, /\ DailyLeft(Ticked, C) # None
                           /\ DailyLeft(S', C') # None
                           /\ DailyLeft(S', C') > DailyLeft(Ticked, C))
  <2>1. PICK p \in Profiles : cfg' = p /\ Step(update_config(Ticked, C, Config[p]))
    BY <1>14 DEF UpdateConfig
  <2> DEFINE t    == update_config(Ticked, C, Config[p])
             grew == /\ DailyLeft(Ticked, C) # None
                     /\ DailyLeft(S', C') # None
                     /\ DailyLeft(S', C') > DailyLeft(Ticked, C)
  <2>2. Config[p] \in ConfigType
    BY ConfigAssumption
  <2>3. Running /\ t \in State
    BY <1>0, <1>a, <1>14, <2>2, UpdateConfigGood DEF UpdateConfig, Good
  <2>4. \/ Speaks(Ticked, t, FALSE, FALSE)
        \/ /\ Speaks(Ticked, t, FALSE, TRUE)
           /\ DailyLeft(Ticked, C) # None /\ DailyLeft(t, Config[p]) # None
           /\ DailyLeft(t, Config[p]) > DailyLeft(Ticked, C)
    BY <1>0, <1>a, <2>2, <2>3, UpdateSpeaks
  <2>5. Step(t) /\ mem' = t.mem /\ db' = t.db /\ C' = Config[p]
    BY <2>1 DEF Step, C
  <2>6. DailyLeft(S', C') = DailyLeft(t, Config[p])
    <3>1. PolicyView(S') = PolicyView(t)
      BY <2>5 DEF S, PolicyView
    <3> QED BY <2>5, <3>1, SameLeft DEF DailyLeft
  <2> HIDE DEF t
  <2>7. CASE grew
    <3>1. Hear(FALSE, TRUE)
      BY <1>14, <2>7 DEF Hear
    <3>2. Speaks(Ticked, t, FALSE, TRUE) \/ Speaks(Ticked, t, FALSE, FALSE)
      BY <2>4
    <3> QED BY <2>3, <2>5, <3>1, <3>2, HearRecalls
  <2>8. CASE ~grew
    <3>1. Hear(FALSE, FALSE)
      BY <1>14, <2>8 DEF Hear
    <3>2. Speaks(Ticked, t, FALSE, FALSE)
      BY <2>4, <2>6, <2>8
    <3> QED BY <2>3, <2>5, <3>1, <3>2, HearRecalls
  <2> QED BY <2>7, <2>8
<1>15. CASE AdjustDies /\ said' = [said EXCEPT !.timer = {}]
  <2>1. PICK n \in Adjustments : db' = AdjustCut(Ticked, n).db
    BY <1>15 DEF AdjustDies
  <2>2. AdjustCut(Ticked, n).db.daily_marks = Ticked.db.daily_marks
    BY <1>a, <1>15, AdjustCutMarks DEF AdjustDies
  <2>3. Speaks(S, Ticked, FALSE, FALSE)
    BY <1>0, <1>a, <1>15, TickSpeaks DEF AdjustDies, Ticked
  <2>4. Marked(S, Ticked)
    BY <1>a, <1>15, <2>3, SpeaksMarked DEF AdjustDies
  <2>5. Recalls(said, Ticked.db)
    BY <1>0, <1>a, <1>15, <2>4, RecallsMarked DEF AdjustDies
  <2>6. /\ said' \in Hears /\ said'.timer = {}
        /\ said'.daily = said.daily /\ said'.repeated = said.repeated
    BY <1>0, <1>15 DEF Recalls, Hears
  <2> QED BY <2>1, <2>2, <2>5, <2>6 DEF Recalls
<1>16. CASE UNCHANGED auditVars
  BY <1>0, <1>16 DEF auditVars, vars
<1> QED
  BY <1>1, <1>2, <1>3, <1>4, <1>5, <1>6, <1>7, <1>8, <1>9, <1>10, <1>11, <1>12, <1>13,
     <1>14, <1>15, <1>16 DEF AuditNext

\* No warning of the timer or of a day is announced twice unless time was added
\* in between.  Whatever the observer heard is marked in the database, in the same
\* commit order in which it was announced: that is what a crash cannot undo.
THEOREM WarningsAreNotRepeated == AuditSpec => []WarnedOnce
<1>1. AuditInit => SaidInv
  <2> SUFFICES ASSUME AuditInit PROVE SaidInv
    OBVIOUS
  <2>1. IInv
    BY InitIInv DEF AuditInit
  <2>2. /\ said = Nothing
        /\ db.timer_marks = {} /\ db.daily_marks = [d \in Days |-> {}]
    BY DEF AuditInit, Init
  <2>3. Nothing \in Hears /\ Nothing.timer = {} /\ Nothing.daily = [d \in Days |-> {}]
        /\ ~Nothing.repeated
    BY DEF Nothing, Hears
  <2>4. Recalls(said, db)
    BY <2>2, <2>3 DEF Recalls
  <2> QED BY <2>1, <2>4 DEF SaidInv
<1>2. [AuditNext]_auditVars => [Next]_vars
  BY DEF AuditNext, Next, auditVars, vars
<1>3. SaidInv /\ [AuditNext]_auditVars => SaidInv'
  <2>1. SaidInv /\ [AuditNext]_auditVars => IInv'
    BY <1>2, NextIInv DEF SaidInv
  <2> QED BY <2>1, NextRecalls DEF SaidInv
<1>4. SaidInv => WarnedOnce
  BY DEF SaidInv, Recalls, WarnedOnce
<1> QED BY <1>1, <1>3, <1>4, PTL DEF AuditSpec

=============================================================================
