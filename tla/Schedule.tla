------------------------------ MODULE Schedule ------------------------------
(***************************************************************************)
(* The accounting day and the allowed periods (schedule.py), in a zone     *)
(* whose clock is put forward or back once, as daylight saving time does.  *)
(*                                                                         *)
(* Instants of UTC are numbers of slots; a day has DayLength of them.  A   *)
(* reading of the local clock is a number of slots too: its quotient by    *)
(* DayLength is the date, its remainder the time of day.                   *)
(***************************************************************************)
EXTENDS Integers, FiniteSets

CONSTANTS
    DayLength,    \* slots of a day
    Second,       \* slots of a second
    WeekLength,   \* days of a week
    MaxInstant,   \* bound on the clock
    Zones,        \* offsets before and after a transition
    Resets,       \* values of reset_at
    Schedules     \* values of allowed_periods

ASSUME LengthAssumption ==
    DayLength \in Nat \ {0} /\ Second \in Nat \ {0} /\ WeekLength \in Nat \ {0}
ASSUME ZoneAssumption ==
    \A z \in Zones : /\ z.at \in Nat /\ z.before \in Int /\ z.after \in Int
                     /\ z.after - z.before < DayLength /\ z.before - z.after < DayLength
ASSUME ResetAssumption == Resets \subseteq 0 .. DayLength - 1
ASSUME PeriodAssumption ==
    \A s \in Schedules : \A p \in s : p.start \in 0 .. DayLength - 1 /\ p.end \in 0 .. DayLength - 1

VARIABLES
    now,       \* UTC
    zone,      \* daily_limits.timezone
    reset,     \* daily_limits.reset_at
    periods    \* daily_limits.allowed_periods

vars == <<now, zone, reset, periods>>

Larger(m, n)  == IF m > n THEN m ELSE n
Smaller(m, n) == IF m < n THEN m ELSE n

-----------------------------------------------------------------------------
\* local_datetime
local_datetime(i) == i + IF i < zone.at THEN zone.before ELSE zone.after

\* ZoneInfo.utcoffset with fold=0, external: a reading that does not occur, or
\* that occurs twice, has the offset from before the transition.
OffsetOfReading(r) ==
    IF r < zone.at + Larger(zone.before, zone.after) THEN zone.before ELSE zone.after

DateOf(r) == r \div DayLength
TimeOf(r) == r % DayLength

\* Faulty variant: the reset itself belongs to the day before.
accounting_day_late(i) ==
    LET r == local_datetime(i)
    IN  IF TimeOf(r) <= reset THEN DateOf(r) - 1 ELSE DateOf(r)

\* accounting_day
accounting_day(i) ==
    LET r == local_datetime(i)
    IN  IF TimeOf(r) < reset THEN DateOf(r) - 1 ELSE DateOf(r)

ResetReading(d) == d * DayLength + reset

\* Faulty variant: the offset of this moment is used for every day.
accounting_day_start_fixed(d) == ResetReading(d) - (local_datetime(now) - now)

\* accounting_day_start.  Where the round trip changes the reading, the code
\* returns the same instant by another way.
accounting_day_start(d) == ResetReading(d) - OffsetOfReading(ResetReading(d))

\* Faulty variant: it counts to the next midnight plus the reset clock.
seconds_until_reset_by_date(i) ==
    Larger(0, (accounting_day_start(DateOf(local_datetime(i)) + 1) - i) \div Second)

\* seconds_until_reset, in whole seconds
seconds_until_reset(i) ==
    Larger(0, (accounting_day_start(accounting_day(i) + 1) - i) \div Second)

Weekday(d) == d % WeekLength

\* Faulty variant: the part after midnight asks for its own day.
WithinOnOwnDay(p, r) ==
    IF p.start <= p.end
    THEN Weekday(DateOf(r)) \in p.days /\ p.start <= TimeOf(r) /\ TimeOf(r) < p.end
    ELSE Weekday(DateOf(r)) \in p.days /\ (TimeOf(r) >= p.start \/ TimeOf(r) < p.end)

\* within_allowed_period for one period and a local reading.
Within(p, r) ==
    IF p.start <= p.end
    THEN Weekday(DateOf(r)) \in p.days /\ p.start <= TimeOf(r) /\ TimeOf(r) < p.end
    ELSE \/ Weekday(DateOf(r)) \in p.days /\ TimeOf(r) >= p.start
         \/ Weekday(DateOf(r) - 1) \in p.days /\ TimeOf(r) < p.end

within_allowed_period(i) ==
    periods = {} \/ \E p \in periods : Within(p, local_datetime(i))

-----------------------------------------------------------------------------
Init ==
    /\ now = 0
    /\ zone \in Zones
    /\ reset \in Resets
    /\ periods \in Schedules

\* Time passes.
Tick ==
    /\ now < MaxInstant
    /\ now' = now + 1
    /\ UNCHANGED <<zone, reset, periods>>

\* The owner changes reset_at (config.update).
ResetChanged ==
    /\ reset' \in Resets \ {reset}
    /\ UNCHANGED <<now, zone, periods>>

Next == Tick \/ ResetChanged

Spec == Init /\ [][Next]_vars

-----------------------------------------------------------------------------
(* Properties *)

\* The readings that the transition skips or repeats, its ends excluded, and the days
\* whose reset is not among them.
Disturbed == zone.at + Smaller(zone.before, zone.after) + 1
             .. zone.at + Larger(zone.before, zone.after) - 1
Plain(d) == ResetReading(d) \notin Disturbed

\* accounting_day and accounting_day_start, which the engine uses together to
\* split the time played at a reset, agree: every instant lies between the start
\* of its day and the start of the next.  A day whose reset clock falls inside the
\* hour that daylight saving skips or repeats is left out: in the skipped hour it
\* begins before its start, which is not the "first representable local instant after
\* the gap" of schedule.py:88; in the repeated one it comes twice.
DayIsInterval ==
    LET d == accounting_day(now)
    IN  /\ Plain(d) => accounting_day_start(d) <= now
        /\ Plain(d + 1) => now < accounting_day_start(d + 1)

\* The start of a day lies in it, also where the reset clock does not exist.
StartLiesInDay ==
    LET d == accounting_day(now) IN accounting_day(accounting_day_start(d)) = d

\* The countdown shown and used for next_reset, in whole seconds, ends where the next
\* day begins: the day does not change before it has run out, and changes less than a
\* second later.
CountdownIsExact ==
    LET d == accounting_day(now)
        end == now + seconds_until_reset(now) * Second
    IN  Plain(d) /\ Plain(d + 1) =>
          \E i \in end .. end + Second - 1 :
             /\ i > now /\ accounting_day(i) = d + 1
             /\ \A j \in now .. i - 1 : accounting_day(j) = d

\* schedule.py:134, "days identifies the day on which an overnight interval
\* starts": play is allowed when some period, begun on one of its days less than a
\* week away, has begun and not ended.
Begun(p, d) == d * DayLength + p.start
Ended(p, d) == d * DayLength + p.end + IF p.end < p.start THEN DayLength ELSE 0
DaysAround(r) == DateOf(r) - WeekLength .. DateOf(r) + WeekLength
AllowedInPeriods ==
    within_allowed_period(now) =
        \/ periods = {}
        \/ \E p \in periods, d \in DaysAround(local_datetime(now)) :
                /\ Weekday(d) \in p.days
                /\ Begun(p, d) <= local_datetime(now)
                /\ local_datetime(now) < Ended(p, d)

=============================================================================
