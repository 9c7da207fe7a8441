--------------------------- MODULE ScheduleProofs ---------------------------
(***************************************************************************)
(* Proofs about the accounting day and the allowed periods, for every      *)
(* length of the day and the week, every transition of the clock shorter   *)
(* than a day, every reset clock and every set of periods.                 *)
(*                                                                         *)
(* A reading r belongs to day d exactly when it lies between the reset of  *)
(* d and that of d + 1 (DayOfReading).  The rest compares instants and     *)
(* readings on the two sides of the transition.                            *)
(***************************************************************************)
EXTENDS Schedule, TLAPS

\* The values the state can have.
TypeOK ==
    /\ now \in Nat
    /\ zone \in Zones
    /\ reset \in Resets
    /\ periods \in Schedules

-----------------------------------------------------------------------------
(* Division by the length of the day *)

\* Quotient and remainder.
LEMMA DivMod ==
    ASSUME NEW n \in Nat \ {0}, NEW r \in Int
    PROVE  /\ r \div n \in Int /\ r % n \in 0 .. n - 1
           /\ r = n * (r \div n) + (r % n)
OBVIOUS

\* A larger quotient takes a whole divisor more.
LEMMA MultipleStep ==
    ASSUME NEW n \in Nat \ {0}, NEW a \in Int, NEW b \in Int, a < b
    PROVE  a * n \in Int /\ b * n \in Int /\ a * n + n <= b * n
<1>1. a * n \in Int /\ b * n \in Int
  OBVIOUS
<1>2. PICK k \in Nat : b = a + 1 + k
  <2>1. b - a - 1 \in Nat /\ b = a + 1 + (b - a - 1)
    OBVIOUS
  <2>2. QED
    BY <2>1
<1>3. b * n = a * n + n + k * n
  BY <1>2
<1>4. k * n >= 0
  OBVIOUS
<1>5. QED
  BY <1>1, <1>3, <1>4

\* Quotient and remainder are the only ones.
LEMMA DivModUnique ==
    ASSUME NEW n \in Nat \ {0}, NEW q \in Int, NEW t \in 0 .. n - 1
    PROVE  (q * n + t) \div n = q /\ (q * n + t) % n = t
<1> DEFINE r == q * n + t
<1> DEFINE d == r \div n
<1> DEFINE m == r % n
<1>1. r \in Int
  OBVIOUS
<1>2. d \in Int /\ m \in 0 .. n - 1 /\ q * n + t = d * n + m
  BY <1>1, DivMod
<1> HIDE DEF r, d, m
<1>3. ~ d < q
  BY <1>2, MultipleStep
<1>4. ~ q < d
  BY <1>2, MultipleStep
<1>5. d = q
  BY <1>2, <1>3, <1>4
<1>6. m = t
  BY <1>2, <1>5
<1>7. QED
  BY <1>5, <1>6 DEF r, d, m

\* Date and time of day of a reading.
LEMMA DateAndTime ==
    ASSUME NEW r \in Int
    PROVE  /\ DateOf(r) \in Int /\ TimeOf(r) \in 0 .. DayLength - 1
           /\ DateOf(r) * DayLength \in Int
           /\ r = DateOf(r) * DayLength + TimeOf(r)
BY DivMod, LengthAssumption DEF DateOf, TimeOf

-----------------------------------------------------------------------------
(* The accounting day of a reading *)

DayOf(r) == IF TimeOf(r) < reset THEN DateOf(r) - 1 ELSE DateOf(r)

\* The reset clock of one day and of the next.
LEMMA ResetReadings ==
    ASSUME TypeOK, NEW d \in Int
    PROVE  /\ reset \in 0 .. DayLength - 1
           /\ ResetReading(d) \in Int /\ TimeOf(ResetReading(d)) = reset
           /\ ResetReading(d + 1) = ResetReading(d) + DayLength
<1>1. reset \in 0 .. DayLength - 1
  BY ResetAssumption DEF TypeOK
<1>2. d * DayLength \in Int /\ (d + 1) * DayLength = d * DayLength + DayLength
  BY LengthAssumption
<1>3. TimeOf(ResetReading(d)) = reset
  BY <1>1, LengthAssumption, DivModUnique DEF TimeOf, ResetReading
<1>4. QED
  BY <1>1, <1>2, <1>3, LengthAssumption DEF ResetReading

\* accounting_day: a reading lies between the reset of its day and the next.
LEMMA DayBracket ==
    ASSUME TypeOK, NEW r \in Int
    PROVE  /\ DayOf(r) \in Int
           /\ ResetReading(DayOf(r)) <= r
           /\ r < ResetReading(DayOf(r) + 1)
<1> DEFINE q == DateOf(r)
<1> DEFINE t == TimeOf(r)
<1>1. /\ q \in Int /\ t \in 0 .. DayLength - 1 /\ q * DayLength \in Int
      /\ r = q * DayLength + t
  BY DateAndTime
<1>2. reset \in 0 .. DayLength - 1
  BY ResetAssumption DEF TypeOK
<1>3. (q - 1) * DayLength = q * DayLength - DayLength
      /\ (q + 1) * DayLength = q * DayLength + DayLength
  BY <1>1, LengthAssumption
<1>4. DayOf(r) = IF t < reset THEN q - 1 ELSE q
  BY DEF DayOf
<1> HIDE DEF q, t
<1>5. CASE t < reset
  <2>1. DayOf(r) = q - 1 /\ DayOf(r) + 1 = q
    BY <1>1, <1>4, <1>5
  <2>2. QED
    BY <1>1, <1>2, <1>3, <1>5, <2>1, LengthAssumption DEF ResetReading
<1>6. CASE ~(t < reset)
  <2>1. DayOf(r) = q
    BY <1>4, <1>6
  <2>2. QED
    BY <1>1, <1>2, <1>3, <1>6, <2>1, LengthAssumption DEF ResetReading
<1>7. QED
  BY <1>5, <1>6

\* ... and no other day has it between its resets.
LEMMA DayUnique ==
    ASSUME TypeOK, NEW r \in Int, NEW d \in Int,
           ResetReading(d) <= r, r < ResetReading(d + 1)
    PROVE  DayOf(r) = d
<1> DEFINE e == DayOf(r)
<1>1. e \in Int /\ ResetReading(e) <= r /\ r < ResetReading(e + 1)
  BY DayBracket
<1> HIDE DEF e
<1>2. /\ ResetReading(d + 1) = ResetReading(d) + DayLength
      /\ ResetReading(e + 1) = ResetReading(e) + DayLength
  BY <1>1, ResetReadings
<1>3. reset \in Nat
  BY ResetReadings, LengthAssumption
<1>4. ~ d < e
  BY <1>1, <1>2, <1>3, MultipleStep, LengthAssumption DEF ResetReading
<1>5. ~ e < d
  BY <1>1, <1>2, <1>3, MultipleStep, LengthAssumption DEF ResetReading
<1>6. QED
  BY <1>1, <1>4, <1>5 DEF e

-----------------------------------------------------------------------------
(* Instants and readings *)

\* The offsets of the zone.
LEMMA ZoneType ==
    ASSUME TypeOK
    PROVE  /\ zone.at \in Nat /\ zone.before \in Int /\ zone.after \in Int
           /\ zone.after - zone.before < DayLength /\ zone.before - zone.after < DayLength
BY ZoneAssumption DEF TypeOK

\* An instant is past the start of a day exactly when its reading is past the reset,
\* unless the transition skips or repeats that reading.
LEMMA StartExact ==
    ASSUME TypeOK, NEW i \in Int, NEW d \in Int, Plain(d)
    PROVE  accounting_day_start(d) <= i <=> ResetReading(d) <= local_datetime(i)
<1> DEFINE r == ResetReading(d)
<1>1. r \in Int
  BY ResetReadings
<1>2. r \notin Disturbed
  BY DEF Plain
<1>3. accounting_day_start(d) = r - OffsetOfReading(r)
  BY DEF accounting_day_start
<1> HIDE DEF r
<1>4. accounting_day_start(d) <= i <=> r <= local_datetime(i)
  BY <1>1, <1>2, <1>3, ZoneType
  DEF local_datetime, OffsetOfReading, Disturbed, Larger, Smaller
<1>5. QED
  BY <1>4 DEF r

-----------------------------------------------------------------------------
(* The properties in a state *)

\* The day of an instant is that of its reading.
LEMMA AccountingDay == ASSUME NEW i PROVE accounting_day(i) = DayOf(local_datetime(i))
BY DEF accounting_day, DayOf

\* The reading of an instant is one.
LEMMA LocalType == ASSUME TypeOK, NEW i \in Int PROVE local_datetime(i) \in Int
BY ZoneType DEF local_datetime

\* The start of every day lies in it: past the transition, a reading that does not
\* exist is taken for one less than a day later.
LEMMA StartInDay ==
    ASSUME TypeOK, NEW d \in Int
    PROVE  accounting_day_start(d) \in Int /\ accounting_day(accounting_day_start(d)) = d
<1> DEFINE r == ResetReading(d)
<1> DEFINE i == accounting_day_start(d)
<1>1. r \in Int /\ ResetReading(d + 1) = r + DayLength
  BY ResetReadings
<1>2. i = r - OffsetOfReading(r)
  BY DEF accounting_day_start
<1> HIDE DEF r, i
<1>3. i \in Int
  BY <1>1, <1>2, ZoneType DEF OffsetOfReading
<1>4. r <= local_datetime(i) /\ local_datetime(i) < r + DayLength
  BY <1>1, <1>2, <1>3, ZoneType, LengthAssumption DEF local_datetime, OffsetOfReading, Larger
<1>5. local_datetime(i) \in Int
  BY <1>3, LocalType
<1>6. DayOf(local_datetime(i)) = d
  BY <1>1, <1>4, <1>5, DayUnique DEF r
<1>7. QED
  BY <1>3, <1>6, AccountingDay DEF i

\* accounting_day and accounting_day_start agree.
LEMMA DayIsIntervalInState == TypeOK => DayIsInterval
<1> SUFFICES ASSUME TypeOK PROVE DayIsInterval
  OBVIOUS
<1> DEFINE d == accounting_day(now)
<1>0. now \in Int
  BY DEF TypeOK
<1>1. /\ d \in Int /\ ResetReading(d) <= local_datetime(now)
      /\ local_datetime(now) < ResetReading(d + 1)
  BY <1>0, AccountingDay, LocalType, DayBracket
<1> HIDE DEF d
<1>2. Plain(d) => accounting_day_start(d) <= now
  BY <1>0, <1>1, StartExact
<1>3. Plain(d + 1) => now < accounting_day_start(d + 1)
  <2>1. accounting_day_start(d + 1) \in Int
    BY <1>1, StartInDay
  <2>2. ~(ResetReading(d + 1) <= local_datetime(now))
    BY <1>0, <1>1, LocalType, ResetReadings
  <2>3. QED
    BY <1>0, <1>1, <2>1, <2>2, StartExact
<1>4. QED
  BY <1>2, <1>3 DEF DayIsInterval, d

\* So it is for the day of this moment.
LEMMA StartLiesInDayInState == TypeOK => StartLiesInDay
<1> SUFFICES ASSUME TypeOK PROVE StartLiesInDay
  OBVIOUS
<1>1. accounting_day(now) \in Int
  BY AccountingDay, LocalType, DayBracket DEF TypeOK
<1>2. QED
  BY <1>1, StartInDay DEF StartLiesInDay

\* The whole seconds of a countdown leave less than one over.
LEMMA WholeSeconds ==
    ASSUME NEW n \in Nat
    PROVE  LET c == Larger(0, n \div Second) * Second
           IN  c \in Nat /\ c <= n /\ n < c + Second
<1> DEFINE q == n \div Second
<1> DEFINE m == n % Second
<1>1. q \in Int /\ m \in 0 .. Second - 1 /\ n = Second * q + m
  BY DivMod, LengthAssumption
<1> HIDE DEF q, m
<1>2. q >= 0
  <2>1. q < 0 => q * Second + Second <= 0 * Second
    BY <1>1, LengthAssumption, MultipleStep
  <2>2. q * Second = Second * q /\ q * Second \in Int
    BY <1>1, LengthAssumption
  <2>3. QED
    BY <1>1, <2>1, <2>2, LengthAssumption
<1>3. Larger(0, q) = q /\ q * Second = Second * q /\ q * Second \in Int
  BY <1>1, <1>2, LengthAssumption DEF Larger
<1>4. q * Second \in Nat /\ q * Second <= n /\ n < q * Second + Second
  <2>1. q * Second >= 0
    BY <1>1, <1>2, LengthAssumption
  <2>2. QED
    BY <1>1, <1>3, <2>1, LengthAssumption
<1>5. QED
  BY <1>3, <1>4 DEF q

\* seconds_until_reset: the day lasts until the countdown has run out, and less than a
\* second longer.
LEMMA CountdownIsExactInState == TypeOK => CountdownIsExact
<1> DEFINE d == accounting_day(now)
<1> DEFINE next == accounting_day_start(d + 1)
<1> DEFINE end == now + seconds_until_reset(now) * Second
<1> SUFFICES ASSUME TypeOK, Plain(d), Plain(d + 1)
             PROVE  \E i \in end .. end + Second - 1 :
                       /\ i > now /\ accounting_day(i) = d + 1
                       /\ \A j \in now .. i - 1 : accounting_day(j) = d
  BY DEF CountdownIsExact
<1>0. now \in Int
  BY DEF TypeOK
<1>1. /\ d \in Int /\ ResetReading(d) <= local_datetime(now)
      /\ local_datetime(now) < ResetReading(d + 1)
  BY <1>0, AccountingDay, LocalType, DayBracket
<1>2. end = now + Larger(0, (next - now) \div Second) * Second
  BY DEF seconds_until_reset
<1> HIDE DEF d, end
<1>3. next \in Int /\ accounting_day(next) = d + 1
  BY <1>1, StartInDay
<1>4. now < next
  <2>1. ~(ResetReading(d + 1) <= local_datetime(now))
    BY <1>0, <1>1, LocalType, ResetReadings
  <2>2. QED
    BY <1>0, <1>1, <1>3, <2>1, StartExact
<1>5. next \in end .. end + Second - 1
  <2> HIDE DEF next
  <2>1. next - now \in Nat
    BY <1>0, <1>3, <1>4
  <2> DEFINE c == Larger(0, (next - now) \div Second) * Second
  <2>2. c \in Nat /\ c <= next - now /\ next - now < c + Second
    BY <2>1, WholeSeconds
  <2>3. end = now + c
    BY <1>2
  <2> HIDE DEF c
  <2>4. QED
    BY <1>0, <1>3, <2>2, <2>3, LengthAssumption
<1>6. ASSUME NEW i \in now .. next - 1 PROVE accounting_day(i) = d
  <2>1. i \in Int /\ now <= i /\ i < next
    BY <1>0, <1>3
  <2>2. accounting_day_start(d) <= now
    BY <1>0, <1>1, StartExact
  <2>3. accounting_day_start(d) \in Int
    BY <1>1, StartInDay
  <2>4. accounting_day_start(d) <= i
    BY <1>0, <2>1, <2>2, <2>3
  <2>5. ResetReading(d) <= local_datetime(i)
    BY <1>1, <2>1, <2>4, StartExact
  <2>6. local_datetime(i) \in Int /\ ResetReading(d + 1) \in Int
    BY <1>1, <2>1, LocalType, ResetReadings
  <2>7. ~(ResetReading(d + 1) <= local_datetime(i))
    BY <1>1, <1>3, <2>1, StartExact
  <2>8. QED
    BY <1>1, <2>5, <2>6, <2>7, DayUnique, AccountingDay
<1> HIDE DEF next
<1>7. QED
  BY <1>3, <1>4, <1>5, <1>6

-----------------------------------------------------------------------------
(* The allowed periods *)

\* A period begun on day d and going on at reading r.
GoesOn(p, d, r) == Begun(p, d) <= r /\ r < Ended(p, d)

\* within_allowed_period: a period within one day goes on when it was begun on the
\* day of the reading, an overnight one also when it was begun on the day before.
LEMMA GoesOnWhen ==
    ASSUME NEW p, p.start \in 0 .. DayLength - 1, p.end \in 0 .. DayLength - 1,
           NEW r \in Int, NEW d \in Int
    PROVE  GoesOn(p, d, r) <=>
             \/ /\ d = DateOf(r) /\ p.start <= TimeOf(r)
                /\ p.start <= p.end => TimeOf(r) < p.end
             \/ d = DateOf(r) - 1 /\ p.end < p.start /\ TimeOf(r) < p.end
<1> DEFINE q == DateOf(r)
<1> DEFINE t == TimeOf(r)
<1>1. /\ q \in Int /\ t \in 0 .. DayLength - 1 /\ q * DayLength \in Int
      /\ r = q * DayLength + t
  BY DateAndTime
<1> HIDE DEF q, t
<1>2. d * DayLength \in Int /\ (q - 1) * DayLength = q * DayLength - DayLength
  BY <1>1, LengthAssumption
<1>3. CASE d = q
  BY <1>1, <1>2, <1>3, LengthAssumption DEF GoesOn, Begun, Ended, q, t
<1>4. CASE d = q - 1
  BY <1>1, <1>2, <1>4, LengthAssumption DEF GoesOn, Begun, Ended, q, t
<1>5. CASE q < d
  <2>1. q * DayLength + DayLength <= d * DayLength
    BY <1>1, <1>5, LengthAssumption, MultipleStep
  <2>2. QED
    BY <1>1, <1>2, <1>5, <2>1, LengthAssumption DEF GoesOn, Begun, Ended, q, t
<1>6. CASE d < q - 1
  <2>1. d * DayLength + DayLength <= (q - 1) * DayLength
    BY <1>1, <1>6, LengthAssumption, MultipleStep
  <2>2. QED
    BY <1>1, <1>2, <1>6, <2>1, LengthAssumption DEF GoesOn, Begun, Ended, q, t
<1>7. QED
  BY <1>1, <1>3, <1>4, <1>5, <1>6

\* The same for one period and all days within a week.
LEMMA WithinWhen ==
    ASSUME NEW p, p.start \in 0 .. DayLength - 1, p.end \in 0 .. DayLength - 1, NEW r \in Int
    PROVE  Within(p, r) <=> \E d \in DaysAround(r) : Weekday(d) \in p.days /\ GoesOn(p, d, r)
<1>1. DateOf(r) \in Int /\ TimeOf(r) \in 0 .. DayLength - 1
  BY DateAndTime
<1>2. DateOf(r) \in DaysAround(r) /\ DateOf(r) - 1 \in DaysAround(r) /\ DaysAround(r) \subseteq Int
  BY <1>1, LengthAssumption DEF DaysAround
<1>3. ASSUME Within(p, r)
      PROVE  \E d \in DaysAround(r) : Weekday(d) \in p.days /\ GoesOn(p, d, r)
  <2>1. CASE Weekday(DateOf(r)) \in p.days /\ p.start <= TimeOf(r)
             /\ (p.start <= p.end => TimeOf(r) < p.end)
    BY <1>1, <1>2, <2>1, GoesOnWhen
  <2>2. CASE Weekday(DateOf(r) - 1) \in p.days /\ p.end < p.start /\ TimeOf(r) < p.end
    BY <1>1, <1>2, <2>2, GoesOnWhen
  <2>3. QED
    BY <1>1, <1>3, <2>1, <2>2, LengthAssumption DEF Within
<1>4. ASSUME NEW d \in DaysAround(r), Weekday(d) \in p.days, GoesOn(p, d, r)
      PROVE  Within(p, r)
  <2>1. \/ /\ d = DateOf(r) /\ p.start <= TimeOf(r)
           /\ p.start <= p.end => TimeOf(r) < p.end
        \/ d = DateOf(r) - 1 /\ p.end < p.start /\ TimeOf(r) < p.end
    BY <1>2, <1>4, GoesOnWhen
  <2>2. QED
    BY <1>1, <1>4, <2>1, LengthAssumption DEF Within
<1>5. QED
  BY <1>3, <1>4

\* The same for all periods at this moment.
LEMMA AllowedInPeriodsInState == TypeOK => AllowedInPeriods
<1> SUFFICES ASSUME TypeOK PROVE AllowedInPeriods
  OBVIOUS
<1> DEFINE r == local_datetime(now)
<1>1. r \in Int
  BY LocalType DEF TypeOK
<1>2. \A p \in periods : p.start \in 0 .. DayLength - 1 /\ p.end \in 0 .. DayLength - 1
  BY PeriodAssumption DEF TypeOK
<1> HIDE DEF r
<1>3. \A p \in periods :
        Within(p, r) <=> \E d \in DaysAround(r) : Weekday(d) \in p.days /\ GoesOn(p, d, r)
  BY <1>1, <1>2, WithinWhen
<1>4. QED
  BY <1>3 DEF AllowedInPeriods, within_allowed_period, GoesOn, r

-----------------------------------------------------------------------------
(* Theorems *)

\* The zone, the reset clock and the periods stay among those configured.
THEOREM TypeCorrect == Spec => []TypeOK
<1>1. Init => TypeOK
  BY DEF Init, TypeOK
<1>2. TypeOK /\ [Next]_vars => TypeOK'
  <2> SUFFICES ASSUME TypeOK, [Next]_vars PROVE TypeOK'
    OBVIOUS
  <2>1. CASE Tick
    BY <2>1 DEF Tick, TypeOK
  <2>2. CASE ResetChanged
    BY <2>2 DEF ResetChanged, TypeOK
  <2>3. CASE UNCHANGED vars
    BY <2>3 DEF vars, TypeOK
  <2>4. QED
    BY <2>1, <2>2, <2>3 DEF Next
<1>3. QED
  BY <1>1, <1>2, PTL DEF Spec

\* schedule.py: at every instant, in every zone, accounting_day lies between
\* accounting_day_start of the day and of the next, where the transition of the clock
\* neither skips nor repeats their reset.
THEOREM DaysAreIntervals == Spec => []DayIsInterval
BY TypeCorrect, DayIsIntervalInState, PTL

\* The start accounting_day_start returns lies in its day.
THEOREM StartsLieInTheirDays == Spec => []StartLiesInDay
BY TypeCorrect, StartLiesInDayInState, PTL

\* seconds_until_reset counts, in whole seconds, to the first instant of the next day.
THEOREM CountdownsAreExact == Spec => []CountdownIsExact
BY TypeCorrect, CountdownIsExactInState, PTL

\* within_allowed_period, with its overnight periods, is what its periods say.
THEOREM PeriodsAreKept == Spec => []AllowedInPeriods
BY TypeCorrect, AllowedInPeriodsInState, PTL

=============================================================================
