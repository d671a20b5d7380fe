---------------------------- MODULE ClockProofs ----------------------------
(***************************************************************************)
(* The clock.  First the setup of the periodic interrupt: RateIsSet.  The  *)
(* invariant follows the ten steps: while the index and what was read      *)
(* matter, register A has the rate 0 or register B the interrupt off, so   *)
(* no handler moves the index.                                             *)
(*                                                                         *)
(* Then the dates: DatesAreRight.  The calendar functions give a date back *)
(* (DateBack) and go on with the calendar second by second (LaterAdds);    *)
(* the registers give a date back (RegistersBack); and two passes over the *)
(* registers that agree are the date at which the second of them began     *)
(* (PassesAgree), since in a minute the seconds take no value twice and no *)
(* other register changes twice.                                           *)
(***************************************************************************)
EXTENDS Clock, TLAPS, WellFoundedInduction

Firmware == {0, 2, 4, 6}

\* Before the setup the device is as the firmware left it; through the setup step k - 1
\* has been done; after it the rate is set.
SetupInv ==
    /\ pc \in {"wait", "read", "convert", "setup", "running"}
    /\ pc \in {"wait", "read", "convert"} => A = 38 /\ B \in Firmware
    /\ pc = "setup" =>
         /\ k \in 1 .. SetupSteps
         /\ k <= 2 => A = 38
         /\ k >= 3 => A = 32
         /\ k <= 6 => B \in Firmware
         /\ k >= 7 => B \in {b + 64 : b \in Firmware}
         /\ k \in {2, 8, 10} => index = 10
         /\ k \in {4, 6} => index = 11
         /\ k \in {5, 6} => prev = B
         /\ k \in {9, 10} => prev = 32
    /\ pc = "running" => A = 35 /\ B \in {b + 64 : b \in Firmware}

LEMMA SetupInit == Init => SetupInv
  BY DEF Init, SetupInv, Firmware

\* The device sends no interrupt during the setup.
LEMMA NoInterruptInSetup == SetupInv /\ InterruptsCome => pc = "running"
  <1>1. \A b \in Firmware : ~Bit(b, 64)
    BY DEF Firmware, Bit
  <1>. QED BY <1>1 DEF SetupInv, InterruptsCome, SetupSteps

LEMMA SetupStep == SetupInv /\ Setup => SetupInv'
  <1>1. \A b \in Firmware : WithInterrupt(b) = b + 64
    BY DEF Firmware, WithInterrupt, Bit
  <1>2. WithRate(32) = 35
    BY DEF WithRate, RTC_RATE
  <1>. SUFFICES ASSUME SetupInv, Setup PROVE SetupInv'
    OBVIOUS
  <1>3. k \in 1 .. 10 /\ k' = k + 1 /\ pc = "setup"
    BY DEF SetupInv, Setup, SetupSteps
  <1>4. CASE k = 1 BY <1>3, <1>4 DEF SetupInv, Setup, Select, SetupSteps
  <1>5. CASE k = 2 BY <1>3, <1>5 DEF SetupInv, Setup, Out, SetupSteps
  <1>6. CASE k = 3 BY <1>3, <1>6 DEF SetupInv, Setup, Select, SetupSteps
  <1>7. CASE k = 4 BY <1>3, <1>7 DEF SetupInv, Setup, In, SetupSteps
  <1>8. CASE k = 5 BY <1>3, <1>8 DEF SetupInv, Setup, Select, SetupSteps
  <1>9. CASE k = 6 BY <1>1, <1>3, <1>9 DEF SetupInv, Setup, Out, SetupSteps
  <1>10. CASE k = 7 BY <1>3, <1>10 DEF SetupInv, Setup, Select, SetupSteps
  <1>11. CASE k = 8 BY <1>3, <1>11 DEF SetupInv, Setup, In, SetupSteps
  <1>12. CASE k = 9 BY <1>3, <1>12 DEF SetupInv, Setup, Select, SetupSteps
  <1>13. CASE k = 10 BY <1>2, <1>3, <1>13 DEF SetupInv, Setup, Out, SetupSteps
  <1>. QED BY <1>3, <1>4, <1>5, <1>6, <1>7, <1>8, <1>9, <1>10, <1>11, <1>12, <1>13

LEMMA SetupInductive == SetupInv /\ [Next]_vars => SetupInv'
  <1>. SUFFICES ASSUME SetupInv, [Next]_vars PROVE SetupInv'
    OBVIOUS
  <1>1. CASE UpdateBegins BY <1>1 DEF UpdateBegins, SetupInv, install
  <1>2. CASE UpdateEnds
    BY <1>2 DEF UpdateEnds, SetupInv, install
  <1>3. CASE Wait BY <1>3 DEF Wait, SetupInv
  <1>4. CASE ReadRegister BY <1>4 DEF ReadRegister, SetupInv, device
  <1>5. CASE Convert BY <1>5 DEF Convert, SetupInv, device, SetupSteps
  <1>6. CASE Setup BY <1>6, SetupStep
  <1>7. CASE Interrupt
    BY <1>7, NoInterruptInSetup DEF Interrupt, SetupInv, device, install
  <1>8. CASE \E n \in Gaps : Elapse(n)
    BY <1>8 DEF Elapse, SetupInv, device, install
  <1>9. CASE UNCHANGED vars BY <1>9 DEF vars, SetupInv
  <1>. QED BY <1>1, <1>2, <1>3, <1>4, <1>5, <1>6, <1>7, <1>8, <1>9 DEF Next

\* The periodic interrupt comes at the rate that the handler counts by.
THEOREM RateIsSetAlways == Spec => []RateIsSet
  <1>1. SetupInv => RateIsSet
    <2>1. \A b \in Firmware : Bit(b + 64, 64)
      BY DEF Firmware, Bit
    <2>. QED BY <2>1 DEF SetupInv, RateIsSet, RTC_RATE
  <1>. QED BY <1>1, SetupInit, SetupInductive, PTL DEF Spec

-----------------------------------------------------------------------------
(* The calendar functions.                                                 *)

\* A date that the calendar of the code has: in 2100, which it takes for a leap year, up
\* to the day on which the model ends.
Covered(c) == IsDate(c) /\ (c.year < 2100 \/ (c.month = 1 /\ c.day = 1))

CalYears == 1970 .. 2100
DaySecs == 86400
SecsOfDay == {s \in Nat : s < DaySecs}

\* Induction from a to b, by the least counterexample.
LEMMA UpFrom ==
    ASSUME NEW a \in Nat, NEW b \in Nat, NEW S, a \in S, \A n \in a .. b - 1 : n \in S => n + 1 \in S
    PROVE  \A n \in a .. b : n \in S
<1> SUFFICES ASSUME NEW n \in a .. b, n \notin S PROVE FALSE
  OBVIOUS
<1>1. PICK R : R = OpToRel(<, Nat)
  OBVIOUS
<1>2. IsWellFoundedOn(R, Nat)
  BY <1>1, NatLessThanWellFounded
<1>3. PICK T : T = (a .. b) \ S
  OBVIOUS
<1>4. T \subseteq Nat /\ T # {}
  BY <1>3
<1>5. PICK m \in T : \A j \in T : ~(<<j, m>> \in R)
  BY <1>2, <1>4, WFMin
<1>6. \A i, j \in Nat : i < j => <<i, j>> \in R
  BY <1>1 DEF OpToRel
<1>7. m \in a .. b /\ m # a /\ m \notin S
  BY <1>3
<1>8. m - 1 \in a .. b - 1 /\ m - 1 \in Nat /\ m \in Nat /\ m - 1 < m
  BY <1>7
<1>9. m - 1 \notin T
  BY <1>5, <1>6, <1>8
<1>10. m - 1 \in a .. b /\ m - 1 + 1 = m
  BY <1>8
<1>11. m - 1 \in S
  BY <1>3, <1>9, <1>10
<1> QED BY <1>7, <1>8, <1>10, <1>11

YearStart(y) == (y - 1970) * 365 + (y - 1969) \div 4

\* ttime_computeDaysForYear counts a leap year every four years.
LEMMA DaysForYear ==
    ASSUME NEW year \in CalYears
    PROVE  ttime_computeDaysForYear(year) = YearStart(year)
<1> DEFINE Eq(f) == f = [i \in 1970 .. year |-> IF i = 1970 THEN 0 ELSE f[i - 1] + (IF (i - 1) % 4 = 0 THEN 366 ELSE 365)]
           g == [i \in 1970 .. year |-> (i - 1970) * 365 + (i - 1969) \div 4]
           ret == CHOOSE f : Eq(f)
           S == {i \in 1970 .. year : ret[i] = g[i]}
<1>0. year \in 1970 .. 2100
  BY DEF CalYears
<1>1. \A i \in 1971 .. year : (i - 1970) * 365 + (i - 1969) \div 4
         = ((i - 1) - 1970) * 365 + ((i - 1) - 1969) \div 4 + (IF (i - 1) % 4 = 0 THEN 366 ELSE 365)
  BY <1>0
<1>2. Eq(g)
  BY <1>0, <1>1
<1>3. Eq(ret)
  <2> HIDE DEF g, Eq
  <2>1. \E f : Eq(f)
    BY <1>2
  <2> QED BY <2>1
<1>4. ttime_computeDaysForYear(year) = ret[year]
  BY DEF ttime_computeDaysForYear
<1> HIDE DEF ret, g
<1>5. 1970 \in S
  BY <1>0, <1>2, <1>3
<1>6. ASSUME NEW n \in 1970 .. year - 1, n \in S PROVE n + 1 \in S
  BY <1>0, <1>2, <1>3, <1>6
<1>7. year \in S
  <2> HIDE DEF S
  <2>1. 1970 \in Nat /\ year \in Nat /\ year \in 1970 .. year
    BY <1>0
  <2> QED BY <1>5, <1>6, <2>1, UpFrom
<1> QED BY <1>4, <1>7 DEF g, YearStart

\* Where a month begins in its year, and that the months fill it.
DaysIn(y) == IF y % 4 = 0 THEN 366 ELSE 365
Begins(y, m) == (IF y % 4 = 0 THEN mdays_leap ELSE mdays)[m]

LEMMA MonthsFollow ==
    ASSUME NEW y \in CalYears
    PROVE  /\ \A m \in 1 .. 13 : Begins(y, m) \in Nat
           /\ \A m, n \in 1 .. 13 : m < n => Begins(y, m) + 28 <= Begins(y, n)
<1>1. CASE y % 4 = 0
  BY <1>1 DEF Begins, mdays_leap
<1>2. CASE y % 4 # 0
  BY <1>2 DEF Begins, mdays
<1> QED BY <1>1, <1>2

LEMMA YearsFollow ==
    ASSUME NEW y \in CalYears
    PROVE  Begins(y, 1) = 0 /\ Begins(y, 13) = DaysIn(y)
<1>1. CASE y % 4 = 0
  BY <1>1 DEF Begins, mdays_leap, DaysIn
<1>2. CASE y % 4 # 0
  BY <1>2 DEF Begins, mdays, DaysIn
<1> QED BY <1>1, <1>2

LEMMA MonthEnds ==
    ASSUME NEW y \in CalYears, NEW m \in 1 .. 12, y # 2100
    PROVE  Begins(y, m + 1) = Begins(y, m) + MonthLength(y, m)
<1>1. Leap(y) <=> y % 4 = 0
  BY DEF Leap, CalYears
<1>2. CASE y % 4 = 0
  BY <1>1, <1>2 DEF Begins, MonthLength, mdays_leap
<1>3. CASE y % 4 # 0
  BY <1>1, <1>3 DEF Begins, MonthLength, mdays
<1> QED BY <1>2, <1>3

\* The number of a day since 1970.
DayNumber(y, m, d) == YearStart(y) + Begins(y, m) + d - 1

\* The dates of the code's calendar by their numbers.
InCalendar(y, m, d) ==
    /\ y \in CalYears /\ m \in 1 .. 12 /\ d \in 1 .. 31
    /\ d <= MonthLength(y, m)
    /\ y # 2100 \/ (m = 1 /\ d = 1)

LEMMA DateFields ==
    ASSUME NEW c, Covered(c)
    PROVE  /\ InCalendar(c.year, c.month, c.day)
           /\ c.hour \in 0 .. 23 /\ c.min \in 0 .. 59 /\ c.sec \in 0 .. 59
           /\ c = [year |-> c.year, month |-> c.month, day |-> c.day,
                   hour |-> c.hour, min |-> c.min, sec |-> c.sec]
BY DEF Covered, IsDate, InCalendar, CalYears

LEMMA ParseDateIs ==
    ASSUME NEW c, Covered(c)
    PROVE  ttime_parseDate(c) = [days |-> DayNumber(c.year, c.month, c.day), secs |-> Secs(c)]
<1>1. /\ c.year \in CalYears /\ c.month \in 1 .. 12 /\ c.day \in 1 .. 31
      /\ c.hour \in 0 .. 23 /\ c.min \in 0 .. 59 /\ c.sec \in 0 .. 59
  BY DateFields DEF InCalendar
<1>2. ttime_computeDaysForMonthWithYear(c.month, c.year) = YearStart(c.year) + Begins(c.year, c.month)
  BY <1>1, DaysForYear DEF ttime_computeDaysForMonthWithYear, Begins
<1>3. c.month \in 1 .. 13
  BY <1>1
<1>4. Begins(c.year, c.month) \in Int
  BY <1>1, <1>3, MonthsFollow
<1>5. YearStart(c.year) \in Int
  BY <1>1 DEF CalYears, YearStart
<1>6. c.day - 1 + ttime_computeDaysForMonthWithYear(c.month, c.year)
        = DayNumber(c.year, c.month, c.day)
  BY <1>1, <1>2, <1>4, <1>5 DEF DayNumber
<1>7. c.sec + (c.min + c.hour * 60) * 60 = Secs(c)
  <2>1. PICK h \in 0 .. 23, i \in 0 .. 59, s \in 0 .. 59 : h = c.hour /\ i = c.min /\ s = c.sec
    BY <1>1
  <2>2. s + (i + h * 60) * 60 = (h * 60 + i) * 60 + s
    OBVIOUS
  <2> QED BY <2>1, <2>2 DEF Secs
<1>8. ttime_parseDate(c) =
        [days |-> c.day - 1 + ttime_computeDaysForMonthWithYear(c.month, c.year),
         secs |-> c.sec + (c.min + c.hour * 60) * 60]
  BY DEF ttime_computeTime, ttime_parseDate
<1> QED BY <1>6, <1>7, <1>8

YearOf(d) == (d - ((d + 365) \div 1460)) \div 365

LEMMA EpochBack ==
    ASSUME NEW e \in 0 .. 130, NEW y \in 0 .. 365, y = 365 => (e + 2) % 4 = 0
    PROVE  YearOf(e * 365 + (e + 1) \div 4 + y) = e
<1>0. PICK d \in Int : d = e * 365 + (e + 1) \div 4 + y
  OBVIOUS
<1> SUFFICES (d - ((d + 365) \div 1460)) \div 365 = e
  BY <1>0 DEF YearOf
<1>1. PICK q \in 0 .. 32, r \in 0 .. 3 : e + 1 = 4 * q + r
  <2>1. (e + 1) \div 4 \in 0 .. 32 /\ (e + 1) % 4 \in 0 .. 3 /\ e + 1 = 4 * ((e + 1) \div 4) + ((e + 1) % 4)
    OBVIOUS
  <2> QED BY <2>1
<1>2. (e + 1) \div 4 = q
  BY <1>1
<1>3. d = 365 * e + q + y /\ d + 365 = 1460 * q + (q + 365 * r + y)
  BY <1>0, <1>1, <1>2
<1>4. CASE q + 365 * r + y < 1460
  <2>1. (d + 365) \div 1460 = q
    BY <1>3, <1>4
  <2>2. y < 365
    <3>1. SUFFICES ASSUME y = 365 PROVE FALSE
      OBVIOUS
    <3>2. r = 3
      BY <1>1, <3>1
    <3> QED BY <3>1, <3>2, <1>4
  <2> QED BY <1>3, <2>1, <2>2
<1>5. CASE q + 365 * r + y >= 1460
  <2>1. (d + 365) \div 1460 = q + 1
    BY <1>3, <1>5
  <2>2. y >= 1
    BY <1>5
  <2> QED BY <1>3, <2>1, <2>2
<1> QED BY <1>4, <1>5

\* The year of a day, whose place in its year is n.
InYear(y, n) == y \in CalYears /\ n \in 0 .. 365 /\ (n = 365 => y % 4 = 0)
IsInYear(x, y, n) ==
    /\ 1970 + YearOf(x) = y
    /\ x - (YearOf(x) * 365 + (YearOf(x) + 1) \div 4) = n

LEMMA YearBack ==
    ASSUME NEW y, NEW n, InYear(y, n)
    PROVE  IsInYear(YearStart(y) + n, y, n)
<1>0. y \in CalYears /\ n \in 0 .. 365 /\ (n = 365 => y % 4 = 0)
  BY DEF InYear
<1>1. PICK e \in 0 .. 130 : e = y - 1970
  BY <1>0 DEF CalYears
<1>2. y = 1970 + e /\ y - 1969 = e + 1 /\ y - 1970 = e
  BY <1>1 DEF CalYears
<1>3. n = 365 => (e + 2) % 4 = 0
  BY <1>0, <1>1, <1>2
<1>4. YearOf(e * 365 + (e + 1) \div 4 + n) = e
  BY <1>0, <1>3, EpochBack
<1>5. YearStart(y) = e * 365 + (e + 1) \div 4
  BY <1>2 DEF YearStart
<1>6. YearOf(YearStart(y) + n) = e
  BY <1>4, <1>5
<1>8. PICK x \in Int : x = YearStart(y) + n
  BY <1>0, <1>5
<1>9. YearOf(x) = e /\ x = e * 365 + (e + 1) \div 4 + n
  BY <1>5, <1>6, <1>8
<1>10. 1970 + YearOf(x) = y
  BY <1>2, <1>9
<1>11. x - (YearOf(x) * 365 + (YearOf(x) + 1) \div 4) = n
  <2>1. x - (e * 365 + (e + 1) \div 4) = n
    BY <1>0, <1>9
  <2> QED BY <1>9, <2>1
<1> QED BY <1>8, <1>10, <1>11 DEF IsInYear

\* The day of the year is less than the month's end, and no month before has it.
IsMonth(b, n, j) == n < b[j + 1] /\ \A i \in 1 .. j - 1 : n >= b[i + 1]

IsTable(b, y) == \A j \in 1 .. 13 : b[j] = Begins(y, j)
IsOnly(b, n, m) == \A j \in 1 .. 12 : IsMonth(b, n, j) <=> j = m

LEMMA MonthBack ==
    ASSUME NEW y, NEW m, NEW d, InCalendar(y, m, d), NEW b, IsTable(b, y)
    PROVE  InYear(y, b[m] + d - 1) /\ IsOnly(b, b[m] + d - 1, m)
<1>0. \A j \in 1 .. 13 : b[j] = Begins(y, j)
  BY DEF IsTable
<1>1. y \in CalYears /\ m \in 1 .. 12 /\ d \in 1 .. 31
  BY DEF InCalendar
<1>2. \A j \in 1 .. 13 : b[j] \in Nat
  BY <1>0, <1>1, MonthsFollow
<1>3. b[1] = 0 /\ (y % 4 = 0 => b[13] = 366) /\ (y % 4 # 0 => b[13] = 365)
  <2>1. b[1] = Begins(y, 1) /\ b[13] = Begins(y, 13)
    BY <1>0
  <2>2. Begins(y, 1) = 0 /\ Begins(y, 13) = DaysIn(y)
    BY <1>1, YearsFollow
  <2> QED BY <2>1, <2>2 DEF DaysIn
<1>4. \A i, j \in 1 .. 13 : i < j => b[i] + 28 <= b[j]
  BY <1>0, <1>1, MonthsFollow
<1>5. PICK n \in Int : n = b[m] + d - 1
  BY <1>1, <1>2
<1>6. b[m] <= n /\ n < b[m + 1]
  <2>1. CASE y # 2100
    <3>1. b[m + 1] = b[m] + MonthLength(y, m)
      <4>1. m + 1 \in 1 .. 13 /\ m \in 1 .. 13
        BY <1>1
      <4> QED BY <1>0, <1>1, <2>1, <4>1, MonthEnds
    <3>2. d <= MonthLength(y, m) /\ MonthLength(y, m) \in Nat
      BY DEF InCalendar, MonthLength
    <3> QED BY <1>1, <1>2, <1>5, <3>1, <3>2
  <2>2. CASE y = 2100
    <3>1. m = 1 /\ d = 1
      BY <2>2 DEF InCalendar
    <3> QED BY <1>2, <1>3, <1>4, <1>5, <3>1
  <2> QED BY <2>1, <2>2
<1>7. b[m + 1] <= b[13]
  <2>1. m + 1 = 13 \/ b[m + 1] + 28 <= b[13]
    BY <1>1, <1>4
  <2> QED BY <1>1, <1>2, <2>1
<1>8. n \in 0 .. 365 /\ (n = 365 => y % 4 = 0)
  <2>1. b[m] \in Nat /\ b[m + 1] \in Nat /\ b[13] \in Nat
    BY <1>1, <1>2
  <2>2. n < b[13] /\ 0 <= n
    BY <1>6, <1>7, <2>1
  <2>3. b[13] <= 366 /\ (y % 4 # 0 => b[13] = 365)
    BY <1>3
  <2> QED BY <2>1, <2>2, <2>3
<1>9. \A i \in 1 .. m - 1 : n >= b[i + 1]
  <2> SUFFICES ASSUME NEW i \in 1 .. m - 1 PROVE n >= b[i + 1]
    OBVIOUS
  <2>1. i + 1 = m \/ b[i + 1] + 28 <= b[m]
    BY <1>1, <1>4
  <2>2. b[i + 1] \in Nat /\ b[m] \in Nat
    BY <1>1, <1>2
  <2> QED BY <1>6, <1>8, <2>1, <2>2
<1>10. ASSUME NEW j \in 1 .. 12 PROVE IsMonth(b, n, j) <=> j = m
  <2>1. ASSUME j < m PROVE ~IsMonth(b, n, j)
    <3>1. n >= b[j + 1] /\ b[j + 1] \in Nat
      BY <1>1, <1>2, <1>9, <2>1
    <3> QED BY <1>8, <3>1 DEF IsMonth
  <2>2. ASSUME m < j PROVE ~IsMonth(b, n, j)
    <3>1. SUFFICES ASSUME IsMonth(b, n, j) PROVE FALSE
      OBVIOUS
    <3>2. n >= b[m + 1] /\ b[m + 1] \in Nat
      BY <1>1, <1>2, <2>2, <3>1 DEF IsMonth
    <3> QED BY <1>6, <1>8, <3>2
  <2>3. IsMonth(b, n, m)
    BY <1>6, <1>9 DEF IsMonth
  <2> QED BY <1>1, <2>1, <2>2, <2>3
<1> QED BY <1>1, <1>5, <1>8, <1>10 DEF InYear, IsOnly

\* tdate_parseTime gives the day back whose number it is given, and the time of day.
LEMMA DayBack ==
    ASSUME NEW y, NEW m, NEW d, InCalendar(y, m, d), NEW s
    PROVE  tdate_parseTime([days |-> DayNumber(y, m, d), secs |-> s]) =
             [sec |-> s % 60, min |-> (s % 3600) \div 60, hour |-> s \div 3600,
              day |-> d, month |-> m, year |-> y]
<1>1. y \in CalYears /\ m \in 1 .. 12 /\ d \in 1 .. 31
  BY DEF InCalendar
<1>2. PICK b : b = IF y % 4 # 0 THEN mdays ELSE mdays_leap
  OBVIOUS
<1>3. \A j \in 1 .. 13 : b[j] = Begins(y, j)
  BY <1>2 DEF Begins
<1>4. PICK n : n = b[m] + d - 1
  OBVIOUS
<1>5. InYear(y, n) /\ IsOnly(b, n, m)
  BY <1>3, <1>4, MonthBack, Zenon DEF IsTable
<1>6. b[m] \in Nat
  <2>1. m \in 1 .. 13
    BY <1>1
  <2> QED BY <1>1, <1>3, <2>1, MonthsFollow
<1>7. PICK x : x = YearStart(y) + n
  OBVIOUS
<1>8. DayNumber(y, m, d) = x
  <2>1. YearStart(y) \in Int
    BY <1>1 DEF YearStart, CalYears
  <2>2. Begins(y, m) = b[m]
    BY <1>1, <1>3
  <2> QED BY <1>1, <1>4, <1>6, <1>7, <2>1, <2>2 DEF DayNumber
<1>9. IsInYear(x, y, n)
  BY <1>5, <1>7, YearBack, Zenon
<1>10. 1 + n - b[m] = d
  BY <1>1, <1>4, <1>6
<1> DEFINE M(u, v) == CHOOSE j \in 1 .. 12 : IsMonth(u, v, j)
<1>11. M(b, n) = m
  BY <1>1, <1>5 DEF IsOnly
<1> DEFINE t == [days |-> x, secs |-> s]
<1>12. t.days = x /\ t.secs = s
  OBVIOUS
<1> HIDE DEF t
<1> DEFINE Y(v) == 1970 + YearOf(v)
           N(v) == v - (YearOf(v) * 365 + (YearOf(v) + 1) \div 4)
<1>13. tdate_parseTime(t) =
         LET u == IF Y(t.days) % 4 # 0 THEN mdays ELSE mdays_leap
             w == M(u, N(t.days))
         IN  [sec |-> t.secs % 60, min |-> (t.secs % 3600) \div 60, hour |-> t.secs \div 3600,
              day |-> 1 + N(t.days) - u[w], month |-> w, year |-> Y(t.days)]
  BY DEF tdate_parseTime, YearOf, IsMonth
<1>14. Y(t.days) = y /\ N(t.days) = n
  BY <1>9, <1>12 DEF IsInYear
<1> HIDE DEF Y, N, M
<1>15. tdate_parseTime(t) = [sec |-> s % 60, min |-> (s % 3600) \div 60, hour |-> s \div 3600,
                             day |-> 1 + n - b[m], month |-> m, year |-> y]
  <2> DEFINE R(u, w, v, z) == [sec |-> s % 60, min |-> (s % 3600) \div 60, hour |-> s \div 3600,
                               day |-> 1 + v - u[w], month |-> w, year |-> z]
             U(z) == IF z % 4 # 0 THEN mdays ELSE mdays_leap
  <2>1. tdate_parseTime(t) = R(U(Y(t.days)), M(U(Y(t.days)), N(t.days)), N(t.days), Y(t.days))
    BY <1>12, <1>13
  <2>2. U(y) = b
    BY <1>2, Zenon
  <2> HIDE DEF R, U
  <2>3. tdate_parseTime(t) = R(b, m, n, y)
    BY <1>11, <1>14, <2>1, <2>2
  <2> QED BY <2>3 DEF R
<1> QED BY <1>8, <1>10, <1>15 DEF t

\* A second of the day.
IsTimeOfDay(n, h, i, s) ==
    n \in SecsOfDay /\ n % 60 = s /\ (n % 3600) \div 60 = i /\ n \div 3600 = h

LEMMA TimeOfDay ==
    ASSUME NEW h \in 0 .. 23, NEW i \in 0 .. 59, NEW s \in 0 .. 59
    PROVE  IsTimeOfDay((h * 60 + i) * 60 + s, h, i, s)
<1>0. PICK q \in 0 .. 1439 : q = h * 60 + i
  BY SMT
<1>1. PICK n \in Int : n = 60 * q + s /\ n = (h * 60 + i) * 60 + s
  BY <1>0
<1>2. n \in SecsOfDay
  <2>1. n = 60 * q + s /\ q \in 0 .. 1439 /\ s \in 0 .. 59
    BY <1>1
  <2>2. 0 <= n /\ n <= 86399
    BY <2>1, SMT
  <2>3. n \in Int
    BY <1>1
  <2> QED BY <2>2, <2>3 DEF SecsOfDay, DaySecs
<1>3. n % 60 = s
  BY <1>1, SMT
<1>4. PICK r \in 0 .. 3599 : r = i * 60 + s
  OBVIOUS
<1>5. n = 3600 * h + r
  BY <1>1, <1>4, SMT
<1>6. n % 3600 = r /\ n \div 3600 = h
  <2>1. n % 3600 = r
    BY <1>5, SMT
  <2>2. n \div 3600 = h
    BY <1>5, SMT
  <2> QED BY <2>1, <2>2
<1>7. r \div 60 = i
  BY <1>4
<1>8. IsTimeOfDay(n, h, i, s)
  BY <1>2, <1>3, <1>6, <1>7 DEF IsTimeOfDay
<1> QED BY <1>1, <1>8

LEMMA SecsAre ==
    ASSUME NEW c, Covered(c)
    PROVE  IsTimeOfDay(Secs(c), c.hour, c.min, c.sec)
BY DateFields, TimeOfDay, Zenon DEF Secs

\* tdate_parseTime gives the date back that ttime_parseDate was given.
LEMMA DateBack ==
    ASSUME NEW c, Covered(c)
    PROVE  tdate_parseTime(ttime_parseDate(c)) = c
<1>1. /\ InCalendar(c.year, c.month, c.day)
      /\ c = [year |-> c.year, month |-> c.month, day |-> c.day,
              hour |-> c.hour, min |-> c.min, sec |-> c.sec]
  BY DateFields
<1>2. /\ Secs(c) % 60 = c.sec /\ (Secs(c) % 3600) \div 60 = c.min /\ Secs(c) \div 3600 = c.hour
  BY SecsAre DEF IsTimeOfDay
<1>3. ttime_parseDate(c) = [days |-> DayNumber(c.year, c.month, c.day), secs |-> Secs(c)]
  BY ParseDateIs
<1> DEFINE R(n) == [sec |-> n % 60, min |-> (n % 3600) \div 60, hour |-> n \div 3600,
                    day |-> c.day, month |-> c.month, year |-> c.year]
<1>4. \A s : tdate_parseTime([days |-> DayNumber(c.year, c.month, c.day), secs |-> s]) = R(s)
  <2> SUFFICES ASSUME NEW s
               PROVE  tdate_parseTime([days |-> DayNumber(c.year, c.month, c.day), secs |-> s]) = R(s)
    OBVIOUS
  <2> QED BY <1>1, DayBack
<1>5. R(Secs(c)) = c
  BY <1>1, <1>2
<1> HIDE DEF R
<1> QED BY <1>3, <1>4, <1>5

\* What a date is once some of its parts are changed.
DateOf(y, m, d, h, i, s) ==
    [year |-> y, month |-> m, day |-> d, hour |-> h, min |-> i, sec |-> s]

LEMMA MonthChanged ==
    ASSUME NEW c, IsDate(c), NEW m, NEW d
    PROVE  [c EXCEPT !.day = d, !.month = m] = DateOf(c.year, m, d, c.hour, c.min, c.sec)
<1>1. PICK t : t = [c EXCEPT !.day = d]
  OBVIOUS
<1>2. t = DateOf(c.year, c.month, d, c.hour, c.min, c.sec)
  BY <1>1 DEF DateOf, IsDate
<1>3. [t EXCEPT !.month = m] = DateOf(c.year, m, d, c.hour, c.min, c.sec)
  BY <1>2 DEF DateOf
<1> QED BY <1>1, <1>3

LEMMA YearChanged ==
    ASSUME NEW c, IsDate(c), NEW y, NEW m, NEW d
    PROVE  [c EXCEPT !.day = d, !.month = m, !.year = y] = DateOf(y, m, d, c.hour, c.min, c.sec)
<1>1. PICK t : t = [c EXCEPT !.day = d, !.month = m]
  OBVIOUS
<1>2. t = DateOf(c.year, m, d, c.hour, c.min, c.sec)
  BY <1>1, MonthChanged, Zenon
<1>3. [t EXCEPT !.year = y] = DateOf(y, m, d, c.hour, c.min, c.sec)
  BY <1>2 DEF DateOf
<1> QED BY <1>1, <1>3

LEMMA TimeChanged ==
    ASSUME NEW c, IsDate(c), NEW h, NEW i, NEW s
    PROVE  [c EXCEPT !.hour = h, !.min = i, !.sec = s]
             = DateOf(c.year, c.month, c.day, h, i, s)
<1>1. PICK t : t = [c EXCEPT !.hour = h]
  OBVIOUS
<1>2. t = DateOf(c.year, c.month, c.day, h, c.min, c.sec)
  BY <1>1 DEF DateOf, IsDate
<1>3. PICK u : u = [t EXCEPT !.min = i]
  OBVIOUS
<1>4. u = DateOf(c.year, c.month, c.day, h, i, c.sec)
  BY <1>2, <1>3 DEF DateOf
<1>5. [u EXCEPT !.sec = s] = DateOf(c.year, c.month, c.day, h, i, s)
  BY <1>4 DEF DateOf
<1> QED BY <1>1, <1>3, <1>5

\* Dates whose next day is in the code's calendar.
Before2100(c) == IsDate(c) /\ c.year < 2100

LEMMA DaysFollow ==
    ASSUME NEW c, Before2100(c)
    PROVE  /\ Covered(NextDay(c))
           /\ DayNumber(NextDay(c).year, NextDay(c).month, NextDay(c).day)
                = DayNumber(c.year, c.month, c.day) + 1
           /\ Secs(NextDay(c)) = Secs(c)
<1> DEFINE y == c.year
           m == c.month
           d == c.day
<1>1. /\ c \in [year : 1970 .. 2100, month : 1 .. 12, day : 1 .. 31,
                hour : 0 .. 23, min : 0 .. 59, sec : 0 .. 59]
      /\ d <= MonthLength(y, m) /\ y < 2100
  BY DEF Before2100, IsDate
<1>2. y \in 1970 .. 2099 /\ m \in 1 .. 12 /\ d \in 1 .. 31 /\ y \in CalYears /\ y # 2100
  BY <1>1 DEF CalYears
<1>4. Begins(y, m + 1) = Begins(y, m) + MonthLength(y, m) /\ Begins(y, m) \in Nat
  <2>1. m \in 1 .. 13
    BY <1>2
  <2>2. Begins(y, m) \in Nat
    BY <1>2, <2>1, MonthsFollow
  <2>3. Begins(y, m + 1) = Begins(y, m) + MonthLength(y, m)
    BY <1>2, MonthEnds
  <2> QED BY <2>2, <2>3
<1>5. MonthLength(y, m) \in 28 .. 31
  BY <1>2 DEF MonthLength
<1>6. YearStart(y) \in Int
  BY <1>2 DEF YearStart
<1>7. CASE d < MonthLength(y, m)
  <2>1. NextDay(c) = [c EXCEPT !.day = d + 1]
    BY <1>7 DEF NextDay
  <2>2. NextDay(c).year = y /\ NextDay(c).month = m /\ NextDay(c).day = d + 1
    BY <1>1, <2>1
  <2>3. Covered(NextDay(c))
    BY <1>1, <1>2, <1>5, <1>7, <2>1, <2>2 DEF Covered, IsDate
  <2>4. DayNumber(y, m, d + 1) = DayNumber(y, m, d) + 1
    BY <1>2, <1>4, <1>6 DEF DayNumber
  <2>5. Secs(NextDay(c)) = Secs(c)
    BY <1>1, <2>1 DEF Secs
  <2> QED BY <2>2, <2>3, <2>4, <2>5
<1>8. CASE d = MonthLength(y, m) /\ m < 12
  <2>1. NextDay(c) = DateOf(y, m + 1, 1, c.hour, c.min, c.sec)
    <3>1. NextDay(c) = [c EXCEPT !.day = 1, !.month = m + 1]
      BY <1>2, <1>5, <1>8 DEF NextDay
    <3>2. IsDate(c)
      BY DEF Before2100
    <3> QED BY <3>1, <3>2, MonthChanged, Zenon
  <2>2. NextDay(c).year = y /\ NextDay(c).month = m + 1 /\ NextDay(c).day = 1
    BY <2>1 DEF DateOf
  <2>3. Covered(NextDay(c))
    <3>1. 1 <= MonthLength(y, m + 1)
      BY <1>2 DEF MonthLength
    <3>2. m + 1 \in 1 .. 12
      BY <1>2, <1>8
    <3>3. NextDay(c) \in [year : 1970 .. 2100, month : 1 .. 12, day : 1 .. 31,
                          hour : 0 .. 23, min : 0 .. 59, sec : 0 .. 59]
      BY <1>1, <1>2, <2>1, <3>2 DEF DateOf
    <3> QED BY <1>1, <2>2, <3>1, <3>3 DEF Covered, IsDate
  <2>4. DayNumber(y, m + 1, 1) = DayNumber(y, m, d) + 1
    BY <1>2, <1>4, <1>5, <1>6, <1>8 DEF DayNumber
  <2>5. Secs(NextDay(c)) = Secs(c)
    BY <2>1 DEF Secs, DateOf
  <2> QED BY <2>2, <2>3, <2>4, <2>5
<1>9. CASE d = MonthLength(y, m) /\ m = 12
  <2>1. NextDay(c) = DateOf(y + 1, 1, 1, c.hour, c.min, c.sec)
    <3>1. NextDay(c) = [c EXCEPT !.day = 1, !.month = 1, !.year = y + 1]
      BY <1>2, <1>5, <1>9 DEF NextDay
    <3>2. IsDate(c)
      BY DEF Before2100
    <3> QED BY <3>1, <3>2, YearChanged, Zenon
  <2>2. NextDay(c).year = y + 1 /\ NextDay(c).month = 1 /\ NextDay(c).day = 1
    BY <2>1 DEF DateOf
  <2>3. Covered(NextDay(c))
    <3>1. 1 <= MonthLength(y + 1, 1)
      BY DEF MonthLength
    <3>2. y + 1 \in 1970 .. 2100
      BY <1>2
    <3>3. NextDay(c) \in [year : 1970 .. 2100, month : 1 .. 12, day : 1 .. 31,
                          hour : 0 .. 23, min : 0 .. 59, sec : 0 .. 59]
      BY <1>1, <1>2, <2>1, <3>2 DEF DateOf
    <3> QED BY <1>1, <2>2, <3>1, <3>3 DEF Covered, IsDate
  <2>4. DayNumber(y + 1, 1, 1) = DayNumber(y, m, d) + 1
    <3>1. y + 1 \in CalYears
      BY <1>2 DEF CalYears
    <3>2. Begins(y + 1, 1) = 0
      BY <3>1, YearsFollow
    <3>3. Begins(y, m) + MonthLength(y, m) = DaysIn(y)
      BY <1>2, <1>4, <1>9, YearsFollow
    <3>4. YearStart(y + 1) = YearStart(y) + DaysIn(y)
      BY <1>2 DEF YearStart, DaysIn
    <3>5. DaysIn(y) \in Int
      BY DEF DaysIn
    <3> QED BY <1>2, <1>4, <1>5, <1>6, <1>9, <3>2, <3>3, <3>4, <3>5 DEF DayNumber
  <2>5. Secs(NextDay(c)) = Secs(c)
    BY <2>1 DEF Secs, DateOf
  <2> QED BY <2>2, <2>3, <2>4, <2>5
<1>10. d = MonthLength(y, m) \/ d < MonthLength(y, m)
  BY <1>1, <1>2, <1>5
<1>11. m = 12 \/ m < 12
  BY <1>2
<1> QED BY <1>7, <1>8, <1>9, <1>10, <1>11

LEMMA AtSecsIs ==
    ASSUME NEW c, IsDate(c), NEW s
    PROVE  AtSecs(c, s) = DateOf(c.year, c.month, c.day, s \div 3600, (s % 3600) \div 60, s % 60)
<1> DEFINE R(a, b, f) == [c EXCEPT !.hour = a, !.min = b, !.sec = f]
<1>1. AtSecs(c, s) = R(s \div 3600, (s % 3600) \div 60, s % 60)
  BY DEF AtSecs
<1>2. \A a, b, f : R(a, b, f) = DateOf(c.year, c.month, c.day, a, b, f)
  BY TimeChanged, Zenon
<1> HIDE DEF R
<1> QED BY <1>1, <1>2

\* The same day at another time.
LEMMA SameDay ==
    ASSUME NEW c, IsDate(c), NEW s \in SecsOfDay
    PROVE  /\ IsDate(AtSecs(c, s)) /\ Secs(AtSecs(c, s)) = s
           /\ AtSecs(c, s).year = c.year /\ AtSecs(c, s).month = c.month
           /\ AtSecs(c, s).day = c.day
<1>1. /\ c \in [year : 1970 .. 2100, month : 1 .. 12, day : 1 .. 31,
                hour : 0 .. 23, min : 0 .. 59, sec : 0 .. 59]
      /\ c.day <= MonthLength(c.year, c.month)
  BY DEF IsDate
<1>2. s \in Nat /\ s < 86400
  BY DEF SecsOfDay, DaySecs
<1>3. PICK h \in 0 .. 23 : h = s \div 3600
  BY <1>2, SMT
<1>4. PICK r \in 0 .. 3599 : r = s % 3600
  <2>1. s % 3600 \in 0 .. 3599
    BY <1>2
  <2> QED BY <2>1
<1>5. PICK i \in 0 .. 59 : i = r \div 60
  BY SMT
<1>6. PICK e \in 0 .. 59 : e = s % 60
  <2>1. s % 60 \in 0 .. 59
    BY <1>2
  <2> QED BY <2>1
<1>7. AtSecs(c, s) = DateOf(c.year, c.month, c.day, h, i, e)
  BY <1>3, <1>4, <1>5, <1>6, AtSecsIs
<1>8. (h * 60 + i) * 60 + e = s
  <2>1. s = 3600 * h + r
    BY <1>2, <1>3, <1>4
  <2>2. r % 60 = e
    BY <1>6, <2>1, SMT
  <2>3. r = 60 * i + e
    BY <1>5, <2>2, SMT
  <2> QED BY <2>1, <2>3, SMT
<1>9. PICK t : t = DateOf(c.year, c.month, c.day, h, i, e)
  OBVIOUS
<1>10. /\ t.year = c.year /\ t.month = c.month /\ t.day = c.day
       /\ t.hour = h /\ t.min = i /\ t.sec = e
  BY <1>9 DEF DateOf
<1>11. IsDate(t)
  <2>1. t \in [year : 1970 .. 2100, month : 1 .. 12, day : 1 .. 31,
               hour : 0 .. 23, min : 0 .. 59, sec : 0 .. 59]
    BY <1>1, <1>9 DEF DateOf
  <2> QED BY <1>1, <1>10, <2>1 DEF IsDate
<1>12. Secs(t) = s
  BY <1>8, <1>10 DEF Secs
<1> QED BY <1>7, <1>9, <1>10, <1>11, <1>12

LEMMA LaterIs ==
    ASSUME NEW c, NEW n, NEW s \in Nat, s = Secs(c) + n
    PROVE  Later(c, n) = IF s < DaySecs THEN AtSecs(c, s) ELSE NextDay(AtSecs(c, s - DaySecs))
  BY SMT DEF Later, DaySecs

LEMMA AddSecondsIs ==
    ASSUME NEW d, NEW z \in Nat, NEW n \in Nat, z < DaySecs, n <= DaySecs
    PROVE  AddSeconds([days |-> d, secs |-> z], n) =
             IF z + n < DaySecs THEN [days |-> d + 0, secs |-> z + n]
             ELSE [days |-> d + 1, secs |-> z + n - DaySecs]
<1>1. AddSeconds([days |-> d, secs |-> z], n) =
        [days |-> d + (z + n) \div 86400, secs |-> (z + n) % 86400]
  BY SMT DEF AddSeconds
<1>2. CASE z + n < DaySecs
  <2>1. (z + n) \div 86400 = 0 /\ (z + n) % 86400 = z + n
    BY <1>2, SMT DEF DaySecs
  <2> QED BY <1>1, <1>2, <2>1, SMT
<1>3. CASE ~(z + n < DaySecs)
  <2>1. (z + n) \div 86400 = 1 /\ (z + n) % 86400 = z + n - DaySecs
    BY <1>3, SMT DEF DaySecs
  <2> QED BY <1>1, <1>3, <2>1, SMT
<1> QED BY <1>2, <1>3

LEMMA DayNumberIs ==
    ASSUME NEW c, IsDate(c)
    PROVE  DayNumber(c.year, c.month, c.day) \in Int
<1>1. c.year \in CalYears /\ c.month \in 1 .. 13 /\ c.day \in Int
  BY DEF IsDate, CalYears
<1>2. Begins(c.year, c.month) \in Nat
  BY <1>1, MonthsFollow
<1>3. YearStart(c.year) \in Int
  BY <1>1 DEF CalYears, YearStart
<1> QED BY <1>1, <1>2, <1>3 DEF DayNumber

\* Seconds go on in the calendar as they are counted.
LEMMA LaterAdds ==
    ASSUME NEW c, Before2100(c), NEW n \in Nat, n <= DaySecs
    PROVE  /\ Covered(Later(c, n))
           /\ ttime_parseDate(Later(c, n)) = AddSeconds(ttime_parseDate(c), n)
<1>0. DaySecs \in Nat
  BY DEF DaySecs
<1>1. IsDate(c) /\ Covered(c)
  BY DEF Before2100, Covered
<1>2. PICK z \in Nat : z = Secs(c) /\ z < DaySecs
  BY <1>1, SecsAre DEF IsTimeOfDay, SecsOfDay
<1>3. PICK d \in Int : d = DayNumber(c.year, c.month, c.day)
  BY <1>1, DayNumberIs
<1>4. ttime_parseDate(c) = [days |-> d, secs |-> z]
  BY <1>1, <1>2, <1>3, ParseDateIs
<1>5. CASE z + n < DaySecs
  <2>1. PICK t : t = AtSecs(c, z + n)
    OBVIOUS
  <2>2. Later(c, n) = t
    BY <1>1, <1>2, <1>5, <2>1, LaterIs
  <2>3. z + n \in SecsOfDay
    BY <1>2, <1>5 DEF SecsOfDay
  <2>4. /\ IsDate(t) /\ Secs(t) = z + n
        /\ t.year = c.year /\ t.month = c.month /\ t.day = c.day
    BY <1>1, <2>1, <2>3, SameDay
  <2>5. Covered(t)
    BY <2>4 DEF Covered, Before2100
  <2>6. ttime_parseDate(t) = [days |-> d, secs |-> z + n]
    BY <1>3, <2>4, <2>5, ParseDateIs
  <2>7. AddSeconds([days |-> d, secs |-> z], n) = [days |-> d, secs |-> z + n]
    <3>1. d + 0 = d
      OBVIOUS
    <3> QED BY <1>2, <1>5, <3>1, AddSecondsIs
  <2> QED BY <1>4, <2>2, <2>5, <2>6, <2>7
<1>6. CASE ~(z + n < DaySecs)
  <2>1. PICK x \in Nat : x = z + n - DaySecs /\ x < DaySecs
    BY <1>0, <1>2, <1>6
  <2>2. PICK t : t = AtSecs(c, x)
    OBVIOUS
  <2>3. Later(c, n) = NextDay(t)
    <3>1. PICK s \in Nat : s = z + n
      OBVIOUS
    <3>2. Later(c, n) = IF s < DaySecs THEN AtSecs(c, s) ELSE NextDay(AtSecs(c, s - DaySecs))
      BY <1>2, <3>1, LaterIs
    <3>3. Later(c, n) = NextDay(AtSecs(c, s - DaySecs))
      <4>1. ~(s < DaySecs)
        BY <1>6, <3>1
      <4> QED BY <3>2, <4>1
    <3>4. s - DaySecs = x
      BY <1>0, <2>1, <3>1
    <3> QED BY <2>2, <3>3, <3>4
  <2>4. x \in SecsOfDay
    BY <2>1 DEF SecsOfDay
  <2>5. /\ IsDate(t) /\ Secs(t) = x
        /\ t.year = c.year /\ t.month = c.month /\ t.day = c.day
    BY <1>1, <2>2, <2>4, SameDay
  <2>6. Before2100(t)
    BY <2>5 DEF Before2100
  <2>7. /\ Covered(NextDay(t))
        /\ DayNumber(NextDay(t).year, NextDay(t).month, NextDay(t).day) = d + 1
        /\ Secs(NextDay(t)) = x
    BY <1>3, <2>5, <2>6, DaysFollow
  <2>8. ttime_parseDate(NextDay(t)) = [days |-> d + 1, secs |-> x]
    BY <2>7, ParseDateIs
  <2>9. AddSeconds([days |-> d, secs |-> z], n) = [days |-> d + 1, secs |-> x]
    BY <1>2, <1>6, <2>1, AddSecondsIs
  <2> QED BY <1>4, <2>3, <2>7, <2>8, <2>9
<1> QED BY <1>5, <1>6

\* A second later.
LEMMA SecondInMinute ==
    ASSUME NEW c, IsDate(c), c.sec < 59
    PROVE  Later(c, 1) = [c EXCEPT !.sec = c.sec + 1]
<1>2. /\ c.hour \in 0 .. 23 /\ c.min \in 0 .. 59 /\ c.sec \in 0 .. 59
  BY DEF IsDate
<1>3. c = DateOf(c.year, c.month, c.day, c.hour, c.min, c.sec)
  BY DEF IsDate, DateOf
<1>4. c.sec + 1 \in 0 .. 59
  BY <1>2
<1>5. IsTimeOfDay((c.hour * 60 + c.min) * 60 + (c.sec + 1), c.hour, c.min, c.sec + 1)
  BY <1>2, <1>4, TimeOfDay, Zenon
<1>6. (c.hour * 60 + c.min) * 60 + (c.sec + 1) = Secs(c) + 1
  <2>1. \A h \in 0 .. 23, i \in 0 .. 59, s \in 0 .. 59 :
          (h * 60 + i) * 60 + (s + 1) = (h * 60 + i) * 60 + s + 1
    OBVIOUS
  <2> QED BY <1>2, <2>1, Zenon DEF Secs
<1>7. PICK z : z = Secs(c) + 1
  OBVIOUS
<1>8. IsTimeOfDay(z, c.hour, c.min, c.sec + 1)
  BY <1>5, <1>6, <1>7
<1>9. z \in Nat /\ z < DaySecs
  BY <1>8 DEF IsTimeOfDay, SecsOfDay
<1>10. Later(c, 1) = AtSecs(c, z)
  BY <1>7, <1>9, LaterIs
<1>11. AtSecs(c, z) = DateOf(c.year, c.month, c.day, c.hour, c.min, c.sec + 1)
  <2>1. AtSecs(c, z) = DateOf(c.year, c.month, c.day, z \div 3600, (z % 3600) \div 60, z % 60)
    BY AtSecsIs
  <2> QED BY <1>8, <2>1, SMT DEF IsTimeOfDay
<1>12. [c EXCEPT !.sec = c.sec + 1] = DateOf(c.year, c.month, c.day, c.hour, c.min, c.sec + 1)
  BY <1>3 DEF DateOf
<1> QED BY <1>10, <1>11, <1>12

LEMMA SecondEndsMinute ==
    ASSUME NEW c, Before2100(c), c.sec = 59
    PROVE  Later(c, 1).sec = 0
<1>0. Covered(c)
  BY DEF Before2100, Covered
<1>1. PICK t : t = Later(c, 1)
  OBVIOUS
<1>2. Covered(t) /\ ttime_parseDate(t) = AddSeconds(ttime_parseDate(c), 1)
  <2>1. 1 \in Nat /\ 1 <= DaySecs
    BY SMT DEF DaySecs
  <2> QED BY <1>1, <2>1, LaterAdds
<1>3. PICK z \in Nat : z = Secs(c) /\ z < DaySecs /\ z % 60 = 59
  BY <1>0, SecsAre DEF IsTimeOfDay, SecsOfDay
<1>4. Secs(t) = IF z + 1 < DaySecs THEN z + 1 ELSE z + 1 - DaySecs
  <2>1. PICK d : ttime_parseDate(c) = [days |-> d, secs |-> z]
    BY <1>0, <1>3, ParseDateIs
  <2>2. ttime_parseDate(t).secs = Secs(t)
    BY <1>2, ParseDateIs
  <2>3. 1 \in Nat /\ 1 <= DaySecs
    BY SMT DEF DaySecs
  <2>4. AddSeconds([days |-> d, secs |-> z], 1) =
           IF z + 1 < DaySecs THEN [days |-> d + 0, secs |-> z + 1]
           ELSE [days |-> d + 1, secs |-> z + 1 - DaySecs]
    BY <1>3, <2>3, AddSecondsIs
  <2> QED BY <1>2, <2>1, <2>2, <2>4
<1>5. Secs(t) % 60 = t.sec
  BY <1>2, SecsAre DEF IsTimeOfDay
<1>6. Secs(t) % 60 = 0
  BY <1>3, <1>4, SMT DEF DaySecs
<1> QED BY <1>1, <1>5, <1>6
-----------------------------------------------------------------------------
(* The dates that the device shows while time_install reads it.            *)

\* The date n seconds after s, less than a minute.
NextMinute(s) == Later([s EXCEPT !.sec = 59], 1)
After(s, n) == IF s.sec + n < 60 THEN [s EXCEPT !.sec = s.sec + n]
               ELSE [NextMinute(s) EXCEPT !.sec = s.sec + n - 60]

LEMMA SecondSet ==
    ASSUME NEW c, Covered(c), NEW e \in 0 .. 59
    PROVE  LET t == [c EXCEPT !.sec = e]
           IN  /\ Covered(t) /\ t.sec = e
               /\ t.year = c.year /\ t.month = c.month /\ t.day = c.day
               /\ t.hour = c.hour /\ t.min = c.min
<1> DEFINE t == [c EXCEPT !.sec = e]
<1>1. c = DateOf(c.year, c.month, c.day, c.hour, c.min, c.sec)
  BY DEF Covered, IsDate, DateOf
<1>2. t = DateOf(c.year, c.month, c.day, c.hour, c.min, e)
  BY <1>1 DEF DateOf
<1>3. /\ t.year = c.year /\ t.month = c.month /\ t.day = c.day
      /\ t.hour = c.hour /\ t.min = c.min /\ t.sec = e
  BY <1>2 DEF DateOf
<1>4. t \in [year : 1970 .. 2100, month : 1 .. 12, day : 1 .. 31,
             hour : 0 .. 23, min : 0 .. 59, sec : 0 .. 59]
  BY <1>2 DEF Covered, IsDate, DateOf
<1>5. Covered(t)
  BY <1>3, <1>4 DEF Covered, IsDate
<1> QED BY <1>3, <1>5

LEMMA NextMinuteIs ==
    ASSUME NEW s, Before2100(s)
    PROVE  Covered(NextMinute(s)) /\ NextMinute(s).sec = 0
<1>1. Covered(s)
  BY DEF Before2100, Covered
<1>2. 59 \in 0 .. 59
  OBVIOUS
<1>3. PICK t : t = [s EXCEPT !.sec = 59]
  OBVIOUS
<1>4. Covered(t) /\ t.sec = 59 /\ t.year = s.year
  BY <1>1, <1>2, <1>3, SecondSet
<1>5. Before2100(t)
  BY <1>4 DEF Before2100, Covered
<1>6. Later(t, 1).sec = 0
  BY <1>4, <1>5, SecondEndsMinute
<1>7. Covered(Later(t, 1))
  <2>1. 1 \in Nat /\ 1 <= DaySecs
    BY SMT DEF DaySecs
  <2> QED BY <1>5, <2>1, LaterAdds
<1> QED BY <1>3, <1>6, <1>7 DEF NextMinute

\* What After gives is a date, and a second after n seconds are n + 1.
LEMMA AfterIs ==
    ASSUME NEW s, Before2100(s), NEW n \in 0 .. 59
    PROVE  Covered(After(s, n))
<1>1. Covered(s) /\ s.sec \in 0 .. 59
  BY DEF Before2100, Covered, IsDate
<1>2. CASE s.sec + n < 60
  <2>1. s.sec + n \in 0 .. 59
    BY <1>1, <1>2
  <2> QED BY <1>1, <1>2, <2>1, SecondSet DEF After
<1>3. CASE ~(s.sec + n < 60)
  <2>1. s.sec + n - 60 \in 0 .. 59
    BY <1>1, <1>3
  <2> QED BY <1>3, <2>1, NextMinuteIs, SecondSet DEF After
<1> QED BY <1>2, <1>3

LEMMA AfterFollows ==
    ASSUME NEW s, Before2100(s), NEW n \in 0 .. 58
    PROVE  Later(After(s, n), 1) = After(s, n + 1)
<1>1. Covered(s) /\ IsDate(s) /\ s.sec \in 0 .. 59
  BY DEF Before2100, Covered, IsDate
<1>2. PICK e \in 0 .. 59 : e = s.sec
  BY <1>1
<1>3. CASE e + n < 59
  <2>1. PICK f \in 0 .. 58 : f = e + n
    BY <1>3
  <2>2. PICK t : t = [s EXCEPT !.sec = f]
    OBVIOUS
  <2>3. f \in 0 .. 59
    BY <2>1
  <2>4. IsDate(t) /\ t.sec = f
    BY <1>1, <2>2, <2>3, SecondSet DEF Covered
  <2>5. Later(t, 1) = [t EXCEPT !.sec = f + 1]
    <3>1. t.sec < 59
      BY <2>1, <2>4
    <3> QED BY <2>4, <3>1, SecondInMinute
  <2>6. [t EXCEPT !.sec = f + 1] = [s EXCEPT !.sec = f + 1]
    BY <2>2
  <2>7. After(s, n) = t
    BY <1>2, <2>1, <2>2 DEF After
  <2>8. After(s, n + 1) = [s EXCEPT !.sec = f + 1]
    <3>1. e + (n + 1) = f + 1 /\ e + (n + 1) < 60
      BY <2>1
    <3> QED BY <1>2, <3>1 DEF After
  <2> QED BY <2>5, <2>6, <2>7, <2>8
<1>4. CASE e + n = 59
  <2>1. After(s, n) = [s EXCEPT !.sec = 59]
    BY <1>2, <1>4 DEF After
  <2>2. After(s, n + 1) = [NextMinute(s) EXCEPT !.sec = 0]
    <3>1. e + (n + 1) - 60 = 0 /\ ~(e + (n + 1) < 60)
      BY <1>4
    <3> QED BY <1>2, <3>1 DEF After
  <2>3. [NextMinute(s) EXCEPT !.sec = 0] = NextMinute(s)
    <3>1. PICK t : t = NextMinute(s)
      OBVIOUS
    <3>2. t = DateOf(t.year, t.month, t.day, t.hour, t.min, t.sec) /\ t.sec = 0
      BY <3>1, NextMinuteIs DEF Covered, IsDate, DateOf
    <3>3. [t EXCEPT !.sec = 0] = t
      BY <3>2 DEF DateOf
    <3> QED BY <3>1, <3>3
  <2> QED BY <2>1, <2>2, <2>3 DEF NextMinute
<1>5. CASE e + n > 59
  <2>1. PICK f \in 0 .. 58 : f = e + n - 60
    BY <1>5
  <2>2. PICK c : c = NextMinute(s)
    OBVIOUS
  <2>3. Covered(c)
    BY <2>2, NextMinuteIs
  <2>4. PICK t : t = [c EXCEPT !.sec = f]
    OBVIOUS
  <2>5. f \in 0 .. 59
    BY <2>1
  <2>6. IsDate(t) /\ t.sec = f
    BY <2>3, <2>4, <2>5, SecondSet DEF Covered
  <2>7. Later(t, 1) = [t EXCEPT !.sec = f + 1]
    <3>1. t.sec < 59
      BY <2>1, <2>6
    <3> QED BY <2>6, <3>1, SecondInMinute
  <2>8. [t EXCEPT !.sec = f + 1] = [c EXCEPT !.sec = f + 1]
    BY <2>4
  <2>9. After(s, n) = t
    <3>1. ~(e + n < 60)
      BY <1>5
    <3> QED BY <1>2, <2>1, <2>2, <2>4, <3>1 DEF After
  <2>10. After(s, n + 1) = [c EXCEPT !.sec = f + 1]
    <3>1. e + (n + 1) - 60 = f + 1 /\ ~(e + (n + 1) < 60)
      BY <2>1, <1>5
    <3> QED BY <1>2, <2>2, <3>1 DEF After
  <2> QED BY <2>7, <2>8, <2>9, <2>10
<1>6. e + n < 59 \/ e + n = 59 \/ e + n > 59
  OBVIOUS
<1> QED BY <1>3, <1>4, <1>5, <1>6

-----------------------------------------------------------------------------
(* The registers and the conversions back.                                 *)

\* The last conjunct of the guards on the hour: never twelve on a clock of twelve hours.
HourOk(c) == c.hour % 12 = 0 => Bit(B, 2)

LEMMA BcdBack ==
    ASSUME B \in Firmware, NEW v \in 0 .. 99
    PROVE  FromBcd(Bcd(v)) = v
<1>1. CASE Bit(B, 4)
  BY <1>1 DEF FromBcd, Bcd
<1>2. CASE ~Bit(B, 4)
  <2>1. PICK t \in 0 .. 9 : t = v \div 10
    OBVIOUS
  <2>2. PICK o \in 0 .. 9 : o = v % 10
    OBVIOUS
  <2>3. v = 10 * t + o
    BY <2>1, <2>2
  <2>4. (16 * t + o) % 16 = o /\ (16 * t + o) \div 16 = t
    OBVIOUS
  <2>5. Bcd(v) = 16 * t + o
    BY <1>2, <2>1, <2>2 DEF Bcd
  <2>6. FromBcd(16 * t + o) = o + t * 10
    BY <1>2, <2>4 DEF FromBcd
  <2> QED BY <2>3, <2>5, <2>6
<1> QED BY <1>1, <1>2

LEMMA BcdRange ==
    ASSUME NEW v \in 0 .. 99
    PROVE  Bcd(v) \in Nat /\ (v < 24 => Bcd(v) < 128)
<1>1. CASE Bit(B, 4)
  BY <1>1 DEF Bcd
<1>2. CASE ~Bit(B, 4)
  <2>1. PICK t \in 0 .. 9 : t = v \div 10
    OBVIOUS
  <2>2. PICK o \in 0 .. 9 : o = v % 10
    OBVIOUS
  <2>3. v = 10 * t + o
    BY <2>1, <2>2
  <2>4. Bcd(v) = 16 * t + o
    BY <1>2, <2>1, <2>2 DEF Bcd
  <2>5. 16 * t + o \in Nat /\ (v < 24 => 16 * t + o < 128)
    BY <2>3
  <2> QED BY <2>4, <2>5
<1> QED BY <1>1, <1>2

LEMMA HourBack ==
    ASSUME B \in Firmware, NEW h \in 0 .. 23, h % 12 = 0 => Bit(B, 2)
    PROVE  HourFrom(HourRegister(h)) = h
<1>1. CASE Bit(B, 2)
  <2>1. PICK w \in Nat : w = Bcd(h) /\ w < 128
    BY BcdRange
  <2>2. w % 128 = w /\ w \div 128 = 0
    BY <2>1
  <2>3. FromBcd(w) = h
    BY <2>1, BcdBack
  <2>4. HourRegister(h) = w
    BY <1>1, <2>1 DEF HourRegister
  <2>5. HourFrom(w) = FromBcd(w % 128) + 128 * (w \div 128)
    BY <1>1 DEF HourFrom
  <2>6. HourFrom(w) = h + 128 * 0
    BY <2>2, <2>3, <2>5
  <2> QED BY <2>4, <2>6
<1>2. CASE ~Bit(B, 2)
  <2>1. PICK g \in 1 .. 12 : g = ((h + 11) % 12) + 1
    OBVIOUS
  <2>2. PICK p \in 0 .. 1 : p = IF h >= 12 THEN 1 ELSE 0
    OBVIOUS
  <2>3. h = g + 12 * p /\ g < 12
    <3>1. h # 0 /\ h # 12
      BY <1>2
    <3>2. CASE h < 12
      <4>1. (h + 11) % 12 = h - 1
        BY <3>1, <3>2
      <4> QED BY <2>1, <2>2, <3>2, <4>1
    <3>3. CASE h > 12
      <4>1. (h + 11) % 12 = h - 13
        BY <3>1, <3>3
      <4> QED BY <2>1, <2>2, <3>3, <4>1
    <3> QED BY <3>1, <3>2, <3>3
  <2>4. PICK w \in Nat : w = Bcd(g) /\ w < 128
    BY BcdRange
  <2>5. HourRegister(h) = w + 128 * p
    BY <1>2, <2>1, <2>2, <2>4 DEF HourRegister
  <2>6. (w + 128 * p) % 128 = w /\ (w + 128 * p) \div 128 = p
    BY <2>4, SMT
  <2>7. FromBcd(w) = g
    BY <2>4, BcdBack
  <2>8. HourFrom(w + 128 * p) =
          IF Bit(g + 128 * p, 128) THEN (((g + 128 * p) % 128) + 12) % 24 ELSE g + 128 * p
    BY <1>2, <2>6, <2>7 DEF HourFrom
  <2>9. Bit(g + 128 * p, 128) <=> p = 1
    BY SMT DEF Bit
  <2>10. p = 1 => (((g + 128 * p) % 128) + 12) % 24 = h
    <3>1. p = 1 => (g + 128 * p) % 128 = g
      BY SMT
    <3>2. p = 1 => (g + 12) % 24 = g + 12
      BY <2>3, SMT
    <3> QED BY <2>3, <3>1, <3>2, SMT
  <2>11. p # 1 => g + 128 * p = h
    BY <2>3, SMT
  <2> QED BY <2>5, <2>8, <2>9, <2>10, <2>11
<1> QED BY <1>1, <1>2

\* What time_install converts the registers of a date to is the date.
DateFrom(f) ==
    [sec |-> FromBcd(f[1]), min |-> FromBcd(f[2]), hour |-> HourFrom(f[3]),
     day |-> FromBcd(f[4]), month |-> FromBcd(f[5]), year |-> FromBcd(f[6]) + FromBcd(f[7]) * 100]
LEMMA RegistersBack ==
    ASSUME B \in Firmware, NEW c, Covered(c), HourOk(c),
           NEW f, \A r \in 1 .. 7 : f[r] = Registers(c)[r]
    PROVE  DateFrom(f) = c
<1>1. /\ f[1] = Bcd(c.sec) /\ f[2] = Bcd(c.min) /\ f[3] = HourRegister(c.hour)
      /\ f[4] = Bcd(c.day) /\ f[5] = Bcd(c.month)
      /\ f[6] = Bcd(c.year % 100) /\ f[7] = Bcd(c.year \div 100)
  BY DEF Registers
<1>2. PICK y \in CalYears : y = c.year
  BY DEF Covered, IsDate, CalYears
<1>3. PICK q \in 0 .. 99 : q = y \div 100
  BY SMT DEF CalYears
<1>4. PICK o \in 0 .. 99 : o = y % 100
  BY SMT DEF CalYears
<1>5. y = o + q * 100
  BY <1>3, <1>4, SMT DEF CalYears
<1>6. /\ c.sec \in 0 .. 99 /\ c.min \in 0 .. 99 /\ c.hour \in 0 .. 23
      /\ c.day \in 0 .. 99 /\ c.month \in 0 .. 99
  BY DEF Covered, IsDate
<1>7. /\ FromBcd(f[1]) = c.sec /\ FromBcd(f[2]) = c.min
      /\ FromBcd(f[4]) = c.day /\ FromBcd(f[5]) = c.month
  BY <1>1, <1>6, BcdBack
<1>8. HourFrom(f[3]) = c.hour
  BY <1>1, <1>6, HourBack DEF HourOk
<1>9. FromBcd(f[6]) = o /\ FromBcd(f[7]) = q
  BY <1>1, <1>2, <1>3, <1>4, BcdBack
<1>10. c = [year |-> c.year, month |-> c.month, day |-> c.day,
            hour |-> c.hour, min |-> c.min, sec |-> c.sec]
  BY DateFields
<1>11. FromBcd(f[6]) + FromBcd(f[7]) * 100 = c.year
  BY <1>2, <1>5, <1>9
<1> QED BY <1>7, <1>8, <1>10, <1>11 DEF DateFrom

\* In a minute each register but the first changes at most once.
LEMMA MinuteRegisters ==
    ASSUME NEW s, Before2100(s), NEW n \in 0 .. 59, NEW r \in 2 .. 7
    PROVE  Registers(After(s, n))[r] =
             IF s.sec + n < 60 THEN Registers(s)[r] ELSE Registers(NextMinute(s))[r]
<1>1. \A c, d : (/\ d.year = c.year /\ d.month = c.month /\ d.day = c.day
                 /\ d.hour = c.hour /\ d.min = c.min)
                => Registers(d)[r] = Registers(c)[r]
  <2>1. r \in {2, 3, 4, 5, 6, 7}
    OBVIOUS
  <2>2. ASSUME NEW c, NEW d, d.year = c.year /\ d.month = c.month /\ d.day = c.day,
               d.hour = c.hour /\ d.min = c.min
        PROVE  Registers(d)[r] = Registers(c)[r]
    <3>1. Registers(d) = [Registers(c) EXCEPT ![1] = Bcd(d.sec)]
      BY <2>2 DEF Registers
    <3>2. \A i \in 1 .. 7 : i # 1 => [Registers(c) EXCEPT ![1] = Bcd(d.sec)][i] = Registers(c)[i]
      BY DEF Registers
    <3> QED BY <3>1, <3>2
  <2> QED BY <2>2
<1>2. Covered(s) /\ s.sec \in 0 .. 59
  BY DEF Before2100, Covered, IsDate
<1>3. CASE s.sec + n < 60
  <2>1. s.sec + n \in 0 .. 59
    BY <1>2, <1>3
  <2> QED BY <1>1, <1>2, <1>3, <2>1, SecondSet DEF After
<1>4. CASE ~(s.sec + n < 60)
  <2>1. s.sec + n - 60 \in 0 .. 59
    BY <1>2, <1>4
  <2> QED BY <1>1, <1>4, <2>1, NextMinuteIs, SecondSet DEF After
<1> QED BY <1>3, <1>4

\* The first register takes a value once.
LEMMA SecondTwice ==
    ASSUME B \in Firmware, NEW s, Before2100(s), NEW v \in 0 .. 59, NEW w \in 0 .. 59,
           Registers(After(s, v))[1] = Registers(After(s, w))[1]
    PROVE  v = w
<1>1. \A c : Registers(c)[1] = Bcd(c.sec)
  BY DEF Registers
<1>2. PICK e \in 0 .. 59 : e = s.sec
  BY DEF Before2100, IsDate
<1>3. Covered(s)
  BY DEF Before2100, Covered
<1>4. ASSUME NEW n \in 0 .. 59
      PROVE  After(s, n).sec = IF e + n < 60 THEN e + n ELSE e + n - 60
  <2>1. CASE e + n < 60
    <3>1. e + n \in 0 .. 59
      BY <2>1
    <3> QED BY <1>2, <1>3, <2>1, <3>1, SecondSet DEF After
  <2>2. CASE ~(e + n < 60)
    <3>1. e + n - 60 \in 0 .. 59
      BY <2>2
    <3> QED BY <1>2, <2>2, <3>1, NextMinuteIs, SecondSet DEF After
  <2> QED BY <2>1, <2>2
<1>5. PICK x \in 0 .. 99 : x = IF e + v < 60 THEN e + v ELSE e + v - 60
  OBVIOUS
<1>6. PICK y \in 0 .. 99 : y = IF e + w < 60 THEN e + w ELSE e + w - 60
  OBVIOUS
<1>7. After(s, v).sec = x /\ After(s, w).sec = y
  BY <1>4, <1>5, <1>6, Zenon
<1>8. Bcd(x) = Bcd(y)
  BY <1>1, <1>7
<1>9. x = y
  <2>1. FromBcd(Bcd(x)) = x
    BY BcdBack
  <2>2. FromBcd(Bcd(y)) = y
    BY BcdBack
  <2> QED BY <1>8, <2>1, <2>2
<1> QED BY <1>5, <1>6, <1>9, SMT

\* f holds in place r what the register showed in one of the seconds from lo to hi.
Seen(f, s, r, lo, hi) == \E v \in lo .. hi : f[r] = Registers(After(s, v))[r]

\* f is read twice: until second u, and from second a, which is not before u, to second h.
ReadTwice(f, s, u, a, h) ==
    /\ Before2100(s)
    /\ u \in 0 .. 59 /\ a \in 0 .. 59 /\ h \in 0 .. 59 /\ u <= a /\ a <= h
    /\ \A r \in 1 .. 7 : Seen(f, s, r, 0, u) /\ Seen(f, s, r, a, h)

\* Two passes that agree, the second of them after the first, are both the date at which
\* the second begins.
LEMMA PassesAgree ==
    ASSUME B \in Firmware, NEW f, NEW s, NEW u, NEW a, NEW h, ReadTwice(f, s, u, a, h)
    PROVE  \A r \in 1 .. 7 : f[r] = Registers(After(s, a))[r]
<1>0. /\ Before2100(s)
      /\ u \in 0 .. 59 /\ a \in 0 .. 59 /\ h \in 0 .. 59 /\ u <= a /\ a <= h
      /\ \A r \in 1 .. 7 : Seen(f, s, r, 0, u) /\ Seen(f, s, r, a, h)
  BY DEF ReadTwice
<1> USE <1>0
<1>1. f[1] = Registers(After(s, a))[1]
  <2>1. PICK v \in 0 .. u : f[1] = Registers(After(s, v))[1]
    BY DEF Seen
  <2>2. PICK w \in a .. h : f[1] = Registers(After(s, w))[1]
    BY DEF Seen
  <2>3. v \in 0 .. 59 /\ w \in 0 .. 59
    OBVIOUS
  <2>4. v = w
    <3>1. Registers(After(s, v))[1] = Registers(After(s, w))[1]
      BY <2>1, <2>2
    <3> QED BY <2>3, <3>1, SecondTwice
  <2>5. v = a
    BY <2>4
  <2> QED BY <2>1, <2>5
<1>2. ASSUME NEW r \in 2 .. 7 PROVE f[r] = Registers(After(s, a))[r]
  <2>0. r \in 1 .. 7
    OBVIOUS
  <2>1. PICK v \in 0 .. u : f[r] = Registers(After(s, v))[r]
    BY <2>0 DEF Seen
  <2>2. PICK w \in a .. h : f[r] = Registers(After(s, w))[r]
    BY <2>0 DEF Seen
  <2>3. PICK e \in 0 .. 59 : e = s.sec
    BY DEF Before2100, IsDate
  <2>4. \A n \in 0 .. 59 : Registers(After(s, n))[r] =
             IF e + n < 60 THEN Registers(s)[r] ELSE Registers(NextMinute(s))[r]
    BY <2>3, MinuteRegisters
  <2>5. e + a < 60 => e + v < 60
    OBVIOUS
  <2>6. ~(e + a < 60) => ~(e + w < 60)
    OBVIOUS
  <2>7. v \in 0 .. 59 /\ w \in 0 .. 59
    OBVIOUS
  <2> QED BY <2>1, <2>2, <2>4, <2>5, <2>6, <2>7
<1>3. \A r \in 1 .. 7 : r = 1 \/ r \in 2 .. 7
  OBVIOUS
<1> QED BY <1>1, <1>2, <1>3

-----------------------------------------------------------------------------
(* The invariant of the dates.                                             *)

\* The bounds under which the dates are right: no situation that the code does not
\* handle, and the reading takes less than a minute.
InBounds == Permitted = {} /\ MaxUpdates < 60

\* The second of the device's date, counted from its first.
Now == IF uip THEN updates - 1 ELSE updates

\* While time_install reads: the device's date was s at first; the pass before ended by
\* second u; the pass that is being read began in second a.
Reading(s, a, u) ==
    /\ k \in 1 .. Passes /\ (pc = "wait" => k = 1)
    /\ uip \in BOOLEAN /\ updates \in 0 .. 59 /\ Now \in 0 .. 59
    /\ rtc = After(s, Now)
    /\ \A n \in 0 .. updates : HourOk(After(s, n))
    /\ u <= updates /\ (pc = "read" => u <= Now)
    /\ DOMAIN cur = 1 .. Passes
    /\ \A r \in DOMAIN last : Seen(last, s, r, 0, u)
    /\ k > 1 => /\ u <= a /\ a <= Now /\ calendar = After(s, a)
                /\ \A r \in 1 .. k - 1 : Seen(cur, s, r, a, updates)

ReadInv == pc \in {"wait", "read"} => \E s \in Starts, a \in 0 .. 59, u \in 0 .. 59 : Reading(s, a, u)
ConvertInv ==
    pc = "convert" => /\ Covered(calendar) /\ HourOk(calendar)
                      /\ \A r \in 1 .. Passes : cur[r] = Registers(calendar)[r]
TimeInv ==
    /\ pc \in {"setup", "running"} => Covered(calendar) /\ time = ttime_parseDate(calendar)
    /\ pc # "running" => ticks = 0 /\ shown = <<>>
    /\ ticks \in 0 .. RTC_FREQ - 1 /\ shown \in {<<>>, calendar}
DatesInv == ReadInv /\ ConvertInv /\ TimeInv

\* A step that keeps register B changes no register of a date.
LEMMA SameRegisters ==
    ASSUME B' = B
    PROVE  /\ \A c : Registers(c)' = Registers(c)
           /\ \A c : HourOk(c)' = HourOk(c)
  BY DEF Registers, Bcd, HourRegister, HourOk, Bit

LEMMA SameSeen ==
    ASSUME B' = B, NEW f, NEW s, NEW r, NEW lo, NEW hi
    PROVE  Seen(f, s, r, lo, hi)' = Seen(f, s, r, lo, hi)
  BY SameRegisters DEF Seen

LEMMA SeenLonger ==
    ASSUME NEW f, NEW s, NEW r, NEW lo \in Nat, NEW hi \in Int, NEW hj \in Int, hi <= hj,
           Seen(f, s, r, lo, hi)
    PROVE  Seen(f, s, r, lo, hj)
  BY DEF Seen

LEMMA SeenSooner ==
    ASSUME NEW f, NEW s, NEW r, NEW lo \in Nat, NEW hi \in Int, Seen(f, s, r, lo, hi)
    PROVE  Seen(f, s, r, 0, hi)
  BY DEF Seen

LEMMA DatesInit == InBounds /\ Init => DatesInv
<1> SUFFICES ASSUME InBounds, Init PROVE DatesInv
  OBVIOUS
<1>1. PICK s \in Starts : s = rtc
  BY DEF Init
<1>2. Before2100(s)
  BY StartsAssumption DEF StartsAssumption, Before2100
<1>3. After(s, 0) = s
  <2>1. s.sec \in 0 .. 59
    BY <1>2 DEF Before2100, IsDate
  <2>2. After(s, 0) = [s EXCEPT !.sec = s.sec]
    BY <2>1 DEF After
  <2>3. s = DateOf(s.year, s.month, s.day, s.hour, s.min, s.sec)
    BY <1>2 DEF Before2100, IsDate, DateOf
  <2> QED BY <2>2, <2>3 DEF DateOf
<1>4. HourOk(s)
  BY <1>1 DEF Init, HourOk, InBounds
<1>5. Reading(s, 0, 0)
  <2>1. DOMAIN last = {}
    BY DEF Init
  <2>2. updates = 0 /\ uip = FALSE /\ k = 1 /\ pc = "wait" /\ Now = 0
    BY DEF Init, Now
  <2>3. DOMAIN cur = 1 .. Passes
    BY DEF Init
  <2>4. \A n \in 0 .. 0 : n = 0
    OBVIOUS
  <2>5. rtc = After(s, 0) /\ \A n \in 0 .. 0 : HourOk(After(s, n))
    BY <1>1, <1>3, <1>4, <2>4
  <2>6. \A r \in DOMAIN last : Seen(last, s, r, 0, 0)
    BY <2>1
  <2>7. /\ k \in 1 .. Passes /\ (pc = "wait" => k = 1)
        /\ uip \in BOOLEAN /\ updates \in 0 .. 59 /\ Now \in 0 .. 59
    <3>1. 0 \in 0 .. 59 /\ 1 \in 1 .. 7
      OBVIOUS
    <3>2. uip \in BOOLEAN
      BY <2>2, Zenon
    <3> QED BY <2>2, <3>1, <3>2, Zenon DEF Passes
  <2>8. rtc = After(s, Now) /\ \A n \in 0 .. updates : HourOk(After(s, n))
    BY <2>2, <2>5
  <2>9. /\ 0 <= updates /\ (pc = "read" => 0 <= Now)
        /\ ~(k > 1)
    BY <2>2
  <2> QED BY <2>3, <2>6, <2>7, <2>8, <2>9 DEF Reading
<1>6. ReadInv
  <2>1. 0 \in 0 .. 59
    OBVIOUS
  <2> QED BY <1>5, <2>1 DEF ReadInv
<1>7. ConvertInv
  BY DEF Init, ConvertInv
<1>8. TimeInv
  <2>1. 0 \in 0 .. RTC_FREQ - 1
    <3>1. RTC_FREQ \in Nat \ {0}
      BY ClockAssumption, SMT
    <3> QED BY <3>1
  <2> QED BY <2>1 DEF Init, TimeInv
<1> QED BY <1>6, <1>7, <1>8 DEF DatesInv

LEMMA LastStays ==
    ASSUME B' = B, last' = last, NEW s, NEW u \in Nat,
           \A r \in DOMAIN last : Seen(last, s, r, 0, u)
    PROVE  \A r \in DOMAIN last' : Seen(last, s, r, 0, u)'
<1> SUFFICES ASSUME NEW r \in DOMAIN last PROVE Seen(last, s, r, 0, u)'
  OBVIOUS
<1>1. PICK v \in 0 .. u : last[r] = Registers(After(s, v))[r]
  BY DEF Seen
<1>2. Registers(After(s, v))' = Registers(After(s, v))
  BY SameRegisters
<1>3. last'[r] = Registers(After(s, v))'[r]
  BY <1>1, <1>2
<1> QED BY <1>3 DEF Seen

LEMMA CurStays ==
    ASSUME B' = B, NEW s, NEW a \in Nat, updates \in Nat, updates' \in Nat, updates <= updates',
           NEW r, cur'[r] = cur[r], Seen(cur, s, r, a, updates)
    PROVE  Seen(cur, s, r, a, updates)'
<1>1. PICK v \in a .. updates : cur[r] = Registers(After(s, v))[r]
  BY DEF Seen
<1>2. Registers(After(s, v))' = Registers(After(s, v))
  BY SameRegisters
<1>3. cur'[r] = Registers(After(s, v))'[r]
  BY <1>1, <1>2
<1>4. v \in a .. updates'
  OBVIOUS
<1> QED BY <1>3, <1>4 DEF Seen

LEMMA HoursStay ==
    ASSUME B' = B, NEW s, NEW n, HourOk(After(s, n))
    PROVE  HourOk(After(s, n))'
  BY SameRegisters

LEMMA DatesUpdateBegins ==
    ASSUME InBounds, SetupInv, DatesInv, UpdateBegins
    PROVE  DatesInv'
<1>0. pc \in {"wait", "read"} /\ pc' = pc
  BY DEF UpdateBegins, install
<1>1. PICK s \in Starts, a \in 0 .. 59, u \in 0 .. 59 : Reading(s, a, u)
  BY <1>0 DEF DatesInv, ReadInv
<1>2. Before2100(s)
  BY StartsAssumption DEF Before2100
<1>3. /\ uip = FALSE /\ uip' = TRUE /\ updates' = updates + 1 /\ updates < MaxUpdates
      /\ rtc' = rtc /\ B' = B /\ k' = k /\ last' = last /\ cur' = cur /\ calendar' = calendar
  BY DEF UpdateBegins, install, clock
<1>4. updates \in 0 .. 58 /\ Now = updates /\ Now' = updates
  <2>1. updates \in 0 .. 59
    BY <1>1 DEF Reading
  <2>2. MaxUpdates \in Nat
    BY ClockAssumption, SMT
  <2> QED BY <1>3, <2>1, <2>2 DEF Now, InBounds
<1>5. rtc = After(s, updates)
  BY <1>1, <1>4 DEF Reading
<1>6. HourOk(After(s, updates + 1))
  <2>1. After(s, updates + 1) = Later(rtc, 1)
    BY <1>2, <1>4, <1>5, AfterFollows
  <2>2. HourOk(Later(rtc, 1))
    BY DEF UpdateBegins, InBounds, HourOk
  <2> QED BY <2>1, <2>2
<1>7. \A n \in 0 .. updates' : HourOk(After(s, n))'
  <2>1. SUFFICES ASSUME NEW n \in 0 .. updates + 1 PROVE HourOk(After(s, n))
    BY <1>3, HoursStay
  <2>2. n \in 0 .. updates \/ n = updates + 1
    BY <1>4
  <2>3. \A i \in 0 .. updates : HourOk(After(s, i))
    BY <1>1 DEF Reading
  <2> QED BY <1>6, <2>2, <2>3
<1>8. \A r \in DOMAIN last' : Seen(last, s, r, 0, u)'
  <2>1. \A r \in DOMAIN last : Seen(last, s, r, 0, u)
    BY <1>1 DEF Reading
  <2> QED BY <1>3, <2>1, LastStays
<1>9. k > 1 => \A r \in 1 .. k - 1 : Seen(cur, s, r, a, updates)'
  <2>1. k > 1 => \A r \in 1 .. k - 1 : Seen(cur, s, r, a, updates)
    BY <1>1 DEF Reading
  <2>2. updates \in Nat /\ updates' \in Nat /\ updates <= updates'
    BY <1>3, <1>4
  <2> QED BY <1>3, <2>1, <2>2, CurStays
<1>10. Reading(s, a, u)'
  <2>1. u <= updates' /\ (pc' = "read" => u <= Now')
    BY <1>0, <1>1, <1>3, <1>4 DEF Reading
  <2>2. /\ k' \in 1 .. Passes /\ (pc' = "wait" => k' = 1)
        /\ uip' \in BOOLEAN /\ updates' \in 0 .. 59 /\ Now' \in 0 .. 59
    BY <1>0, <1>1, <1>3, <1>4 DEF Reading
  <2>3. rtc' = After(s, Now)'
    BY <1>3, <1>4, <1>5
  <2>4. DOMAIN cur' = 1 .. Passes
    BY <1>1, <1>3 DEF Reading
  <2>5. k' > 1 => u <= a /\ a <= Now' /\ calendar' = After(s, a)
    BY <1>1, <1>3, <1>4 DEF Reading
  <2> QED BY <1>3, <1>7, <1>8, <1>9, <2>1, <2>2, <2>3, <2>4, <2>5 DEF Reading
<1>11. ReadInv'
  BY <1>10 DEF ReadInv
<1>12. ConvertInv' /\ TimeInv'
  BY <1>0 DEF ConvertInv, TimeInv, DatesInv, UpdateBegins, install, clock
<1> QED BY <1>11, <1>12 DEF DatesInv

LEMMA ConvertStays ==
    ASSUME ConvertInv, pc' = pc, B' = B, calendar' = calendar, cur' = cur
    PROVE  ConvertInv'
<1> SUFFICES ASSUME pc = "convert" PROVE ConvertInv'
  BY DEF ConvertInv
<1>1. /\ Covered(calendar) /\ HourOk(calendar)
      /\ \A r \in 1 .. Passes : cur[r] = Registers(calendar)[r]
  BY DEF ConvertInv
<1>2. HourOk(calendar)'
  BY <1>1 DEF HourOk, Bit
<1>3. Registers(calendar)' = Registers(calendar)
  BY DEF Registers, Bcd, HourRegister, Bit
<1> QED BY <1>1, <1>2, <1>3 DEF ConvertInv

LEMMA DatesUpdateEnds ==
    ASSUME DatesInv, UpdateEnds
    PROVE  DatesInv'
<1>1. /\ uip = TRUE /\ uip' = FALSE /\ rtc' = Later(rtc, 1) /\ updates' = updates
      /\ B' = B /\ pc' = pc /\ k' = k /\ last' = last /\ cur' = cur /\ calendar' = calendar
      /\ time' = time /\ ticks' = ticks /\ shown' = shown
  BY DEF UpdateEnds, install, clock
<1>2. ASSUME pc \in {"wait", "read"} PROVE ReadInv'
  <2>1. PICK s \in Starts, a \in 0 .. 59, u \in 0 .. 59 : Reading(s, a, u)
    BY <1>2 DEF DatesInv, ReadInv
  <2>2. Before2100(s)
    BY StartsAssumption DEF Before2100
  <2>3. updates \in 1 .. 59 /\ Now = updates - 1 /\ Now' = updates
    <3>1. Now = updates - 1 /\ Now' = updates
      BY <1>1 DEF Now
    <3>2. updates \in 0 .. 59 /\ Now \in 0 .. 59
      BY <2>1 DEF Reading
    <3> QED BY <3>1, <3>2
  <2>4. rtc' = After(s, updates)
    <3>1. PICK n \in 0 .. 58 : n = updates - 1 /\ n + 1 = updates
      BY <2>3
    <3>2. rtc = After(s, n)
      BY <2>1, <2>3, <3>1 DEF Reading
    <3> QED BY <1>1, <2>2, <3>1, <3>2, AfterFollows
  <2>5. \A n \in 0 .. updates' : HourOk(After(s, n))'
    <3>1. \A n \in 0 .. updates : HourOk(After(s, n))
      BY <2>1 DEF Reading
    <3> QED BY <1>1, <3>1, HoursStay
  <2>6. \A r \in DOMAIN last' : Seen(last, s, r, 0, u)'
    <3>1. \A r \in DOMAIN last : Seen(last, s, r, 0, u)
      BY <2>1 DEF Reading
    <3> QED BY <1>1, <3>1, LastStays
  <2>7. k > 1 => \A r \in 1 .. k - 1 : Seen(cur, s, r, a, updates)'
    <3>1. k > 1 => \A r \in 1 .. k - 1 : Seen(cur, s, r, a, updates)
      BY <2>1 DEF Reading
    <3>2. updates \in Nat /\ updates' \in Nat /\ updates <= updates'
      BY <1>1, <2>3
    <3> QED BY <1>1, <3>1, <3>2, CurStays
  <2>8. /\ u <= updates' /\ (pc' = "read" => u <= Now')
        /\ k' > 1 => u <= a /\ a <= Now' /\ calendar' = After(s, a)
    BY <1>1, <2>1, <2>3 DEF Reading
  <2>9. /\ k' \in 1 .. Passes /\ (pc' = "wait" => k' = 1)
        /\ uip' \in BOOLEAN /\ updates' \in 0 .. 59 /\ Now' \in 0 .. 59
        /\ DOMAIN cur' = 1 .. Passes
    BY <1>1, <2>1, <2>3 DEF Reading
  <2>10. rtc' = After(s, Now)'
    BY <2>3, <2>4
  <2>11. Reading(s, a, u)'
    BY <1>1, <2>5, <2>6, <2>7, <2>8, <2>9, <2>10 DEF Reading
  <2> QED BY <2>11 DEF ReadInv
<1>3. ReadInv'
  BY <1>1, <1>2 DEF ReadInv
<1>4. ConvertInv'
  BY <1>1, ConvertStays DEF DatesInv
<1>5. TimeInv'
  BY <1>1 DEF DatesInv, TimeInv
<1> QED BY <1>3, <1>4, <1>5 DEF DatesInv

LEMMA DatesWait ==
    ASSUME DatesInv, Wait
    PROVE  DatesInv'
<1>1. /\ pc = "wait" /\ uip = FALSE /\ pc' = "read" /\ k' = 1
      /\ rtc' = rtc /\ uip' = uip /\ updates' = updates
      /\ B' = B /\ last' = last /\ cur' = cur
      /\ ticks' = ticks /\ shown' = shown
  <2>1. PICK s, a, u : Reading(s, a, u)
    BY DEF Wait, DatesInv, ReadInv
  <2> QED BY <2>1 DEF Wait, clock, Reading
<1>2. PICK s \in Starts, a \in 0 .. 59, u \in 0 .. 59 : Reading(s, a, u)
  BY <1>1 DEF DatesInv, ReadInv
<1>3. Now = updates /\ Now' = updates
  BY <1>1 DEF Now
<1>4. \A n \in 0 .. updates' : HourOk(After(s, n))'
  <2>1. \A n \in 0 .. updates : HourOk(After(s, n))
    BY <1>2 DEF Reading
  <2> QED BY <1>1, <2>1, HoursStay
<1>5. \A r \in DOMAIN last' : Seen(last, s, r, 0, u)'
  <2>1. \A r \in DOMAIN last : Seen(last, s, r, 0, u)
    BY <1>2 DEF Reading
  <2> QED BY <1>1, <2>1, LastStays
<1>6. /\ k' \in 1 .. Passes /\ uip' \in BOOLEAN /\ updates' \in 0 .. 59 /\ Now' \in 0 .. 59
      /\ DOMAIN cur' = 1 .. Passes /\ u <= updates' /\ u <= Now'
  BY <1>1, <1>2, <1>3 DEF Reading, Passes
<1>7. rtc' = After(s, Now)'
  BY <1>1, <1>2, <1>3 DEF Reading
<1>8. pc' # "wait" /\ ~(k' > 1)
  BY <1>1
<1>9. Reading(s, a, u)'
  BY <1>4, <1>5, <1>6, <1>7, <1>8 DEF Reading
<1>10. ReadInv'
  BY <1>9 DEF ReadInv
<1> QED BY <1>1, <1>10 DEF DatesInv, ConvertInv, TimeInv, Wait, clock

\* The pass just read, as the next state keeps it.
LEMMA CurIs ==
    ASSUME B' = B, NEW f, cur' = f, NEW w, updates' = w, NEW s, NEW r, NEW lo,
           Seen(f, s, r, lo, w)
    PROVE  Seen(cur, s, r, lo, updates)'
<1>1. PICK v \in lo .. w : f[r] = Registers(After(s, v))[r]
  BY DEF Seen
<1>2. Registers(After(s, v))' = Registers(After(s, v))
  BY SameRegisters
<1>3. cur'[r] = Registers(After(s, v))'[r]
  BY <1>1, <1>2
<1> QED BY <1>1, <1>3 DEF Seen

LEMMA LastIs ==
    ASSUME B' = B, NEW f, last' = f, NEW w, NEW s, NEW r, NEW lo \in Nat,
           Seen(f, s, r, lo, w)
    PROVE  Seen(last, s, r, 0, w)'
<1>1. PICK v \in lo .. w : f[r] = Registers(After(s, v))[r]
  BY DEF Seen
<1>2. Registers(After(s, v))' = Registers(After(s, v))
  BY SameRegisters
<1>3. last'[r] = Registers(After(s, v))'[r]
  BY <1>1, <1>2
<1>4. v \in 0 .. w
  OBVIOUS
<1> QED BY <1>3, <1>4 DEF Seen

LEMMA DatesReadRegister ==
    ASSUME SetupInv, DatesInv, ReadRegister
    PROVE  DatesInv'
<1>1. /\ pc = "read" /\ rtc' = rtc /\ uip' = uip /\ updates' = updates /\ B' = B
      /\ ticks' = ticks /\ shown' = shown
      /\ calendar' = IF k = 1 THEN rtc ELSE calendar
  BY DEF ReadRegister, device
<1>2. PICK s \in Starts, a \in 0 .. 59, u \in 0 .. 59 : Reading(s, a, u)
  BY <1>1 DEF DatesInv, ReadInv
<1>3. Before2100(s)
  BY StartsAssumption DEF Before2100
<1>4. /\ k \in 1 .. 7 /\ uip \in BOOLEAN /\ rtc = After(s, Now) /\ u <= Now /\ u <= updates
      /\ DOMAIN cur = 1 .. 7
  BY <1>1, <1>2 DEF Reading, Passes
<1>5. PICK w \in 0 .. 59 : w = updates
  BY <1>2 DEF Reading
<1>6. PICK m \in 0 .. 59 : m = Now /\ m <= w /\ (uip => w = m + 1)
  BY <1>2, <1>5 DEF Reading, Now
<1>7. Now' = m
  BY <1>1, <1>6 DEF Now
<1>8. PICK v \in Showing(k) : cur' = [cur EXCEPT ![k] = v]
  BY DEF ReadRegister
<1>9. PICK n \in m .. w : v = Registers(After(s, n))[k]
  <2>1. CASE v = Registers(rtc)[k]
    BY <1>4, <1>6, <2>1
  <2>2. CASE uip /\ v = Registers(Later(rtc, 1))[k]
    <3>1. w = m + 1 /\ m \in 0 .. 58
      BY <1>6, <2>2
    <3>2. Later(rtc, 1) = After(s, w)
      BY <1>3, <1>4, <1>6, <3>1, AfterFollows
    <3>3. w \in m .. w
      BY <3>1
    <3> QED BY <2>2, <3>2, <3>3
  <2> QED BY <2>1, <2>2 DEF Showing
<1>10. PICK b \in 0 .. 59 : /\ b = (IF k = 1 THEN m ELSE a)
                            /\ u <= b /\ b <= m /\ calendar' = After(s, b)
  <2>1. CASE k = 1
    BY <1>1, <1>4, <1>6, <2>1
  <2>2. CASE k # 1
    <3>1. k > 1
      BY <1>4, <2>2
    <3>2. u <= a /\ a <= Now /\ calendar = After(s, a)
      BY <1>2, <3>1 DEF Reading
    <3> QED BY <1>1, <1>6, <2>2, <3>2
  <2> QED BY <2>1, <2>2
<1>11. PICK f : f = cur'
  OBVIOUS
<1>12. DOMAIN f = 1 .. 7 /\ f[k] = v /\ \A r \in 1 .. 7 : r # k => f[r] = cur[r]
  BY <1>4, <1>8, <1>11
<1>13. \A r \in 1 .. k : Seen(f, s, r, b, w)
  <2> SUFFICES ASSUME NEW r \in 1 .. k PROVE Seen(f, s, r, b, w)
    OBVIOUS
  <2>1. CASE r = k
    <3>1. n \in b .. w
      BY <1>10
    <3> QED BY <1>9, <1>12, <2>1, <3>1 DEF Seen
  <2>2. CASE r # k
    <3>1. k > 1 /\ r \in 1 .. k - 1 /\ r \in 1 .. 7 /\ b = a
      BY <1>4, <1>10, <2>2
    <3>2. Seen(cur, s, r, a, updates)
      BY <1>2, <3>1 DEF Reading
    <3>3. f[r] = cur[r]
      BY <1>12, <2>2, <3>1
    <3> QED BY <1>5, <3>1, <3>2, <3>3 DEF Seen
  <2> QED BY <2>1, <2>2
<1>14. \A r \in DOMAIN last : Seen(last, s, r, 0, u)
  BY <1>2 DEF Reading
<1>15. \A i \in 0 .. w : HourOk(After(s, i))
  BY <1>2, <1>5 DEF Reading
<1>16. \A i \in 0 .. updates' : HourOk(After(s, i))'
  BY <1>1, <1>5, <1>15, HoursStay
<1>17. rtc' = After(s, Now)'
  BY <1>1, <1>4, <1>6, <1>7
<1>18. ASSUME k < 7 PROVE DatesInv'
  <2>1. k' = k + 1 /\ pc' = pc /\ last' = last
    BY <1>18 DEF ReadRegister, Passes
  <2>2. \A r \in 1 .. k' - 1 : Seen(cur, s, r, b, updates)'
    <3>1. k' - 1 = k
      BY <1>4, <2>1
    <3> QED BY <1>1, <1>5, <1>11, <1>13, <3>1, CurIs
  <2>3. \A r \in DOMAIN last' : Seen(last, s, r, 0, u)'
    BY <1>1, <1>14, <2>1, LastStays
  <2>4. /\ k' \in 1 .. Passes /\ pc' # "wait" /\ uip' \in BOOLEAN
        /\ updates' \in 0 .. 59 /\ Now' \in 0 .. 59 /\ u <= updates' /\ u <= Now'
        /\ DOMAIN cur' = 1 .. Passes /\ u <= b /\ b <= Now' /\ calendar' = After(s, b)
    BY <1>1, <1>4, <1>5, <1>6, <1>7, <1>10, <1>11, <1>12, <1>18, <2>1 DEF Passes
  <2>5. Reading(s, b, u)'
    BY <1>16, <1>17, <2>2, <2>3, <2>4 DEF Reading
  <2>6. ReadInv'
    BY <2>5 DEF ReadInv
  <2> QED BY <1>1, <2>1, <2>6 DEF DatesInv, ConvertInv, TimeInv
<1>19. ASSUME k = 7, f # last PROVE DatesInv'
  <2>1. k' = 1 /\ pc' = "wait" /\ last' = f
    BY <1>11, <1>19 DEF ReadRegister, Passes
  <2>2. \A r \in DOMAIN last' : Seen(last, s, r, 0, w)'
    BY <1>1, <1>12, <1>13, <1>19, <2>1, LastIs
  <2>3. /\ k' \in 1 .. Passes /\ (pc' = "wait" => k' = 1) /\ uip' \in BOOLEAN
        /\ updates' \in 0 .. 59 /\ Now' \in 0 .. 59 /\ w <= updates' /\ pc' # "read"
        /\ DOMAIN cur' = 1 .. Passes /\ ~(k' > 1)
    BY <1>1, <1>4, <1>5, <1>6, <1>7, <1>11, <1>12, <2>1 DEF Passes
  <2>4. Reading(s, b, w)'
    BY <1>16, <1>17, <2>2, <2>3 DEF Reading
  <2>5. ReadInv'
    BY <2>4 DEF ReadInv
  <2> QED BY <1>1, <2>1, <2>5 DEF DatesInv, ConvertInv, TimeInv
<1>20. ASSUME k = 7, f = last PROVE DatesInv'
  <2>1. pc' = "convert"
    BY <1>11, <1>20 DEF ReadRegister, Passes
  <2>2. B \in Firmware
    BY <1>1 DEF SetupInv
  <2>3. \A r \in 1 .. 7 : Seen(f, s, r, 0, u) /\ Seen(f, s, r, b, w)
    BY <1>12, <1>13, <1>14, <1>20
  <2>4. \A r \in 1 .. 7 : f[r] = Registers(After(s, b))[r]
    <3>1. u <= b /\ b <= w
      BY <1>6, <1>10
    <3>2. ReadTwice(f, s, u, b, w)
      BY <1>3, <2>3, <3>1 DEF ReadTwice
    <3> QED BY <2>2, <3>2, PassesAgree
  <2>5. Registers(After(s, b))' = Registers(After(s, b))
    BY <1>1, SameRegisters
  <2>6. Covered(After(s, b))
    BY <1>3, AfterIs
  <2>7. HourOk(After(s, b))'
    <3>1. b \in 0 .. w
      BY <1>6, <1>10
    <3> QED BY <1>1, <1>15, <3>1, HoursStay
  <2>8. HourOk(calendar)'
    BY <1>10, <2>7 DEF HourOk
  <2>9. Registers(calendar)' = Registers(After(s, b))'
    BY <1>10 DEF Registers, HourRegister, Bcd
  <2>10. ConvertInv'
    BY <1>10, <1>11, <2>4, <2>5, <2>6, <2>8, <2>9 DEF ConvertInv, Passes
  <2> QED BY <1>1, <2>1, <2>10 DEF DatesInv, ReadInv, TimeInv
<1> QED BY <1>4, <1>18, <1>19, <1>20

LEMMA DatesConvert ==
    ASSUME SetupInv, DatesInv, Convert
    PROVE  DatesInv'
<1>1. /\ pc = "convert" /\ pc' = "setup" /\ calendar' = calendar
      /\ ticks' = ticks /\ shown' = shown
      /\ time' = ttime_parseDate(DateFrom(cur))
  BY DEF Convert, DateFrom
<1>2. PICK f : f = cur
  OBVIOUS
<1>3. PICK c : c = calendar
  OBVIOUS
<1>4. Covered(c) /\ HourOk(c) /\ \A r \in 1 .. 7 : f[r] = Registers(c)[r]
  BY <1>1, <1>2, <1>3 DEF DatesInv, ConvertInv, Passes
<1>5. B \in Firmware
  BY <1>1 DEF SetupInv
<1>6. DateFrom(f) = c
  BY <1>4, <1>5, RegistersBack
<1>7. time' = ttime_parseDate(calendar')
  BY <1>1, <1>2, <1>3, <1>6
<1> QED BY <1>1, <1>3, <1>4, <1>7 DEF DatesInv, ReadInv, ConvertInv, TimeInv

LEMMA DatesSetup ==
    ASSUME DatesInv, Setup
    PROVE  DatesInv'
<1>1. /\ pc = "setup" /\ pc' \in {"setup", "running"}
      /\ time' = time /\ ticks' = ticks /\ shown' = shown /\ calendar' = calendar
  BY DEF Setup, clock
<1> QED BY <1>1 DEF DatesInv, ReadInv, ConvertInv, TimeInv

\* The time of a covered date is less than a day after the day's beginning.
LEMMA NoSecondsAdded ==
    ASSUME NEW c, Covered(c)
    PROVE  AddSeconds(ttime_parseDate(c), 0) = ttime_parseDate(c)
<1>1. PICK z \in Nat : z = Secs(c) /\ z < DaySecs
  BY SecsAre DEF IsTimeOfDay, SecsOfDay
<1>2. PICK d \in Int : d = DayNumber(c.year, c.month, c.day)
  BY DayNumberIs DEF Covered
<1>3. ttime_parseDate(c) = [days |-> d, secs |-> z]
  BY <1>1, <1>2, ParseDateIs
<1>4. 0 \in Nat /\ 0 <= DaySecs /\ z + 0 = z /\ d + 0 = d
  BY SMT DEF DaySecs
<1>5. AddSeconds([days |-> d, secs |-> z], 0) = [days |-> d + 0, secs |-> z + 0]
  BY <1>1, <1>4, AddSecondsIs
<1> QED BY <1>3, <1>4, <1>5

\* What the parser of a time is given while less than a second's interrupts have come.
LEMMA NoSecondYet ==
    ASSUME NEW c, Covered(c), NEW n \in 0 .. RTC_FREQ - 1
    PROVE  /\ ttime(ttime_parseDate(c), n) = ttime_parseDate(c)
           /\ tdate(ttime_parseDate(c), n) = c
<1>1. n \div RTC_FREQ = 0
  <2>1. PICK q \in Nat \ {0} : q = RTC_FREQ
    BY ClockAssumption, SMT
  <2>2. n \in 0 .. q - 1
    BY <2>1
  <2>3. n \div q = 0
    BY <2>2
  <2> QED BY <2>1, <2>3
<1>2. tlibs_queryTime(ttime_parseDate(c), n) = ttime_parseDate(c)
  BY <1>1, NoSecondsAdded DEF tlibs_queryTime
<1> QED BY <1>2, DateBack DEF ttime, tdate

\* The clock counts n seconds.
LEMMA DatesGoOn ==
    ASSUME InBounds, TimeInv, InTime, pc = "running",
           NEW n \in Nat, n <= DaySecs, ticks' \in 0 .. RTC_FREQ - 1,
           time' = AddSeconds(time, n), calendar' = Later(calendar, n),
           shown' = tdate(time', ticks')
    PROVE  /\ Covered(calendar') /\ time' = ttime_parseDate(calendar')
           /\ shown' = calendar'
<1>1. PICK c : c = calendar
  OBVIOUS
<1>2. Covered(c) /\ time = ttime_parseDate(c)
  BY <1>1 DEF TimeInv
<1>3. Before2100(c)
  BY <1>1, <1>2 DEF InTime, InBounds, Before2100, Covered
<1>4. PICK d : d = Later(c, n)
  OBVIOUS
<1>5. Covered(d) /\ ttime_parseDate(d) = AddSeconds(ttime_parseDate(c), n)
  BY <1>3, <1>4, LaterAdds
<1>6. PICK i \in 0 .. RTC_FREQ - 1 : i = ticks'
  OBVIOUS
<1>7. tdate(ttime_parseDate(d), i) = d
  BY <1>5, NoSecondYet
<1>8. calendar' = d /\ time' = ttime_parseDate(d)
  BY <1>1, <1>2, <1>4, <1>5
<1> QED BY <1>5, <1>6, <1>7, <1>8

LEMMA DatesInterrupt ==
    ASSUME InBounds, SetupInv, DatesInv, Interrupt
    PROVE  DatesInv'
<1>1. pc = "running" /\ pc' = pc /\ InTime
  BY NoInterruptInSetup DEF Interrupt, install
<1>2. TimeInv
  BY DEF DatesInv
<1>3. PICK q \in Nat \ {0} : q = RTC_FREQ
  BY ClockAssumption, SMT
<1>4. CASE ticks + 1 = RTC_FREQ
  <2>1. /\ ticks' = 0 /\ time' = AddSeconds(time, 1) /\ shown' = tdate(time', ticks')
        /\ calendar' = Later(calendar, 1)
    BY <1>4 DEF Interrupt
  <2>2. ticks' \in 0 .. RTC_FREQ - 1
    BY <1>3, <2>1
  <2>3. 1 \in Nat /\ 1 <= DaySecs
    BY SMT DEF DaySecs
  <2>4. Covered(calendar') /\ time' = ttime_parseDate(calendar') /\ shown' = calendar'
    BY <1>1, <1>2, <2>1, <2>2, <2>3, DatesGoOn
  <2> QED BY <1>1, <2>2, <2>4 DEF DatesInv, ReadInv, ConvertInv, TimeInv
<1>5. CASE ticks + 1 # RTC_FREQ
  <2>1. ticks' = ticks + 1 /\ time' = time /\ shown' = shown /\ calendar' = calendar
    BY <1>5 DEF Interrupt
  <2>2. ticks' \in 0 .. RTC_FREQ - 1
    <3>1. ticks \in 0 .. q - 1
      BY <1>2, <1>3 DEF TimeInv
    <3>2. ticks + 1 # q
      BY <1>3, <1>5
    <3>3. ticks + 1 \in 0 .. q - 1
      BY <3>1, <3>2
    <3> QED BY <1>3, <2>1, <3>3
  <2> QED BY <1>1, <1>2, <2>1, <2>2 DEF DatesInv, ReadInv, ConvertInv, TimeInv
<1> QED BY <1>4, <1>5

LEMMA DatesElapse ==
    ASSUME InBounds, DatesInv, NEW n \in Gaps, Elapse(n)
    PROVE  DatesInv'
<1>1. pc = "running" /\ pc' = pc /\ InTime
  BY DEF Elapse, install
<1>2. TimeInv
  BY DEF DatesInv
<1>3. /\ time' = AddSeconds(time, n) /\ shown' = tdate(time', ticks') /\ ticks' = ticks
      /\ calendar' = Later(calendar, n)
  BY DEF Elapse
<1>4. n \in Nat /\ n <= DaySecs
  BY ClockAssumption, SMT DEF DaySecs
<1>5. ticks' \in 0 .. RTC_FREQ - 1
  BY <1>2, <1>3 DEF TimeInv
<1>6. Covered(calendar') /\ time' = ttime_parseDate(calendar') /\ shown' = calendar'
  BY <1>1, <1>2, <1>3, <1>4, <1>5, DatesGoOn
<1> QED BY <1>1, <1>5, <1>6 DEF DatesInv, ReadInv, ConvertInv, TimeInv

LEMMA DatesStutter ==
    ASSUME DatesInv, UNCHANGED vars
    PROVE  DatesInv'
<1>1. ReadInv'
  <2> SUFFICES ASSUME pc \in {"wait", "read"} PROVE ReadInv'
    BY DEF ReadInv, vars
  <2>1. PICK s \in Starts, a \in 0 .. 59, u \in 0 .. 59 : Reading(s, a, u)
    BY DEF DatesInv, ReadInv
  <2>2. Reading(s, a, u)'
    BY <2>1 DEF Reading, vars, Seen, Registers, Bcd, HourRegister, HourOk, Bit, Now
  <2> QED BY <2>2 DEF ReadInv
<1>2. ConvertInv'
  BY ConvertStays DEF DatesInv, vars
<1>3. TimeInv'
  BY DEF DatesInv, TimeInv, vars
<1> QED BY <1>1, <1>2, <1>3 DEF DatesInv

LEMMA DatesInductive == InBounds /\ SetupInv /\ DatesInv /\ [Next]_vars => DatesInv'
<1> SUFFICES ASSUME InBounds, SetupInv, DatesInv, [Next]_vars PROVE DatesInv'
  OBVIOUS
<1>1. CASE UpdateBegins BY <1>1, DatesUpdateBegins
<1>2. CASE UpdateEnds BY <1>2, DatesUpdateEnds
<1>3. CASE Wait BY <1>3, DatesWait
<1>4. CASE ReadRegister BY <1>4, DatesReadRegister
<1>5. CASE Convert BY <1>5, DatesConvert
<1>6. CASE Setup BY <1>6, DatesSetup
<1>7. CASE Interrupt BY <1>7, DatesInterrupt
<1>8. CASE \E n \in Gaps : Elapse(n) BY <1>8, DatesElapse
<1>9. CASE UNCHANGED vars BY <1>9, DatesStutter
<1> QED BY <1>1, <1>2, <1>3, <1>4, <1>5, <1>6, <1>7, <1>8, <1>9 DEF Next

LEMMA DatesInvGives == DatesInv => DatesAreRight
<1> SUFFICES ASSUME DatesInv PROVE DatesAreRight
  OBVIOUS
<1>1. PICK c : c = calendar
  OBVIOUS
<1>2. ASSUME pc \in {"setup", "running"} PROVE tdate_parseTime(time) = calendar
  <2>1. Covered(c) /\ time = ttime_parseDate(c)
    BY <1>1, <1>2 DEF DatesInv, TimeInv
  <2> QED BY <1>1, <2>1, DateBack
<1>3. ASSUME shown # <<>> PROVE shown = calendar /\ ttime_parseDate(shown) = ttime(time, ticks)
  <2>1. pc = "running" /\ shown = c
    BY <1>1, <1>3 DEF DatesInv, TimeInv
  <2>2. Covered(c) /\ time = ttime_parseDate(c)
    BY <1>1, <2>1 DEF DatesInv, TimeInv
  <2>3. PICK n \in 0 .. RTC_FREQ - 1 : n = ticks
    BY DEF DatesInv, TimeInv
  <2>4. ttime(ttime_parseDate(c), n) = ttime_parseDate(c)
    BY <2>2, NoSecondYet
  <2> QED BY <1>1, <2>1, <2>2, <2>3, <2>4
<1> QED BY <1>2, <1>3 DEF DatesAreRight

\* The date that is kept and shown is the calendar's, and goes back and forth between
\* date and time unchanged.
THEOREM DatesStayRight == InBounds => (Spec => []DatesAreRight)
<1> SUFFICES ASSUME InBounds PROVE Spec => []DatesAreRight
  OBVIOUS
<1>1. Init => SetupInv /\ DatesInv
  BY SetupInit, DatesInit
<1>2. SetupInv /\ DatesInv /\ [Next]_vars => (SetupInv /\ DatesInv)'
  BY SetupInductive, DatesInductive
<1> QED BY <1>1, <1>2, DatesInvGives, PTL DEF Spec
=============================================================================
