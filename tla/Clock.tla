------------------------------- MODULE Clock -------------------------------
(***************************************************************************)
(* The clock (time.c): time_install reads the date of the real-time clock, *)
(* register by register while the device goes on counting, converts it to  *)
(* the time since 1970 and sets the device's periodic interrupt up, whose  *)
(* handler counts the seconds and converts the time back to the date that  *)
(* it prints.  The handler and time_install use the device through one     *)
(* index register.                                                         *)
(*                                                                         *)
(* A 64-bit time_us is kept as its days, seconds and microseconds; a       *)
(* microsecond is never set, and left out.                                 *)
(***************************************************************************)
EXTENDS Integers, Sequences

CONSTANTS
    Starts,         \* the device's dates when time_install begins
    Gaps,           \* seconds that pass at a time once the clock runs
    Years,          \* years it runs for
    RTC_FREQ,       \* periodic interrupts in a second, 8192
    MaxInterrupts,  \* interrupts that come one at a time
    MaxUpdates,     \* seconds that pass while time_install reads
    Permitted       \* situations the code does not handle; see AllSituations

\* "twelve": the device counts hours from 1 to 12, and it is twelve.
\* "year_2100": the date is after February 2100, whose year is no leap year.
AllSituations == {"twelve", "year_2100"}

ASSUME ClockAssumption ==
    /\ RTC_FREQ \in Nat \ {0} /\ Years \in Nat /\ MaxInterrupts \in Nat /\ MaxUpdates \in Nat
    /\ \A n \in Gaps : n \in Nat \ {0} /\ n <= 86400
    /\ Permitted \subseteq AllSituations

VARIABLES
    \* the device
    rtc,            \* its date
    uip,            \* the flag "update in progress"
    index,          \* the register that port 0x71 stands for
    A, B,           \* its control registers
    updates,        \* updates so far
    \* time_install
    pc,             \* "wait", "read", "convert", "setup", "running"
    k,              \* the next register of the pass, the next step of the setup
    last, cur,      \* the registers of the pass before and of this one
    prev,           \* what the setup has read
    \* the clock
    time,           \* time_us
    ticks,
    interrupts,     \* single interrupts so far
    shown,          \* the date printed last, <<>> for none
    calendar        \* history: the device's date at this pass's first read, then counted on

vars == <<rtc, uip, index, A, B, updates, pc, k, last, cur, prev,
          time, ticks, interrupts, shown, calendar>>
device == <<rtc, uip, A, B, updates>>
install == <<pc, k, last, cur, prev>>
clock == <<time, ticks, interrupts, shown, calendar>>

-----------------------------------------------------------------------------
(* The calendar, external: the date a second later.                        *)

Leap(y) == y % 4 = 0 /\ (y % 100 = 0 => y % 400 = 0)
MonthLength(y, m) == IF m = 2 THEN IF Leap(y) THEN 29 ELSE 28
                     ELSE IF m \in {4, 6, 9, 11} THEN 30 ELSE 31
IsDate(c) ==
    /\ c \in [year : 1970 .. 2100, month : 1 .. 12, day : 1 .. 31,
              hour : 0 .. 23, min : 0 .. 59, sec : 0 .. 59]
    /\ c.day <= MonthLength(c.year, c.month)
Secs(c) == (c.hour * 60 + c.min) * 60 + c.sec
AtSecs(c, s) == [c EXCEPT !.hour = s \div 3600, !.min = (s % 3600) \div 60, !.sec = s % 60]
NextDay(c) ==
    IF c.day < MonthLength(c.year, c.month) THEN [c EXCEPT !.day = @ + 1]
    ELSE IF c.month < 12 THEN [c EXCEPT !.day = 1, !.month = @ + 1]
    ELSE [c EXCEPT !.day = 1, !.month = 1, !.year = @ + 1]
\* At most a day later.
Later(c, n) ==
    LET s == Secs(c) + n
    IN  IF s < 86400 THEN AtSecs(c, s) ELSE NextDay(AtSecs(c, s - 86400))

\* The code's times begin with 1970, and its calendar is the world's to February 2100.
ASSUME StartsAssumption == \A c \in Starts : IsDate(c) /\ c.year < 2100

-----------------------------------------------------------------------------
(* The device's registers, external.  The bits of B: 4, binary, not BCD;   *)
(* 2, hours from 0 to 23; 64, the periodic interrupt is on.  The low four  *)
(* bits of A are its rate, 0 for none, the next three the divider.         *)

Bit(v, bit) == (v \div bit) % 2 = 1
Bcd(v) == IF Bit(B, 4) THEN v ELSE 16 * (v \div 10) + (v % 10)
HourRegister(h) ==
    IF Bit(B, 2) THEN Bcd(h)
    ELSE Bcd(((h + 11) % 12) + 1) + (IF h >= 12 THEN 128 ELSE 0)
\* The order in which a pass reads them.
Registers(c) == <<Bcd(c.sec), Bcd(c.min), HourRegister(c.hour), Bcd(c.day), Bcd(c.month),
                  Bcd(c.year % 100), Bcd(c.year \div 100)>>
Passes == 7

UpdateBegins ==
    /\ pc \in {"wait", "read"} /\ ~uip /\ updates < MaxUpdates
    /\ Later(rtc, 1).hour % 12 = 0 => Bit(B, 2) \/ "twelve" \in Permitted
    /\ uip' = TRUE /\ updates' = updates + 1
    /\ UNCHANGED <<rtc, index, A, B>> /\ UNCHANGED install /\ UNCHANGED clock
UpdateEnds ==
    /\ uip
    /\ uip' = FALSE /\ rtc' = Later(rtc, 1)
    /\ UNCHANGED <<index, A, B, updates>> /\ UNCHANGED install /\ UNCHANGED clock

\* What a register shows: during the update its old or its new value.
Showing(r) == {Registers(rtc)[r]} \cup (IF uip THEN {Registers(Later(rtc, 1))[r]} ELSE {})

-----------------------------------------------------------------------------
(* Dates and times.                                                        *)

mdays == <<0, 31, 59, 90, 120, 151, 181, 212, 243, 273, 304, 334, 365>>
mdays_leap == <<0, 31, 60, 91, 121, 152, 182, 213, 244, 274, 305, 335, 366>>

ttime_computeDaysForYear(year) ==
    LET ret[i \in 1970 .. year] ==
            IF i = 1970 THEN 0 ELSE ret[i - 1] + (IF (i - 1) % 4 = 0 THEN 366 ELSE 365)
    IN  ret[year]
ttime_computeDaysForMonthWithYear(month, year) ==
    ttime_computeDaysForYear(year) + (IF year % 4 = 0 THEN mdays_leap ELSE mdays)[month]
ttime_computeTime(sec, min, hour, day, month, year) ==
    [days |-> day - 1 + ttime_computeDaysForMonthWithYear(month, year),
     secs |-> sec + (min + hour * 60) * 60]
ttime_parseDate(dt) == ttime_computeTime(dt.sec, dt.min, dt.hour, dt.day, dt.month, dt.year)

tdate_parseTime(t) ==
    LET epochYears == (t.days - ((t.days + 365) \div 1460)) \div 365
        yearDay == t.days - (epochYears * 365 + (epochYears + 1) \div 4)
        year == 1970 + epochYears
        mstart == IF year % 4 # 0 THEN mdays ELSE mdays_leap
        month == CHOOSE m \in 1 .. 12 : /\ yearDay < mstart[m + 1]
                                        /\ \A j \in 1 .. m - 1 : yearDay >= mstart[j + 1]
    IN  [sec |-> t.secs % 60, min |-> (t.secs % 3600) \div 60, hour |-> t.secs \div 3600,
         day |-> 1 + yearDay - mstart[month], month |-> month, year |-> year]

AddSeconds(t, n) ==
    LET s == t.secs + n IN [days |-> t.days + s \div 86400, secs |-> s % 86400]

\* The seconds counted and the interrupts since, as the parser takes them.
tlibs_queryTime(t, n) == AddSeconds(t, n \div RTC_FREQ)
tdate(t, n) == tdate_parseTime(tlibs_queryTime(t, n))
ttime(t, n) == tlibs_queryTime(t, n)

-----------------------------------------------------------------------------
(* time_install: the date.                                                 *)

\* while(get_update_in_progress_flag()).
Wait ==
    /\ pc = "wait" /\ ~uip
    /\ pc' = "read" /\ k' = 1
    /\ index' = 13
    /\ UNCHANGED <<rtc, uip, A, B, updates, last, cur, prev>> /\ UNCHANGED clock

\* get_RTC_register; after the last one the pass is compared with the pass before.
ReadRegister_Once ==                                                   \* mutant
    /\ pc = "read"
    /\ \E v \in Showing(k) : cur' = [cur EXCEPT ![k] = v]
    /\ IF k < Passes THEN k' = k + 1 /\ UNCHANGED <<pc, last>>
       ELSE /\ k' = 1 /\ last' = cur'
            /\ pc' = "convert"
    /\ calendar' = IF k = 1 THEN rtc ELSE calendar
    /\ index' = 13
    /\ UNCHANGED device /\ UNCHANGED <<prev, time, ticks, interrupts, shown>>
ReadRegister ==
    /\ pc = "read"
    /\ \E v \in Showing(k) : cur' = [cur EXCEPT ![k] = v]
    /\ IF k < Passes THEN k' = k + 1 /\ UNCHANGED <<pc, last>>
       ELSE /\ k' = 1 /\ last' = cur'
            /\ pc' = IF cur' = last THEN "convert" ELSE "wait"
    /\ calendar' = IF k = 1 THEN rtc ELSE calendar
    /\ index' = 13
    /\ UNCHANGED device /\ UNCHANGED <<prev, time, ticks, interrupts, shown>>

\* The conversions by register B, then the time.
FromBcd(v) == IF Bit(B, 4) THEN v ELSE (v % 16) + (v \div 16) * 10
HourFrom(v) ==
    LET hour == FromBcd(v % 128) + 128 * (v \div 128)
    IN  IF ~Bit(B, 2) /\ Bit(hour, 128) THEN ((hour % 128) + 12) % 24 ELSE hour
Convert ==
    /\ pc = "convert"
    /\ time' = ttime_parseDate(
                   [sec |-> FromBcd(cur[1]), min |-> FromBcd(cur[2]), hour |-> HourFrom(cur[3]),
                    day |-> FromBcd(cur[4]), month |-> FromBcd(cur[5]),
                    year |-> FromBcd(cur[6]) + FromBcd(cur[7]) * 100])
    /\ pc' = "setup" /\ k' = 1 /\ index' = 13
    /\ UNCHANGED device /\ UNCHANGED <<last, cur, prev, ticks, interrupts, shown, calendar>>

-----------------------------------------------------------------------------
(* time_install: the interrupt.                                            *)

\* The writes to the index port 0x70, the reads and the writes of the data port 0x71.
\* A read leaves the index at register D.
Select(r) == index' = r /\ UNCHANGED <<A, B, prev>>
In == /\ prev' = CASE index = 10 -> A [] index = 11 -> B [] index = 13 -> 128 [] OTHER -> 0
      /\ index' = 13 /\ UNCHANGED <<A, B>>
Out(v) == /\ A' = IF index = 10 THEN v ELSE A
          /\ B' = IF index = 11 THEN v ELSE B
          /\ UNCHANGED <<index, prev>>
RTC_RATE == 3
WithRate(v) == 16 * (v \div 16) + RTC_RATE
WithInterrupt(v) == IF Bit(v, 64) THEN v ELSE v + 64

SetupSteps == 10
Setup_RateStays ==                                                     \* mutant
    /\ pc = "setup"
    /\ CASE k \in {1, 7, 9} -> Select(10)
         [] k = 2 -> UNCHANGED <<A, B, index, prev>>
         [] k \in {3, 5} -> Select(11)
         [] k \in {4, 8} -> In
         [] k = 6 -> Out(WithInterrupt(prev))
         [] k = 10 -> Out(WithRate(prev))
    /\ k' = k + 1 /\ pc' = IF k = SetupSteps THEN "running" ELSE "setup"
    /\ UNCHANGED <<rtc, uip, updates, last, cur>> /\ UNCHANGED clock
Setup ==
    /\ pc = "setup"
    /\ CASE k \in {1, 7, 9} -> Select(10)
         [] k = 2 -> Out(32)
         [] k \in {3, 5} -> Select(11)
         [] k \in {4, 8} -> In
         [] k = 6 -> Out(WithInterrupt(prev))
         [] k = 10 -> Out(WithRate(prev))
    /\ k' = k + 1 /\ pc' = IF k = SetupSteps THEN "running" ELSE "setup"
    /\ UNCHANGED <<rtc, uip, updates, last, cur>> /\ UNCHANGED clock

-----------------------------------------------------------------------------
(* rtc_handler.  It leaves the index where its read of register C leaves it.*)

InterruptsCome == Bit(B, 64) /\ A % 16 # 0 /\ pc \in {"setup", "running"}
\* The bound of a run, and of the code's calendar.
InTime == /\ calendar.year < rtc.year + Years
          /\ calendar.year < 2100 \/ "year_2100" \in Permitted

Interrupt ==
    /\ InterruptsCome /\ InTime /\ interrupts < MaxInterrupts
    /\ IF ticks + 1 = RTC_FREQ
         THEN /\ ticks' = 0 /\ time' = AddSeconds(time, 1)
              /\ shown' = tdate(time', ticks')
              /\ calendar' = Later(calendar, 1)
         ELSE ticks' = ticks + 1 /\ UNCHANGED <<time, shown, calendar>>
    /\ index' = 13 /\ interrupts' = interrupts + 1
    /\ UNCHANGED device /\ UNCHANGED install

\* As many interrupts as come in n seconds.
Elapse(n) ==
    /\ InterruptsCome /\ InTime /\ pc = "running"
    /\ time' = AddSeconds(time, n) /\ shown' = tdate(time', ticks)
    /\ calendar' = Later(calendar, n)
    /\ index' = 13
    /\ UNCHANGED <<ticks, interrupts>> /\ UNCHANGED device /\ UNCHANGED install

-----------------------------------------------------------------------------

Init ==
    /\ rtc \in Starts /\ uip = FALSE /\ index \in {0, 13}
    /\ A = 38 /\ B \in {0, 2, 4, 6}
    /\ rtc.hour % 12 = 0 => Bit(B, 2) \/ "twelve" \in Permitted
    /\ updates = 0
    /\ pc = "wait" /\ k = 1 /\ last = <<>> /\ cur = [r \in 1 .. Passes |-> 0] /\ prev = 0
    /\ time = [days |-> 0, secs |-> 0] /\ ticks = 0 /\ interrupts = 0
    /\ shown = <<>> /\ calendar = rtc

Next ==
    \/ UpdateBegins
    \/ UpdateEnds
    \/ Wait
    \/ ReadRegister
    \/ Convert
    \/ Setup
    \/ Interrupt
    \/ \E n \in Gaps : Elapse(n)

Spec == Init /\ [][Next]_vars

-----------------------------------------------------------------------------
(* Properties.                                                             *)

\* The date on the screen is the calendar's: time_install has taken a date that the
\* device showed, whole, though it reads seven registers of a device that goes on
\* counting; and the way from the registers to the time since 1970 and, as seconds are
\* added, back to a date loses nothing; and the date shown is parsed to the time that
\* ttime() gives.
DatesAreRight ==
    /\ (pc \in {"setup", "running"} /\ shown = <<>>) => tdate_parseTime(time) = calendar
    /\ shown # <<>> => shown = calendar /\ ttime_parseDate(shown) = ttime(time, ticks)

\* The interrupt comes at the rate the handler counts by: the setup writes register A
\* and B through the index that an interrupt between two of its steps would move, so
\* it must keep the device silent until its last write.
RateIsSet == pc = "running" => A = 32 + RTC_RATE /\ Bit(B, 64)
=============================================================================
