------------------------------- MODULE Clock -------------------------------
(***************************************************************************)
(* ktimer_calibrate (kfuncs.c): the wait for the real-time clock, its      *)
(* registers read one after the other, in BCD with two reads for one       *)
(* value, and the seconds since 1970 that come of it. The clock is cut     *)
(* down to seconds and minutes; the calendar is whole.                     *)
(***************************************************************************)
EXTENDS Integers, FiniteSets

CONSTANTS Digit,          \* values of a BCD digit: 10
          LastYear        \* bound: years the calendar is walked through

VARIABLES time,           \* what the clock has counted
          uip,            \* update in progress: the next second is near
          binary,         \* the clock counts in binary
          at,             \* wait, sec, sec high, min, min high, done
          clear,          \* uip was clear when the reading began
          begun,          \* the time then
          low, sec, stamp,
          date, days      \* a day's year and month, days from 1970 to the first of it

clockVars == <<time, uip, binary, at, clear, begun, low, sec, stamp, date, days>>

\* Seconds of a minute; the clock stops after Digit minutes: a bound.
PerMinute == Digit * Digit
Showing == [sec |-> time % PerMinute, min |-> time \div PerMinute]

Init ==
  /\ time \in 0..2 * PerMinute - 1 /\ uip \in BOOLEAN /\ binary \in BOOLEAN
  /\ at = "wait" /\ clear = FALSE /\ begun = 0 /\ low = 0 /\ sec = 0 /\ stamp = 0
  /\ date = [year |-> 1970, month |-> 1] /\ days = 0

ReadKept == UNCHANGED <<binary, at, clear, begun, low, sec, stamp>>
DateKept == UNCHANGED <<date, days>>

-----------------------------------------------------------------------------
(* The device: an update is announced longer ahead than a reading takes. *)

Announce ==
  /\ ~uip /\ time < Digit * PerMinute - 1
  /\ uip' = TRUE
  /\ UNCHANGED time /\ ReadKept /\ DateKept

Reading == at \notin {"wait", "done"}

Tick ==
  /\ uip /\ ~(Reading /\ clear) /\ time < Digit * PerMinute - 1
  /\ time' = time + 1 /\ uip' = FALSE
  /\ ReadKept /\ DateKept

-----------------------------------------------------------------------------
(* The reading *)

\* The bit looked at is bit 0, of the rate: it is 0 in the rate a PC starts with.
RateBit == FALSE

Wait ==
  /\ at = "wait" /\ ~RateBit
  /\ at' = "sec" /\ clear' = ~uip /\ begun' = time
  /\ UNCHANGED <<time, uip, binary, low, sec, stamp>> /\ DateKept

\* Mutant of BcdToBin: the digits weigh what they weigh in the register.
RawBcd(one, other) == one + (other \div Digit) * (Digit + 1)

\* BCD_TO_BIN evaluates its argument twice, and so has a digit from each of two reads.
BcdToBin(one, other) == one + (other \div Digit) * Digit

Read(place, value, high) ==
  /\ at = place
  /\ at' = high /\ low' = value % Digit
  /\ ~binary
  /\ UNCHANGED <<time, uip, binary, clear, begun, sec, stamp>> /\ DateKept

ReadSeconds ==
  \/ Read("sec", Showing.sec, "sec high")
  \/ /\ at = "sec" /\ binary
     /\ sec' = Showing.sec /\ at' = "min"
     /\ UNCHANGED <<time, uip, binary, clear, begun, low, stamp>> /\ DateKept

ReadSecondsHigh ==
  /\ at = "sec high" /\ at' = "min"
  /\ sec' = BcdToBin(low, Showing.sec)
  /\ UNCHANGED <<time, uip, binary, clear, begun, low, stamp>> /\ DateKept

ReadMinutes ==
  \/ Read("min", Showing.min, "min high")
  \/ /\ at = "min" /\ binary
     /\ stamp' = sec + Showing.min * PerMinute /\ at' = "done"
     /\ UNCHANGED <<time, uip, binary, clear, begun, low, sec>> /\ DateKept

ReadMinutesHigh ==
  /\ at = "min high" /\ at' = "done"
  /\ stamp' = sec + BcdToBin(low, Showing.min) * PerMinute
  /\ UNCHANGED <<time, uip, binary, clear, begun, low, sec>> /\ DateKept

-----------------------------------------------------------------------------
(* The calendar *)

MonthDays == <<31, 28, 31, 30, 31, 30, 31, 31, 30, 31, 30, 31>>

IsLeap(y) == y % 4 = 0 /\ (y % 100 # 0 \/ y % 400 = 0)

\* Leap days of the years from 1970 to the one before y.
Leaps(y) ==
  ((y - 1) \div 4 - 1969 \div 4) - ((y - 1) \div 100 - 1969 \div 100)
    + ((y - 1) \div 400 - 1969 \div 400)

DaysBefore[m \in 1..12] ==
  IF m = 1 THEN 0 ELSE DaysBefore[m - 1] + MonthDays[m - 1]

\* Days from 1970 to the first of a month, as rtc_to_timestamp has them.
RtcDays(y, m) ==
  (y - 1970) * 365 + Leaps(y) + DaysBefore[m] + IF m > 2 /\ IsLeap(y) THEN 1 ELSE 0

\* The Gregorian calendar.
MonthLength(d) == IF d.month = 2 /\ IsLeap(d.year) THEN 29 ELSE MonthDays[d.month]

NextMonth ==
  /\ date.year < LastYear
  /\ days' = days + MonthLength(date)
  /\ date' = IF date.month = 12 THEN [year |-> date.year + 1, month |-> 1]
             ELSE [date EXCEPT !.month = @ + 1]
  /\ UNCHANGED <<time, uip>> /\ ReadKept

\* The calendar and the reading have nothing in common.
Next ==
  \/ days = 0 /\ (Announce \/ Tick \/ Wait \/ ReadSeconds \/ ReadSecondsHigh \/ ReadMinutes
                  \/ ReadMinutesHigh)
  \/ at = "wait" /\ time = 0 /\ uip /\ NextMonth

Spec == Init /\ [][Next]_clockVars

-----------------------------------------------------------------------------
(***************************************************************************)
(* The time stamp of the first of every month is the days that have gone   *)
(* by since 1970, leap days by the rule of the Gregorian calendar included;*)
(* and a reading that no update falls into is the time the clock showed.   *)
(***************************************************************************)
ClockRight ==
  /\ RtcDays(date.year, date.month) = days
  /\ at = "done" /\ clear => stamp = begun
=============================================================================
