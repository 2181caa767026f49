---------------------------- MODULE CronCalendar ----------------------------
(***************************************************************************)
(* What ccronexpr.c asks of the C library: a broken-down local time (struct  *)
(* tm), mktime, which carries a field that left its range into the next      *)
(* field and then brings the clock to the time that is in force, and         *)
(* tm_wday. Years are written in full, months count from 0; dst is tm_isdst. *)
(***************************************************************************)
EXTENDS Integers

(* The rule in TZ: whether summer time is in force in an hour of standard time *)
(* (year, month, day and hour)                                                 *)
CONSTANT Summer(_, _, _, _)

Date(year, mon, mday, hour, min, sec) ==
  [year |-> year, mon |-> mon, mday |-> mday, hour |-> hour, min |-> min, sec |-> sec,
   dst |-> 0]

Leap(y) == (y % 4 = 0 /\ y % 100 # 0) \/ y % 400 = 0

DaysIn(year, mon) ==
  IF mon = 1 THEN IF Leap(year) THEN 29 ELSE 28
  ELSE IF mon \in {3, 5, 8, 10} THEN 30 ELSE 31

CarryMonths(c) == [c EXCEPT !.year = @ + c.mon \div 12, !.mon = @ % 12]

CarryDays(c) ==
  LET length == DaysIn(c.year, c.mon)
      before == CarryMonths([c EXCEPT !.mon = @ - 1])
  IN IF c.mday > length
     THEN CarryMonths([c EXCEPT !.mon = @ + 1, !.mday = @ - length])
     ELSE IF c.mday < 1
     THEN [before EXCEPT !.mday = @ + DaysIn(before.year, before.mon)]
     ELSE c

(* What a struct tm holds after mktime *)
Calendar ==
  {c \in [year : Int, mon : 0 .. 11, mday : 1 .. 31, hour : 0 .. 23, min : 0 .. 59, sec : 0 .. 59,
          dst : 0 .. 1] :
     c.mday <= DaysIn(c.year, c.mon)}

(* Every field in its range: exact for a day up to one month outside of its     *)
(* month, and the code never leaves it further.                                 *)
Carried(c) ==
  LET min  == c.min + c.sec \div 60
      hour == c.hour + min \div 60
  IN CarryDays(CarryMonths([c EXCEPT !.mday = @ + hour \div 24, !.hour = hour % 24,
                                     !.min = min % 60, !.sec = @ % 60]))

(* The standard time of a local time *)
Standard(c) == Carried([c EXCEPT !.hour = @ - c.dst, !.dst = 0])

InSummer(s) == Summer(s.year, s.mon, s.mday, s.hour)

(* The local time of a standard time *)
Local(s) == IF InSummer(s) THEN [Carried([s EXCEPT !.hour = @ + 1]) EXCEPT !.dst = 1] ELSE s

(* mktime: the instant is what the fields say under the tm_isdst they were left *)
(* with, and they are rewritten to the local time of that instant. (The code    *)
(* takes the result -1 for an error; that is one second of 1969.)               *)
cron_mktime(c) == Local(Standard(c))

(* Days of a common year before each month *)
DaysBefore == <<0, 31, 59, 90, 120, 151, 181, 212, 243, 273, 304, 334>>

(* Days since the end of the year 0: day 1 was a Monday. *)
DayNumber(c) ==
  LET y == c.year - 1
  IN 365 * y + y \div 4 - y \div 100 + y \div 400 + DaysBefore[c.mon + 1] + c.mday
       + (IF c.mon > 1 /\ Leap(c.year) THEN 1 ELSE 0)

Weekday(c) == DayNumber(c) % 7

Clock(c) == c.hour * 3600 + c.min * 60 + c.sec

(* By the calendar on the wall, and in time *)
Sooner(c, d) ==
  \/ DayNumber(c) < DayNumber(d)
  \/ DayNumber(c) = DayNumber(d) /\ Clock(c) < Clock(d)

Before(c, d) == Sooner(Standard(c), Standard(d))
=============================================================================
