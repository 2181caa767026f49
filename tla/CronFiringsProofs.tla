------------------------- MODULE CronFiringsProofs -------------------------
(***************************************************************************)
(* Proofs about CronFirings, for every set of texts within the grammar, all  *)
(* dates to start at, every rule of the time zone and any depth of the       *)
(* stack: what the parser makes of a text, and what cron_next answers. The   *)
(* order is that of the layers:                                              *)
(*   - the calendar: days are numbered in order, cron_mktime keeps the day;  *)
(*   - the search of each field, the day and the month included;             *)
(*   - one call of do_next, visit by visit, given what deeper calls promise, *)
(*     then the recursion, and cron_next;                                    *)
(*   - the days FiringDays looks at, while the clock is not changed;         *)
(*   - the parser: tokens, ranges, parts, fields and the whole text;         *)
(*   - the invariant of a job, and the theorems.                             *)
(***************************************************************************)
EXTENDS CronFirings, FunctionTheorems, WellFoundedInduction, TLAPS

(***************************************************************************)
(* The calendar                                                             *)
(***************************************************************************)

(* Days before the year y, and before the month m of a year y *)
YearStart(y)     == 365 * (y - 1) + (y - 1) \div 4 - (y - 1) \div 100 + (y - 1) \div 400
MonthStart(y, m) == DaysBefore[m + 1] + (IF m > 1 /\ Leap(y) THEN 1 ELSE 0)

(* A year has 365 days or, every leap year, 366. *)
LEMMA YearLength ==
  ASSUME NEW y \in Int
  PROVE  YearStart(y + 1) = YearStart(y) + 365 + (IF Leap(y) THEN 1 ELSE 0)
BY SMT DEF YearStart, Leap

(* A later year starts after the end of an earlier one. *)
LEMMA YearOrder ==
  ASSUME NEW y \in Int, NEW z \in Int, y < z
  PROVE  YearStart(y) \in Int /\ YearStart(z) \in Int
         /\ YearStart(y) + 365 + (IF Leap(y) THEN 1 ELSE 0) <= YearStart(z)
<1>1. YearStart(y + 1) <= YearStart(z)
  BY SMT DEF YearStart
<1>2. YearStart(y) \in Int /\ YearStart(z) \in Int
  BY SMT DEF YearStart
<1>3. QED
  BY SMT, <1>1, <1>2, YearLength

(* The days before each month *)
LEMMA MonthStarts ==
  ASSUME NEW y
  PROVE  /\ MonthStart(y, 0) = 0
         /\ MonthStart(y, 1) = 31
         /\ MonthStart(y, 2)  = 59  + (IF Leap(y) THEN 1 ELSE 0)
         /\ MonthStart(y, 3)  = 90  + (IF Leap(y) THEN 1 ELSE 0)
         /\ MonthStart(y, 4)  = 120 + (IF Leap(y) THEN 1 ELSE 0)
         /\ MonthStart(y, 5)  = 151 + (IF Leap(y) THEN 1 ELSE 0)
         /\ MonthStart(y, 6)  = 181 + (IF Leap(y) THEN 1 ELSE 0)
         /\ MonthStart(y, 7)  = 212 + (IF Leap(y) THEN 1 ELSE 0)
         /\ MonthStart(y, 8)  = 243 + (IF Leap(y) THEN 1 ELSE 0)
         /\ MonthStart(y, 9)  = 273 + (IF Leap(y) THEN 1 ELSE 0)
         /\ MonthStart(y, 10) = 304 + (IF Leap(y) THEN 1 ELSE 0)
         /\ MonthStart(y, 11) = 334 + (IF Leap(y) THEN 1 ELSE 0)
BY SMT DEF MonthStart, DaysBefore

(* The months fill the year without a gap, and have 28 to 31 days. *)
LEMMA MonthLengths ==
  ASSUME NEW y, NEW m \in 0 .. 11
  PROVE  /\ DaysIn(y, m) \in 28 .. 31
         /\ MonthStart(y, m) \in Nat
         /\ m < 11 => MonthStart(y, m + 1) = MonthStart(y, m) + DaysIn(y, m)
         /\ m = 11 => MonthStart(y, m) + DaysIn(y, m) = 365 + (IF Leap(y) THEN 1 ELSE 0)
         /\ m \in {0, 2, 4, 6, 7, 9, 11} => DaysIn(y, m) = 31
BY SMT, MonthStarts DEF DaysIn

(* A later month of a year starts after the end of an earlier one. *)
LEMMA MonthOrder ==
  ASSUME NEW y, NEW m \in 0 .. 11, NEW n \in 0 .. 11, m < n
  PROVE  MonthStart(y, m) + DaysIn(y, m) <= MonthStart(y, n)
BY SMT, MonthStarts DEF DaysIn

(* A month ends before its year does. *)
LEMMA MonthInYear ==
  ASSUME NEW y, NEW m \in 0 .. 11
  PROVE  MonthStart(y, m) + DaysIn(y, m) <= 365 + (IF Leap(y) THEN 1 ELSE 0)
BY SMT, MonthStarts DEF DaysIn

(* Dates may have a day beyond its month here. *)
Raw == [year : Int, mon : 0 .. 11, mday : Int, hour : Int, min : Int, sec : Int,
        dst : 0 .. 1]

(* The day number counts the days of the years, of the months and of the month. *)
LEMMA DayNumberSum ==
  ASSUME NEW c \in Raw
  PROVE  /\ DayNumber(c) = YearStart(c.year) + MonthStart(c.year, c.mon) + c.mday
         /\ YearStart(c.year) \in Int
         /\ MonthStart(c.year, c.mon) \in Nat
         /\ DayNumber(c) \in Int
<1>1. c.year \in Int /\ c.mon \in 0 .. 11 /\ c.mday \in Int
  BY SMT DEF Raw
<1>2. YearStart(c.year) \in Int
  BY SMT, <1>1 DEF YearStart
<1>3. MonthStart(c.year, c.mon) \in Nat
  BY Zenon, <1>1, MonthLengths
<1>4. DaysBefore[c.mon + 1] \in Int
  BY SMT, <1>1 DEF DaysBefore
<1>5. DayNumber(c) = YearStart(c.year) + MonthStart(c.year, c.mon) + c.mday
  BY SMT, <1>1, <1>2, <1>3, <1>4 DEF DayNumber, YearStart, MonthStart
<1>6. QED
  BY SMT, <1>1, <1>2, <1>3, <1>5
ClockOf(h, m, s) == h * 3600 + m * 60 + s

DaySeconds == 86400

(* A time of day is less than a day. *)
LEMMA ClockRange ==
  ASSUME NEW h \in 0 .. 23, NEW m \in 0 .. 59, NEW s \in 0 .. 59
  PROVE  ClockOf(h, m, s) \in Int /\ 0 <= ClockOf(h, m, s) /\ ClockOf(h, m, s) < DaySeconds
BY SMT DEF ClockOf, DaySeconds

(* ... and back *)
HourOf(t) == t \div 3600
MinOf(t)  == (t \div 60) % 60
SecOf(t)  == t % 60

(* The hours, minutes and seconds of a time of day are read back from it. *)
LEMMA ClockDigits ==
  ASSUME NEW h \in 0 .. 23, NEW m \in 0 .. 59, NEW s \in 0 .. 59
  PROVE  HourOf(ClockOf(h, m, s)) = h /\ MinOf(ClockOf(h, m, s)) = m /\ SecOf(ClockOf(h, m, s)) = s
<1>1. ClockOf(h, m, s) = 60 * (60 * h + m) + s
  BY SMT DEF ClockOf
<1>2. ClockOf(h, m, s) \div 60 = 60 * h + m /\ ClockOf(h, m, s) % 60 = s
  BY SMT, <1>1
<1>3. QED
  BY SMT, <1>1, <1>2 DEF HourOf, MinOf, SecOf

(* The clock of a date is its time of day. *)
LEMMA ClockFields ==
  ASSUME NEW c
  PROVE  Clock(c) = ClockOf(c.hour, c.min, c.sec)
BY SMT DEF Clock, ClockOf

Stamp(c) == DaySeconds * DayNumber(c) + Clock(c)

(* The ranges of the fields of a date *)
LEMMA CalendarFields ==
  ASSUME NEW c \in Calendar
  PROVE  /\ c \in Raw
         /\ c.year \in Int /\ c.mon \in 0 .. 11 /\ c.mday \in 1 .. 31
         /\ c.mday <= DaysIn(c.year, c.mon)
         /\ c.hour \in 0 .. 23 /\ c.min \in 0 .. 59 /\ c.sec \in 0 .. 59
         /\ Clock(c) \in Int /\ 0 <= Clock(c) /\ Clock(c) < DaySeconds
         /\ DayNumber(c) \in Int
         /\ Stamp(c) \in Int
<1>1. /\ c \in Raw
      /\ c.year \in Int /\ c.mon \in 0 .. 11 /\ c.mday \in 1 .. 31
      /\ c.mday <= DaysIn(c.year, c.mon)
      /\ c.hour \in 0 .. 23 /\ c.min \in 0 .. 59 /\ c.sec \in 0 .. 59
  BY SMT DEF Calendar, Raw
<1>2. Clock(c) \in Int /\ 0 <= Clock(c) /\ Clock(c) < DaySeconds
  BY Zenon, <1>1, ClockFields, ClockRange
<1>3. DayNumber(c) \in Int
  BY Zenon, <1>1, DayNumberSum
<1>4. QED
  BY SMT, <1>1, <1>2, <1>3 DEF Stamp, DaySeconds

(* Fields in their ranges make a date. *)
LEMMA InCalendar ==
  ASSUME NEW c \in Raw, c.mday \in 1 .. DaysIn(c.year, c.mon),
         c.hour \in 0 .. 23, c.min \in 0 .. 59, c.sec \in 0 .. 59
  PROVE  c \in Calendar
<1>1. DaysIn(c.year, c.mon) \in 28 .. 31
  BY SMT, MonthLengths DEF Raw
<1>2. c.mday \in 1 .. 31 /\ c.mday <= DaysIn(c.year, c.mon)
  BY SMT, <1>1
<1>3. QED
  BY SMT, <1>2 DEF Calendar, Raw

(* A day of a later month has the greater number. *)
LEMMA MonthLater ==
  ASSUME NEW c \in Raw, NEW d \in Raw, c.mday <= DaysIn(c.year, c.mon), d.mday >= 1,
         c.year < d.year \/ (c.year = d.year /\ c.mon < d.mon)
  PROVE  DayNumber(c) < DayNumber(d)
<1> DEFINE y == c.year
           z == d.year
           m == c.mon
           n == d.mon
<1>1. y \in Int /\ z \in Int /\ m \in 0 .. 11 /\ n \in 0 .. 11 /\ c.mday \in Int /\ d.mday \in Int
      /\ c.mday <= DaysIn(y, m) /\ d.mday >= 1
  BY SMT DEF Raw
<1>2. DayNumber(c) = YearStart(y) + MonthStart(y, m) + c.mday /\ YearStart(y) \in Int
      /\ MonthStart(y, m) \in Nat
  BY Zenon, DayNumberSum
<1>3. DayNumber(d) = YearStart(z) + MonthStart(z, n) + d.mday /\ YearStart(z) \in Int
      /\ MonthStart(z, n) \in Nat
  BY Zenon, DayNumberSum
<1>4. DaysIn(y, m) \in 28 .. 31
  BY Zenon, <1>1, MonthLengths
<1>5. CASE y < z
  <2>1. YearStart(y) + 365 + (IF Leap(y) THEN 1 ELSE 0) <= YearStart(z)
    BY Zenon, <1>1, <1>5, YearOrder
  <2>2. MonthStart(y, m) + DaysIn(y, m) <= 365 + (IF Leap(y) THEN 1 ELSE 0)
    BY ZenonT(60), <1>1, MonthInYear
  <2> HIDE DEF y, z, m, n
  <2>3. QED
    BY SMT, <1>1, <1>2, <1>3, <1>4, <2>1, <2>2
<1>6. CASE y = z /\ m < n
  <2>1. MonthStart(y, m) + DaysIn(y, m) <= MonthStart(y, n)
    BY Zenon, <1>1, <1>6, MonthOrder
  <2> HIDE DEF y, z, m, n
  <2>2. QED
    BY SMT, <1>1, <1>2, <1>3, <1>4, <1>6, <2>1
<1>7. QED
  BY Zenon, <1>5, <1>6

(* Within a month the days are counted one by one. *)
LEMMA SameMonthDays ==
  ASSUME NEW c \in Raw, NEW d \in Raw, c.year = d.year, c.mon = d.mon
  PROVE  DayNumber(d) - DayNumber(c) = d.mday - c.mday
<1>1. c.mday \in Int /\ d.mday \in Int
  BY SMT DEF Raw
<1>2. QED
  BY SMT, <1>1, DayNumberSum

(* Two dates with the number of one day are of one day. *)
LEMMA SameDay ==
  ASSUME NEW c \in Calendar, NEW d \in Calendar, DayNumber(c) = DayNumber(d)
  PROVE  c.year = d.year /\ c.mon = d.mon /\ c.mday = d.mday
<1>1. c.year \in Int /\ d.year \in Int /\ c.mon \in Int /\ d.mon \in Int /\ c.mday \in Int /\ d.mday \in Int
      /\ DayNumber(c) \in Int
  BY SMT, CalendarFields
<1>2. ~(c.year < d.year \/ (c.year = d.year /\ c.mon < d.mon))
  BY SMT, <1>1, CalendarFields, MonthLater
<1>3. ~(d.year < c.year \/ (d.year = c.year /\ d.mon < c.mon))
  BY SMT, <1>1, CalendarFields, MonthLater
<1>4. c.year = d.year /\ c.mon = d.mon
  BY SMT, <1>1, <1>2, <1>3
<1>5. QED
  BY SMT, <1>1, <1>4, CalendarFields, SameMonthDays

(* Pairs of a day and a second of the day are ordered as the seconds they add up to. *)
LEMMA DaysAndSeconds ==
  ASSUME NEW m \in Int, NEW n \in Int, NEW s \in Int, NEW t \in Int,
         0 <= s, s < DaySeconds, 0 <= t, t < DaySeconds
  PROVE  /\ m < n => DaySeconds * m + s < DaySeconds * n + t
         /\ DaySeconds * m + s < DaySeconds * n + t <=> m < n \/ (m = n /\ s < t)
         /\ DaySeconds * m + s = DaySeconds * n + t => m = n /\ s = t
<1>1. ASSUME NEW x \in Int, NEW y \in Int, NEW u \in Int, NEW v \in Int,
             0 <= u, u < DaySeconds, 0 <= v, v < DaySeconds, x < y
      PROVE  DaySeconds * x + u < DaySeconds * y + v
  BY SMT, <1>1 DEF DaySeconds
<1>2. CASE m < n
  <2>1. DaySeconds * m + s < DaySeconds * n + t
    BY SMT, <1>1, <1>2 DEF DaySeconds
  <2>2. QED
    BY SMT, <1>2, <2>1 DEF DaySeconds
<1>3. CASE n < m
  <2>1. DaySeconds * n + t < DaySeconds * m + s
    BY SMT, <1>1, <1>3 DEF DaySeconds
  <2>2. QED
    BY SMT, <1>3, <2>1 DEF DaySeconds
<1>4. CASE m = n
  BY SMT, <1>4 DEF DaySeconds
<1>5. QED
  BY SMT, <1>2, <1>3, <1>4

(* Stamps are ordered as dates are: by the day first, then by the clock. *)
LEMMA StampDays ==
  ASSUME NEW c \in Calendar, NEW d \in Calendar
  PROVE  /\ Stamp(c) < Stamp(d) <=> Sooner(c, d)
         /\ Stamp(c) = Stamp(d) => DayNumber(c) = DayNumber(d) /\ Clock(c) = Clock(d)
         /\ DayNumber(c) < DayNumber(d) => Stamp(c) < Stamp(d)
<1>1. /\ DayNumber(c) \in Int /\ Clock(c) \in Int /\ 0 <= Clock(c) /\ Clock(c) < DaySeconds
      /\ DayNumber(d) \in Int /\ Clock(d) \in Int /\ 0 <= Clock(d) /\ Clock(d) < DaySeconds
  BY SMT, CalendarFields
<1>2. Stamp(c) < Stamp(d) <=>
        DayNumber(c) < DayNumber(d) \/ (DayNumber(c) = DayNumber(d) /\ Clock(c) < Clock(d))
  BY ZenonT(60), <1>1, DaysAndSeconds DEF Stamp
<1>3. Stamp(c) = Stamp(d) => DayNumber(c) = DayNumber(d) /\ Clock(c) = Clock(d)
  BY Zenon, <1>1, DaysAndSeconds DEF Stamp
<1>4. QED
  BY Zenon, <1>2, <1>3 DEF Sooner

(* A stamp belongs to one date. *)
LEMMA SameStamp ==
  ASSUME NEW c \in Calendar, NEW d \in Calendar, Stamp(c) = Stamp(d), c.dst = d.dst
  PROVE  c = d
<1>1. DayNumber(c) = DayNumber(d) /\ Clock(c) = Clock(d)
  BY Zenon, StampDays
<1>2. c.year = d.year /\ c.mon = d.mon /\ c.mday = d.mday
  BY Zenon, <1>1, SameDay
<1>3. /\ c.hour \in 0 .. 23 /\ c.min \in 0 .. 59 /\ c.sec \in 0 .. 59
      /\ d.hour \in 0 .. 23 /\ d.min \in 0 .. 59 /\ d.sec \in 0 .. 59
  BY SMT DEF Calendar
<1>4. HourOf(Clock(c)) = c.hour /\ MinOf(Clock(c)) = c.min /\ SecOf(Clock(c)) = c.sec
  BY ZenonT(60), <1>3, ClockFields, ClockDigits
<1>4a. HourOf(Clock(d)) = d.hour /\ MinOf(Clock(d)) = d.min /\ SecOf(Clock(d)) = d.sec
  BY ZenonT(60), <1>3, ClockFields, ClockDigits
<1>5. c.hour = d.hour /\ c.min = d.min /\ c.sec = d.sec
  BY Zenon, <1>1, <1>4, <1>4a
<1>6. QED
  BY SMT, <1>2, <1>5 DEF Calendar

(* How far the fields leave their ranges before cron_mktime brings them back *)
Spread == [year : Int, mon : 0 .. 11, mday : 1 .. 40,
           hour : -2 .. 24, min : -1 .. 60, sec : -1 .. 60, dst : 0 .. 1]

(* The minutes, the hours and the days with what is carried into them *)
CarriedMin(c)  == c.min + c.sec \div 60
CarriedHour(c) == c.hour + CarriedMin(c) \div 60
CarriedDay(c)  == CarriedHour(c) \div 24

(* Seconds, minutes and hours one beyond their ranges are carried by a day at most. *)
LEMMA ClockCarries ==
  ASSUME NEW c, c.hour \in -2 .. 24, c.min \in -1 .. 60, c.sec \in -1 .. 60
  PROVE  /\ c.sec % 60 \in 0 .. 59 /\ CarriedMin(c) % 60 \in 0 .. 59
         /\ CarriedHour(c) % 24 \in 0 .. 23
         /\ CarriedDay(c) \in -1 .. 1
         /\ DaySeconds * CarriedDay(c) + ClockOf(CarriedHour(c) % 24, CarriedMin(c) % 60, c.sec % 60)
              = ClockOf(c.hour, c.min, c.sec)
         /\ c.min \in 0 .. 59 /\ c.sec \in 0 .. 59 => CarriedMin(c) % 60 = c.min /\ c.sec % 60 = c.sec
<1> DEFINE h == c.hour
           m == c.min
           s == c.sec
           mi == CarriedMin(c)
           ho == CarriedHour(c)
<1>1. h \in -2 .. 24 /\ m \in -1 .. 60 /\ s \in -1 .. 60
  OBVIOUS
<1>2. mi = m + s \div 60 /\ ho = h + mi \div 60 /\ CarriedDay(c) = ho \div 24
  BY Zenon DEF CarriedMin, CarriedHour, CarriedDay
<1> HIDE DEF h, m, s, mi, ho
<1>3. s \div 60 \in {-1, 0, 1} /\ s = 60 * (s \div 60) + (s % 60) /\ s % 60 \in 0 .. 59
  BY SMT, <1>1
<1>4. mi \in -2 .. 61
  BY SMT, <1>1, <1>2, <1>3
<1>5. mi \div 60 \in {-1, 0, 1} /\ mi = 60 * (mi \div 60) + (mi % 60) /\ mi % 60 \in 0 .. 59
  BY SMT, <1>4
<1>6. ho \in -3 .. 25
  BY SMT, <1>1, <1>2, <1>5
<1>7. ho \div 24 \in {-1, 0, 1} /\ ho = 24 * (ho \div 24) + (ho % 24) /\ ho % 24 \in 0 .. 23
  BY SMT, <1>6
<1>8. DaySeconds * (ho \div 24) + ClockOf(ho % 24, mi % 60, s % 60) = ClockOf(h, m, s)
  BY SMT, <1>1, <1>2, <1>3, <1>4, <1>5, <1>6, <1>7 DEF DaySeconds, ClockOf
<1>9. m \in 0 .. 59 /\ s \in 0 .. 59 => mi % 60 = m /\ s % 60 = s
  BY SMT, <1>1, <1>2, <1>3
<1>10. ho \div 24 \in -1 .. 1
  BY SMT, <1>7
<1>11. QED
  BY Zenon, <1>2, <1>3, <1>5, <1>7, <1>8, <1>9, <1>10 DEF h, m, s, mi, ho

DayOf(y, m, n) == YearStart(y) + MonthStart(y, m) + n

(* The number of a day depends on its year, month and day. *)
LEMMA DayOfDate ==
  ASSUME NEW c \in Raw
  PROVE  DayNumber(c) = DayOf(c.year, c.mon, c.mday)
BY Zenon, DayNumberSum DEF DayOf

(* Both parts of it are integers. *)
LEMMA DayOfParts ==
  ASSUME NEW y \in Int, NEW m \in 0 .. 11
  PROVE  YearStart(y) \in Int /\ MonthStart(y, m) \in Int
BY SMT, MonthLengths DEF YearStart

(* A day beyond its month is one of the next month. *)
LEMMA DayOfNextMonth ==
  ASSUME NEW y \in Int, NEW m \in 0 .. 11, NEW n \in Int
  PROVE  /\ DayOf(y, m, n) \in Int
         /\ m < 11 => DayOf(y, m + 1, n - DaysIn(y, m)) = DayOf(y, m, n)
         /\ m = 11 => DayOf(y + 1, 0, n - DaysIn(y, m)) = DayOf(y, m, n)
<1>1. YearStart(y) \in Int /\ MonthStart(y, m) \in Int /\ DaysIn(y, m) \in Int
  BY SMT, MonthLengths DEF YearStart
<1>2. CASE m < 11
  <2>1. MonthStart(y, m + 1) = MonthStart(y, m) + DaysIn(y, m)
    BY Zenon, <1>2, MonthLengths
  <2>2. QED
    BY SMT, <1>1, <1>2, <2>1 DEF DayOf
<1>3. CASE m = 11
  <2>1. MonthStart(y, m) + DaysIn(y, m) = 365 + (IF Leap(y) THEN 1 ELSE 0)
    BY SMT, <1>3, MonthLengths
  <2>2. MonthStart(y + 1, 0) = 0
    BY SMT, MonthStarts
  <2>3. YearStart(y + 1) = YearStart(y) + 365 + (IF Leap(y) THEN 1 ELSE 0)
    BY SMT, YearLength
  <2>4. QED
    BY SMT, <1>1, <1>3, <2>1, <2>2, <2>3 DEF DayOf
<1>4. QED
  BY SMT, <1>1, <1>2, <1>3 DEF DayOf

(* Dates may have a month beyond its year here. *)
Loose == [year : Int, mon : Int, mday : Int, hour : Int, min : Int, sec : Int, dst : 0 .. 1]

(* The fields of a date *)
Reads(d, y, m, n, h, i, s, u) ==
  /\ d \in Loose
  /\ d.year = y /\ d.mon = m /\ d.mday = n /\ d.hour = h /\ d.min = i /\ d.sec = s /\ d.dst = u

(* Writing the year of a date leaves its other fields. *)
LEMMA WriteYear ==
  ASSUME NEW c \in Loose, NEW v \in Int, NEW d, d = [c EXCEPT !.year = v]
  PROVE  Reads(d, v, c.mon, c.mday, c.hour, c.min, c.sec, c.dst)
BY SMT DEF Reads, Loose

(* Writing the month of a date leaves its other fields. *)
LEMMA WriteMon ==
  ASSUME NEW c \in Loose, NEW v \in Int, NEW d, d = [c EXCEPT !.mon = v]
  PROVE  Reads(d, c.year, v, c.mday, c.hour, c.min, c.sec, c.dst)
BY SMT DEF Reads, Loose

(* Writing the day of a date leaves its other fields. *)
LEMMA WriteMday ==
  ASSUME NEW c \in Loose, NEW v \in Int, NEW d, d = [c EXCEPT !.mday = v]
  PROVE  Reads(d, c.year, c.mon, v, c.hour, c.min, c.sec, c.dst)
BY SMT DEF Reads, Loose

(* Writing the hour of a date leaves its other fields. *)
LEMMA WriteHour ==
  ASSUME NEW c \in Loose, NEW v \in Int, NEW d, d = [c EXCEPT !.hour = v]
  PROVE  Reads(d, c.year, c.mon, c.mday, v, c.min, c.sec, c.dst)
BY SMT DEF Reads, Loose

(* Writing the minute of a date leaves its other fields. *)
LEMMA WriteMin ==
  ASSUME NEW c \in Loose, NEW v \in Int, NEW d, d = [c EXCEPT !.min = v]
  PROVE  Reads(d, c.year, c.mon, c.mday, c.hour, v, c.sec, c.dst)
BY SMT DEF Reads, Loose

(* Writing the second of a date leaves its other fields. *)
LEMMA WriteSec ==
  ASSUME NEW c \in Loose, NEW v \in Int, NEW d, d = [c EXCEPT !.sec = v]
  PROVE  Reads(d, c.year, c.mon, c.mday, c.hour, c.min, v, c.dst)
BY SMT DEF Reads, Loose

(* d has the clock of c. *)
SameTime(c, d) == d.hour = c.hour /\ d.min = c.min /\ d.sec = c.sec /\ d.dst = c.dst

(* Fewer fields may leave their ranges. *)
LEMMA RawLoose ==
  ASSUME NEW c
  PROVE  /\ c \in Raw <=> c \in Loose /\ c.mon \in 0 .. 11
         /\ c \in Spread => c \in Raw
<1>1. c \in Raw => c \in Loose /\ c.mon \in 0 .. 11
  BY SMT DEF Raw, Loose
<1>2. c \in Loose /\ c.mon \in 0 .. 11 => c \in Raw
  BY SMT DEF Raw, Loose
<1>3. c \in Spread => c \in Raw
  BY SMT DEF Raw, Spread
<1>4. QED
  BY Zenon, <1>1, <1>2, <1>3

(* Months beyond the year are carried into the years. *)
LEMMA MonthsCarried ==
  ASSUME NEW c \in Loose, NEW d, d = CarryMonths(c)
  PROVE  /\ d \in Raw /\ d.year = c.year + c.mon \div 12 /\ d.mon = c.mon % 12 /\ d.mday = c.mday
         /\ SameTime(c, d)
<1> DEFINE y == c.year + c.mon \div 12
           m == c.mon % 12
           e == [c EXCEPT !.year = y]
<1>1. c.year \in Int /\ c.mon \in Int
  BY SMT DEF Loose
<1>2. y \in Int /\ m \in 0 .. 11 /\ m \in Int
  BY SMT, <1>1
<1>3. d = [e EXCEPT !.mon = m]
  BY Zenon DEF CarryMonths
<1>4. Reads(e, y, c.mon, c.mday, c.hour, c.min, c.sec, c.dst)
  BY Zenon, <1>2, WriteYear
<1> HIDE DEF e, y, m
<1>5. e \in Loose
  BY Zenon, <1>4 DEF Reads
<1>6. Reads(d, e.year, m, e.mday, e.hour, e.min, e.sec, e.dst)
  BY Zenon, <1>2, <1>3, <1>5, WriteMon
<1>7. QED
  BY Zenon, <1>2, <1>4, <1>6, RawLoose DEF Reads, SameTime, y, m

(* A date with another month, or another day of the month *)
LEMMA MonthWritten ==
  ASSUME NEW c \in Raw, NEW v \in Int, NEW w \in Int, NEW d
  PROVE  /\ d = [c EXCEPT !.mon = v] =>
              d \in Loose /\ d.year = c.year /\ d.mon = v /\ d.mday = c.mday /\ SameTime(c, d)
         /\ d = [c EXCEPT !.mon = v, !.mday = w] =>
              d \in Loose /\ d.year = c.year /\ d.mon = v /\ d.mday = w /\ SameTime(c, d)
         /\ d = [c EXCEPT !.mday = w] =>
              d \in Raw /\ d.year = c.year /\ d.mon = c.mon /\ d.mday = w /\ SameTime(c, d)
<1> DEFINE e == [c EXCEPT !.mon = v]
<1>1. c \in Loose /\ c.mon \in 0 .. 11
  BY Zenon, RawLoose
<1>2. Reads(e, c.year, v, c.mday, c.hour, c.min, c.sec, c.dst)
  BY Zenon, <1>1, WriteMon
<1>3. e \in Loose
  BY Zenon, <1>2 DEF Reads
<1>4. ASSUME d = [c EXCEPT !.mon = v, !.mday = w]
      PROVE  d \in Loose /\ d.year = c.year /\ d.mon = v /\ d.mday = w /\ SameTime(c, d)
  <2>1. d = [e EXCEPT !.mday = w]
    BY Zenon, <1>4
  <2> HIDE DEF e
  <2>2. Reads(d, e.year, e.mon, w, e.hour, e.min, e.sec, e.dst)
    BY Zenon, <1>3, <2>1, WriteMday
  <2>3. QED
    BY Zenon, <1>2, <2>2 DEF Reads, SameTime
<1>5. ASSUME d = [c EXCEPT !.mday = w]
      PROVE  d \in Raw /\ d.year = c.year /\ d.mon = c.mon /\ d.mday = w /\ SameTime(c, d)
  <2>1. Reads(d, c.year, c.mon, w, c.hour, c.min, c.sec, c.dst)
    BY Zenon, <1>1, <1>5, WriteMday
  <2>2. QED
    BY Zenon, <1>1, <2>1, RawLoose DEF Reads, SameTime
<1>6. d = e => d \in Loose /\ d.year = c.year /\ d.mon = v /\ d.mday = c.mday /\ SameTime(c, d)
  BY Zenon, <1>2 DEF Reads, SameTime
<1>7. QED
  BY Zenon, <1>4, <1>5, <1>6

(* CarryDays keeps the day and the clock, of a day from 0 to 42. *)
LEMMA DayCarried ==
  ASSUME NEW c \in Raw, c.mday \in 0 .. 42, NEW d, d = CarryDays(c)
  PROVE  /\ d \in Raw /\ d.mday \in 1 .. DaysIn(d.year, d.mon) /\ SameTime(c, d)
         /\ DayOf(d.year, d.mon, d.mday) = DayOf(c.year, c.mon, c.mday)
<1> DEFINE y == c.year
           m == c.mon
           n == c.mday
           l == DaysIn(y, m)
           a == [c EXCEPT !.mon = m + 1, !.mday = n - l]
           f == [c EXCEPT !.mon = m - 1]
           b == CarryMonths(f)
<1>1. y \in Int /\ m \in 0 .. 11 /\ n \in 0 .. 42 /\ n \in Int /\ m + 1 \in Int /\ m - 1 \in Int
  BY SMT DEF Raw
<1>2. l \in 28 .. 31 /\ l \in Int /\ n - l \in Int
  BY SMT, <1>1, MonthLengths
<1>3. d = IF n > l THEN CarryMonths(a)
          ELSE IF n < 1 THEN [b EXCEPT !.mday = b.mday + DaysIn(b.year, b.mon)]
          ELSE c
  BY Zenon DEF CarryDays
<1>4. CASE n > l
  <2>1. d = CarryMonths(a)
    BY Zenon, <1>3, <1>4
  <2>2. a \in Loose /\ a.year = y /\ a.mon = m + 1 /\ a.mday = n - l /\ SameTime(c, a)
    BY Zenon, <1>1, <1>2, MonthWritten
  <2> HIDE DEF a
  <2>3. d \in Raw /\ d.year = y + (m + 1) \div 12 /\ d.mon = (m + 1) % 12 /\ d.mday = n - l /\ SameTime(c, d)
    BY Zenon, <2>1, <2>2, MonthsCarried DEF SameTime
  <2>4. DayOf(d.year, d.mon, d.mday) = DayOf(y, m, n) /\ d.year \in Int /\ d.mon \in 0 .. 11
    <3>1. CASE m < 11
      <4>1. m + 1 \in 0 .. 11 /\ y + (m + 1) \div 12 = y /\ (m + 1) % 12 = m + 1
        BY SMT, <1>1, <3>1
      <4>2. DayOf(y, m + 1, n - l) = DayOf(y, m, n)
        BY Zenon, <1>1, <3>1, DayOfNextMonth
      <4> HIDE DEF y, m, n, l
      <4>3. QED
        BY Zenon, <1>1, <2>3, <4>1, <4>2
    <3>2. CASE m = 11
      <4>1. 0 \in 0 .. 11 /\ y + 1 \in Int /\ y + (m + 1) \div 12 = y + 1 /\ (m + 1) % 12 = 0
        BY SMT, <1>1, <3>2
      <4>2. DayOf(y + 1, 0, n - l) = DayOf(y, m, n)
        BY Zenon, <1>1, <3>2, DayOfNextMonth
      <4> HIDE DEF y, m, n, l
      <4>3. QED
        BY Zenon, <1>1, <2>3, <4>1, <4>2
    <3>3. QED
      BY SMT, <1>1, <3>1, <3>2
  <2>5. DaysIn(d.year, d.mon) \in 28 .. 31
    BY Zenon, <2>4, MonthLengths
  <2>6. d.mday \in 1 .. DaysIn(d.year, d.mon)
    <3> HIDE DEF l, n
    <3>1. QED
      BY SMT, <1>1, <1>2, <1>4, <2>3, <2>5
  <2>7. QED
    BY Zenon, <2>3, <2>4, <2>6
<1>5. CASE n < 1
  <2>1. ~(n > l) /\ n = 0
    BY SMT, <1>1, <1>2, <1>5
  <2>2. f \in Loose /\ f.year = y /\ f.mon = m - 1 /\ f.mday = n /\ SameTime(c, f)
    BY Zenon, <1>1, MonthWritten
  <2> HIDE DEF f
  <2>3. b \in Raw /\ b.year = y + (m - 1) \div 12 /\ b.mon = (m - 1) % 12 /\ b.mday = n /\ SameTime(c, b)
    BY Zenon, <2>2, MonthsCarried DEF SameTime
  <2> DEFINE k == DaysIn(b.year, b.mon)
  <2>4. b.year \in Int /\ b.mon \in 0 .. 11
    BY SMT, <2>3 DEF Raw
  <2>5. k \in 28 .. 31
    BY Zenon, <2>4, MonthLengths
  <2> HIDE DEF b
  <2>6. k \in Int /\ b.mday + k = k /\ k \in 1 .. k
    BY SMT, <2>1, <2>3, <2>5
  <2>7. d = [b EXCEPT !.mday = k]
    BY Zenon, <1>3, <1>5, <2>1, <2>6
  <2>8. d \in Raw /\ d.year = b.year /\ d.mon = b.mon /\ d.mday = k /\ SameTime(b, d)
    <3>1. b \in Raw
      BY Zenon, <2>3
    <3> HIDE DEF k
    <3>2. QED
      BY Zenon, <2>6, <2>7, <3>1, MonthWritten
  <2>9. DayOf(b.year, b.mon, k) = DayOf(y, m, n)
    <3>1. CASE m > 0
      <4>1. m - 1 \in 0 .. 11 /\ m - 1 < 11 /\ (m - 1) + 1 = m
            /\ y + (m - 1) \div 12 = y /\ (m - 1) % 12 = m - 1
        BY SMT, <1>1, <3>1
      <4>2. DaysIn(y, m - 1) \in Int /\ DaysIn(y, m - 1) - DaysIn(y, m - 1) = 0
        BY SMT, <4>1, MonthLengths
      <4>3. DayOf(y, (m - 1) + 1, DaysIn(y, m - 1) - DaysIn(y, m - 1)) = DayOf(y, m - 1, DaysIn(y, m - 1))
        BY Zenon, <1>1, <4>1, <4>2, DayOfNextMonth
      <4> HIDE DEF y, m, n
      <4>4. QED
        BY Zenon, <2>1, <2>3, <4>1, <4>2, <4>3
    <3>2. CASE m = 0
      <4>1. y - 1 \in Int /\ 11 \in 0 .. 11 /\ (y - 1) + 1 = y
        BY SMT, <1>1, <3>2
      <4>2. y + (m - 1) \div 12 = y - 1 /\ (m - 1) % 12 = 11
        <5>1. \A j \in Int : j + 1 = 0 => y + j \div 12 = y - 1 /\ j % 12 = 11
          BY SMT, <1>1
        <5>2. m - 1 \in Int /\ (m - 1) + 1 = 0
          BY SMT, <3>2
        <5>3. QED
          BY Zenon, <5>1, <5>2
      <4>3. DaysIn(y - 1, 11) \in Int /\ DaysIn(y - 1, 11) - DaysIn(y - 1, 11) = 0
        BY SMT, <4>1, MonthLengths
      <4>4. DayOf((y - 1) + 1, 0, DaysIn(y - 1, 11) - DaysIn(y - 1, 11)) = DayOf(y - 1, 11, DaysIn(y - 1, 11))
        BY Zenon, <4>1, <4>3, DayOfNextMonth
      <4> HIDE DEF y, m, n
      <4>5. QED
        BY Zenon, <2>1, <2>3, <3>2, <4>1, <4>2, <4>3, <4>4
    <3>3. QED
      BY SMT, <1>1, <3>1, <3>2
  <2>10. QED
    BY Zenon, <2>3, <2>6, <2>8, <2>9 DEF SameTime
<1>6. CASE n >= 1 /\ n <= l
  <2>1. ~(n > l) /\ ~(n < 1) /\ n \in 1 .. l
    BY SMT, <1>1, <1>2, <1>6
  <2>2. d = c
    BY Zenon, <1>3, <2>1
  <2>3. QED
    BY Zenon, <2>1, <2>2 DEF SameTime
<1>7. n > l \/ n < 1 \/ (n >= 1 /\ n <= l)
  BY SMT, <1>1, <1>2
<1>8. QED
  BY Zenon, <1>4, <1>5, <1>6, <1>7

(* Carried keeps the instant, and brings every field into its range. *)
LEMMA InRange ==
  ASSUME NEW c \in Spread
  PROVE  LET d == Carried(c)
         IN /\ d \in Calendar
            /\ Stamp(d) = Stamp(c)
            /\ d.dst = c.dst
            /\ c.min \in 0 .. 59 /\ c.sec \in 0 .. 59 => d.min = c.min /\ d.sec = c.sec
<1> DEFINE y == c.year
           m == c.mon
           n == c.mday + CarriedDay(c)
           h == CarriedHour(c) % 24
           i == CarriedMin(c) % 60
           s == c.sec % 60
           u == c.dst
           d == Carried(c)
<1>1. /\ y \in Int /\ m \in 0 .. 11 /\ c.mday \in 1 .. 40 /\ c.mday \in Int
      /\ c.hour \in -2 .. 24 /\ c.min \in -1 .. 60 /\ c.sec \in -1 .. 60 /\ u \in 0 .. 1
      /\ c \in Raw
  BY SMT DEF Spread, Raw
<1>2. s \in 0 .. 59 /\ i \in 0 .. 59 /\ h \in 0 .. 23 /\ CarriedDay(c) \in -1 .. 1
      /\ DaySeconds * CarriedDay(c) + ClockOf(h, i, s) = ClockOf(c.hour, c.min, c.sec)
  BY Zenon, <1>1, ClockCarries
<1>3. n \in 0 .. 42
  BY SMT, <1>1, <1>2
<1> DEFINE a == [c EXCEPT !.mday = n, !.hour = h, !.min = i, !.sec = s]
<1>4. Reads(a, y, m, n, h, i, s, u)
  <2> DEFINE a1 == [c EXCEPT !.mday = n]
             a2 == [a1 EXCEPT !.hour = h]
             a3 == [a2 EXCEPT !.min = i]
  <2>1. n \in Int /\ h \in Int /\ i \in Int /\ s \in Int /\ c \in Loose
    BY SMT, <1>1, <1>2, <1>3, RawLoose
  <2>2. a = [a3 EXCEPT !.sec = s]
    BY Zenon
  <2> HIDE DEF a, n, h, i, s
  <2>10. Reads(a1, y, m, n, c.hour, c.min, c.sec, u)
    BY Zenon, <2>1, WriteMday
  <2>3. Reads(a1, y, m, n, c.hour, c.min, c.sec, u) /\ a1 \in Loose
    BY Zenon, <2>10 DEF Reads
  <2> HIDE DEF a1
  <2>4. Reads(a2, a1.year, a1.mon, a1.mday, h, a1.min, a1.sec, a1.dst)
    BY Zenon, <2>1, <2>3, WriteHour
  <2>5. Reads(a2, y, m, n, h, c.min, c.sec, u) /\ a2 \in Loose
    BY Zenon, <2>3, <2>4 DEF Reads
  <2> HIDE DEF a2
  <2>6. Reads(a3, a2.year, a2.mon, a2.mday, a2.hour, i, a2.sec, a2.dst)
    BY Zenon, <2>1, <2>5, WriteMin
  <2>7. Reads(a3, y, m, n, h, i, c.sec, u) /\ a3 \in Loose
    BY Zenon, <2>5, <2>6 DEF Reads
  <2> HIDE DEF a3
  <2>8. Reads(a, a3.year, a3.mon, a3.mday, a3.hour, a3.min, s, a3.dst)
    BY Zenon, <2>1, <2>2, <2>7, WriteSec
  <2>9. QED
    BY Zenon, <2>7, <2>8 DEF Reads
<1>13. a \in Loose /\ a.year = y /\ a.mon = m /\ a.mday = n
  BY Zenon, <1>4 DEF Reads
<1>5. d = CarryDays(CarryMonths(a))
  BY Zenon DEF Carried, CarriedMin, CarriedHour, CarriedDay
<1> DEFINE b == CarryMonths(a)
<1> HIDE DEF a, d
<1>6. b \in Raw /\ b.year = y /\ b.mon = m /\ b.mday = n /\ SameTime(a, b)
  <2>1. b \in Raw /\ b.year = y + m \div 12 /\ b.mon = m % 12 /\ b.mday = n /\ SameTime(a, b)
    <3> HIDE DEF y, m, n
    <3>1. QED
      BY Zenon, <1>13, MonthsCarried
  <2>2. y + m \div 12 = y /\ m % 12 = m
    BY SMT, <1>1
  <2>3. QED
    BY Zenon, <2>1, <2>2
<1> HIDE DEF b
<1>7. /\ d \in Raw /\ d.mday \in 1 .. DaysIn(d.year, d.mon) /\ SameTime(b, d)
      /\ DayOf(d.year, d.mon, d.mday) = DayOf(y, m, n)
  <2> HIDE DEF y, m, n
  <2>1. QED
    BY Zenon, <1>3, <1>5, <1>6, DayCarried DEF b
<1>8. d.hour = h /\ d.min = i /\ d.sec = s /\ d.dst = u
  BY Zenon, <1>4, <1>6, <1>7 DEF SameTime, Reads
<1>9. d \in Calendar
  <2> HIDE DEF y, m, n, h, i, s, u
  <2>1. QED
    BY Zenon, <1>2, <1>7, <1>8, InCalendar
<1>10. Stamp(d) = Stamp(c)
  <2>1. DayNumber(d) = DayOf(y, m, n) /\ DayNumber(c) = DayOf(y, m, c.mday)
    BY Zenon, <1>1, <1>7, <1>8, DayOfDate
  <2>2. Clock(d) = ClockOf(h, i, s) /\ Clock(c) = ClockOf(c.hour, c.min, c.sec)
    BY Zenon, <1>8, ClockFields
  <2>3. DayOf(y, m, n) = DayOf(y, m, c.mday) + CarriedDay(c) /\ DayOf(y, m, c.mday) \in Int
    <3> DEFINE p == c.mday
               q == CarriedDay(c)
    <3>1. q \in Int /\ p \in Int /\ n = p + q
      BY SMT, <1>1, <1>2
    <3> HIDE DEF y, m, n, p, q
    <3>2. YearStart(y) \in Int /\ MonthStart(y, m) \in Int
      BY Zenon, <1>1, DayOfParts
    <3>3. DayOf(y, m, p + q) = DayOf(y, m, p) + q /\ DayOf(y, m, p) \in Int
      BY SMT, <3>1, <3>2 DEF DayOf
    <3>4. QED
      BY Zenon, <3>1, <3>3 DEF p, q
  <2>4. ClockOf(h, i, s) \in Int
    BY Zenon, <1>2, ClockRange
  <2> DEFINE p == DayOf(y, m, c.mday)
             q == ClockOf(h, i, s)
             t == CarriedDay(c)
  <2>5. Stamp(d) = DaySeconds * (p + t) + q /\ Stamp(c) = DaySeconds * p + (DaySeconds * t + q)
    BY Zenon, <1>2, <2>1, <2>2, <2>3 DEF Stamp
  <2>6. p \in Int /\ q \in Int /\ t \in Int
    BY SMT, <1>2, <2>3, <2>4
  <2> HIDE DEF p, q, t
  <2>7. QED
    BY SMT, <2>5, <2>6 DEF DaySeconds
<1>11. c.min \in 0 .. 59 /\ c.sec \in 0 .. 59 => d.min = c.min /\ d.sec = c.sec
  BY Zenon, <1>1, <1>8, ClockCarries
<1>12. QED
  BY Zenon, <1>8, <1>9, <1>10, <1>11 DEF d

HourSeconds == 3600

(* Another hour of the same day *)
AtHour(c, v) == [c EXCEPT !.hour = v]

(* It is so many hours from the first. *)
LEMMA HourMoved ==
  ASSUME NEW c \in Raw, NEW v \in Int
  PROVE  LET d == AtHour(c, v)
         IN /\ d \in Raw /\ d.mday = c.mday /\ d.hour = v /\ d.min = c.min /\ d.sec = c.sec /\ d.dst = c.dst
            /\ d.year = c.year /\ d.mon = c.mon
            /\ Stamp(c) \in Int
            /\ Stamp(d) = Stamp(c) + (v - c.hour) * HourSeconds
<1> DEFINE d == AtHour(c, v)
<1>1. /\ c.hour \in Int /\ c.min \in Int /\ c.sec \in Int
      /\ d \in Raw /\ d.mday = c.mday /\ d.hour = v /\ d.min = c.min /\ d.sec = c.sec /\ d.dst = c.dst
      /\ d.year = c.year /\ d.mon = c.mon
  BY SMT DEF Raw, AtHour
<1> HIDE DEF d
<1>2. DayNumber(d) = DayNumber(c) /\ DayNumber(c) \in Int
  BY Zenon, <1>1, DayOfDate, DayNumberSum
<1>3. /\ Stamp(c) = DaySeconds * DayNumber(c) + ClockOf(c.hour, c.min, c.sec)
      /\ Stamp(d) = DaySeconds * DayNumber(c) + ClockOf(v, c.min, c.sec)
  BY Zenon, <1>1, <1>2, ClockFields DEF Stamp
<1> DEFINE n == DayNumber(c)
           h == c.hour
           i == c.min
           s == c.sec
           t == Stamp(c)
           u == Stamp(d)
<1>4. n \in Int /\ h \in Int /\ i \in Int /\ s \in Int
      /\ t = DaySeconds * n + ClockOf(h, i, s) /\ u = DaySeconds * n + ClockOf(v, i, s)
  BY Zenon, <1>1, <1>2, <1>3
<1> HIDE DEF n, h, i, s, t, u
<1>5. t \in Int /\ u = t + (v - h) * HourSeconds
  BY SMT, <1>4 DEF DaySeconds, ClockOf, HourSeconds
<1>6. QED
  BY Zenon, <1>1, <1>5 DEF h, t, u, d

(* Dates one field of which may have left its range by one *)
Wide == [year : Int, mon : 0 .. 11, mday : 1 .. 40,
         hour : -1 .. 24, min : -1 .. 60, sec : -1 .. 60, dst : 0 .. 1]

(* A date in standard time *)
LEMMA InStandard ==
  ASSUME NEW c \in Wide
  PROVE  LET d == Standard(c)
         IN /\ d \in Calendar /\ d.dst = 0
            /\ Stamp(c) \in Int
            /\ Stamp(d) = Stamp(c) - c.dst * HourSeconds
            /\ c.min \in 0 .. 59 /\ c.sec \in 0 .. 59 => d.min = c.min /\ d.sec = c.sec
<1> DEFINE d == Standard(c)
           v == c.hour - c.dst
           b == AtHour(c, v)
           a == [b EXCEPT !.dst = 0]
<1>1. c \in Raw /\ c \in Spread /\ v \in -2 .. 24 /\ v \in Int /\ c.hour \in Int /\ c.dst \in Int
  BY SMT DEF Raw, Spread, Wide
<1>2. d = Carried(a)
  BY Zenon DEF Standard, AtHour
<1>3. /\ b \in Raw /\ b.mday = c.mday /\ b.hour = v /\ b.min = c.min /\ b.sec = c.sec /\ b.dst = c.dst
      /\ Stamp(c) \in Int /\ Stamp(b) = Stamp(c) + (v - c.hour) * HourSeconds
  BY Zenon, <1>1, HourMoved
<1>4. b \in Spread
  BY SMT, <1>1 DEF Spread, AtHour
<1> HIDE DEF b
<1>5. /\ a \in Spread /\ a.dst = 0
      /\ a.year = b.year /\ a.mon = b.mon /\ a.mday = b.mday /\ a.hour = b.hour /\ a.min = b.min /\ a.sec = b.sec
  BY SMT, <1>4 DEF Spread
<1>6. Stamp(a) = Stamp(b)
  <2>1. a \in Raw /\ b \in Raw
    BY Zenon, <1>4, <1>5, RawLoose
  <2> HIDE DEF a
  <2>2. DayNumber(a) = DayNumber(b) /\ Clock(a) = Clock(b)
    BY Zenon, <1>5, <2>1, DayOfDate, ClockFields
  <2>3. QED
    BY Zenon, <2>2 DEF Stamp
<1> HIDE DEF a, d
<1>7. /\ d \in Calendar /\ d.dst = 0 /\ Stamp(d) = Stamp(a)
      /\ c.min \in 0 .. 59 /\ c.sec \in 0 .. 59 => d.min = c.min /\ d.sec = c.sec
  BY Zenon, <1>2, <1>3, <1>5, InRange
<1>8. Stamp(d) = Stamp(c) - c.dst * HourSeconds
  <2> DEFINE t == Stamp(c)
             h == c.hour
             u == c.dst
  <2>1. t \in Int /\ h \in Int /\ u \in Int /\ Stamp(d) = t + ((h - u) - h) * HourSeconds
    BY Zenon, <1>1, <1>3, <1>6, <1>7
  <2> HIDE DEF t, h, u
  <2>2. Stamp(d) = t - u * HourSeconds
    BY SMT, <2>1 DEF HourSeconds
  <2>3. QED
    BY Zenon, <2>2 DEF t, u
<1>9. QED
  BY Zenon, <1>3, <1>7, <1>8 DEF d

(* ... and in local time *)
LEMMA InLocal ==
  ASSUME NEW c \in Calendar, c.dst = 0
  PROVE  LET d == Local(c)
         IN /\ d \in Calendar /\ d.dst = (IF InSummer(c) THEN 1 ELSE 0)
            /\ Stamp(d) = Stamp(c) + d.dst * HourSeconds
            /\ d.min = c.min /\ d.sec = c.sec
<1> DEFINE d == Local(c)
           v == c.hour + 1
           b == AtHour(c, v)
           a == Carried(b)
<1>1. /\ c \in Raw /\ v \in 1 .. 24 /\ v \in Int /\ v - c.hour = 1
      /\ c.min \in 0 .. 59 /\ c.sec \in 0 .. 59 /\ Stamp(c) \in Int
  BY SMT, CalendarFields
<1>2. CASE ~InSummer(c)
  <2>1. d = c
    BY Zenon, <1>2 DEF Local
  <2>2. Stamp(c) = Stamp(c) + 0 * HourSeconds
    BY SMT, <1>1 DEF HourSeconds
  <2>3. QED
    BY Zenon, <1>2, <2>1, <2>2
<1>3. CASE InSummer(c)
  <2>1. d = [a EXCEPT !.dst = 1]
    BY Zenon, <1>3 DEF Local, AtHour
  <2>2. b.min = c.min /\ b.sec = c.sec /\ Stamp(b) = Stamp(c) + (v - c.hour) * HourSeconds
    BY Zenon, <1>1, HourMoved
  <2>3. b \in Spread
    BY SMT, <1>1 DEF Spread, Calendar, AtHour
  <2> HIDE DEF b
  <2>4. a \in Calendar /\ Stamp(a) = Stamp(b) /\ a.min = c.min /\ a.sec = c.sec
    BY Zenon, <1>1, <2>2, <2>3, InRange
  <2> HIDE DEF a
  <2>5. /\ d \in Calendar /\ d.dst = 1 /\ d.year = a.year /\ d.mon = a.mon /\ d.mday = a.mday
        /\ d.hour = a.hour /\ d.min = a.min /\ d.sec = a.sec
    BY SMT, <2>1, <2>4 DEF Calendar
  <2> HIDE DEF d
  <2>6. Stamp(d) = Stamp(a)
    <3>1. a \in Raw /\ d \in Raw
      BY Zenon, <2>4, <2>5, CalendarFields
    <3>2. DayNumber(d) = DayNumber(a) /\ Clock(d) = Clock(a)
      BY Zenon, <2>5, <3>1, DayOfDate, ClockFields
    <3>3. QED
      BY Zenon, <3>2 DEF Stamp
  <2>7. Stamp(c) + (v - c.hour) * HourSeconds = Stamp(c) + 1 * HourSeconds
    BY Zenon, <1>1
  <2>8. QED
    BY Zenon, <1>3, <2>2, <2>4, <2>5, <2>6, <2>7 DEF d
<1>4. QED
  BY Zenon, <1>2, <1>3

(* cron_mktime keeps the instant, brings every field into its range, and puts   *)
(* the clock to the time in force.                                              *)
LEMMA Normalised ==
  ASSUME NEW c \in Wide
  PROVE  LET d == cron_mktime(c)
         IN /\ d \in Calendar
            /\ d.dst = (IF InSummer(Standard(c)) THEN 1 ELSE 0)
            /\ Standard(c) \in Calendar
            /\ Stamp(c) \in Int
            /\ Stamp(Standard(c)) = Stamp(c) - c.dst * HourSeconds
            /\ Stamp(d) = Stamp(Standard(c)) + d.dst * HourSeconds
            /\ c.min \in 0 .. 59 /\ c.sec \in 0 .. 59 => d.min = c.min /\ d.sec = c.sec
<1> DEFINE s == Standard(c)
           d == cron_mktime(c)
<1>1. /\ s \in Calendar /\ s.dst = 0 /\ Stamp(c) \in Int /\ Stamp(s) = Stamp(c) - c.dst * HourSeconds
      /\ c.min \in 0 .. 59 /\ c.sec \in 0 .. 59 => s.min = c.min /\ s.sec = c.sec
  BY Zenon, InStandard
<1>2. d = Local(s)
  BY Zenon DEF cron_mktime
<1> HIDE DEF s, d
<1>3. /\ d \in Calendar /\ d.dst = (IF InSummer(s) THEN 1 ELSE 0)
      /\ Stamp(d) = Stamp(s) + d.dst * HourSeconds
      /\ d.min = s.min /\ d.sec = s.sec
  BY Zenon, <1>1, <1>2, InLocal
<1>4. QED
  BY Zenon, <1>1, <1>3 DEF s, d


(* Whole minutes and whole hours *)
HourNo(c)   == 24 * DayNumber(c) + c.hour
MinuteNo(c) == 60 * HourNo(c) + c.min

(* A stamp is made of whole minutes and seconds, those of hours and minutes. *)
LEMMA Units ==
  ASSUME NEW c \in Calendar
  PROVE  /\ DayNumber(c) \in Int /\ HourNo(c) \in Int /\ MinuteNo(c) \in Int
         /\ HourNo(c) = 24 * DayNumber(c) + c.hour
         /\ MinuteNo(c) = 60 * HourNo(c) + c.min
         /\ Stamp(c) = 60 * MinuteNo(c) + c.sec
         /\ c.hour \in 0 .. 23 /\ c.min \in 0 .. 59 /\ c.sec \in 0 .. 59
<1> DEFINE n == DayNumber(c)
           h == c.hour
           m == c.min
           s == c.sec
<1>1. n \in Int /\ h \in 0 .. 23 /\ m \in 0 .. 59 /\ s \in 0 .. 59
  BY Zenon, CalendarFields
<1>2. /\ HourNo(c) = 24 * n + h
      /\ MinuteNo(c) = 60 * (24 * n + h) + m
      /\ Stamp(c) = 86400 * n + (h * 3600 + m * 60 + s)
  BY SMT DEF HourNo, MinuteNo, Stamp, Clock, DaySeconds
<1> HIDE DEF n, h, m, s
<1>3. 86400 * n + (h * 3600 + m * 60 + s) = 60 * (60 * (24 * n + h) + m) + s
  BY SMT, <1>1
<1>4. 24 * n + h \in Int /\ 60 * (24 * n + h) + m \in Int
  BY SMT, <1>1
<1>5. QED
  BY SMT, <1>1, <1>2, <1>3, <1>4 DEF n, h, m, s

(***************************************************************************)
(* Writing a field                                                          *)
(***************************************************************************)
Put(c, f, v) == [c EXCEPT ![f] = v]

(* Both ways of writing a field write it and normalise. *)
LEMMA PutAndNormalised ==
  ASSUME NEW c, NEW f, NEW v
  PROVE  /\ set_field(c, f, v) = cron_mktime(Put(c, f, v))
         /\ add_to_field(c, f, v) = cron_mktime(Put(c, f, c[f] + v))
BY Zenon DEF set_field, add_to_field, Put

(* Writing a field of the clock leaves the other fields. *)
LEMMA PutClock ==
  ASSUME NEW c \in Raw, NEW v \in Int
  PROVE  /\ LET d == Put(c, "sec", v)
            IN d \in Raw /\ d.year = c.year /\ d.mon = c.mon /\ d.mday = c.mday
               /\ d.hour = c.hour /\ d.min = c.min /\ d.sec = v /\ d.dst = c.dst
         /\ LET d == Put(c, "min", v)
            IN d \in Raw /\ d.year = c.year /\ d.mon = c.mon /\ d.mday = c.mday
               /\ d.hour = c.hour /\ d.min = v /\ d.sec = c.sec /\ d.dst = c.dst
         /\ LET d == Put(c, "hour", v)
            IN d \in Raw /\ d.year = c.year /\ d.mon = c.mon /\ d.mday = c.mday
               /\ d.hour = v /\ d.min = c.min /\ d.sec = c.sec /\ d.dst = c.dst
<1>1. LET d == Put(c, "sec", v)
      IN d \in Raw /\ d.year = c.year /\ d.mon = c.mon /\ d.mday = c.mday
         /\ d.hour = c.hour /\ d.min = c.min /\ d.sec = v /\ d.dst = c.dst
  BY SMT DEF Put, Raw
<1>2. LET d == Put(c, "min", v)
      IN d \in Raw /\ d.year = c.year /\ d.mon = c.mon /\ d.mday = c.mday
         /\ d.hour = c.hour /\ d.min = v /\ d.sec = c.sec /\ d.dst = c.dst
  BY SMT DEF Put, Raw
<1>3. LET d == Put(c, "hour", v)
      IN d \in Raw /\ d.year = c.year /\ d.mon = c.mon /\ d.mday = c.mday
         /\ d.hour = v /\ d.min = c.min /\ d.sec = c.sec /\ d.dst = c.dst
  BY SMT DEF Put, Raw
<1>4. QED
  BY Zenon, <1>1, <1>2, <1>3

(* Writing the day, the month or the year does. *)
LEMMA PutDate ==
  ASSUME NEW c \in Raw, NEW v \in Int
  PROVE  /\ LET d == Put(c, "mday", v)
            IN d \in Raw /\ d.year = c.year /\ d.mon = c.mon /\ d.mday = v
               /\ d.hour = c.hour /\ d.min = c.min /\ d.sec = c.sec /\ d.dst = c.dst
         /\ v \in 0 .. 11 => LET d == Put(c, "mon", v)
            IN d \in Raw /\ d.year = c.year /\ d.mon = v /\ d.mday = c.mday
               /\ d.hour = c.hour /\ d.min = c.min /\ d.sec = c.sec /\ d.dst = c.dst
         /\ LET d == Put(c, "year", v)
            IN d \in Raw /\ d.year = v /\ d.mon = c.mon /\ d.mday = c.mday
               /\ d.hour = c.hour /\ d.min = c.min /\ d.sec = c.sec /\ d.dst = c.dst
<1>1. LET d == Put(c, "mday", v)
      IN d \in Raw /\ d.year = c.year /\ d.mon = c.mon /\ d.mday = v
         /\ d.hour = c.hour /\ d.min = c.min /\ d.sec = c.sec /\ d.dst = c.dst
  BY SMT DEF Put, Raw
<1>2. v \in 0 .. 11 => LET d == Put(c, "mon", v)
      IN d \in Raw /\ d.year = c.year /\ d.mon = v /\ d.mday = c.mday
         /\ d.hour = c.hour /\ d.min = c.min /\ d.sec = c.sec /\ d.dst = c.dst
  BY SMT DEF Put, Raw
<1>3. LET d == Put(c, "year", v)
      IN d \in Raw /\ d.year = v /\ d.mon = c.mon /\ d.mday = c.mday
         /\ d.hour = c.hour /\ d.min = c.min /\ d.sec = c.sec /\ d.dst = c.dst
  BY SMT DEF Put, Raw
<1>4. QED
  BY Zenon, <1>1, <1>2, <1>3

(* Ranges one wider than those of a date *)
LEMMA InWide ==
  ASSUME NEW c \in Raw, c.mday \in 1 .. 40, c.hour \in -1 .. 24, c.min \in -1 .. 60, c.sec \in -1 .. 60
  PROVE  c \in Wide
BY SMT DEF Raw, Wide

(* A field of a date may be written with any value of its range, or moved by one:  *)
(* the result is a date, and of another field than theirs the minutes and the       *)
(* seconds are kept.                                                                *)
LEMMA FieldSet ==
  ASSUME NEW c \in Calendar, NEW v \in Int
  PROVE  /\ v \in -1 .. 60 => set_field(c, "sec", v) \in Calendar
         /\ v \in 0 .. 59 => LET d == set_field(c, "sec", v) IN d.sec = v /\ d.min = c.min
         /\ v \in -1 .. 60 => set_field(c, "min", v) \in Calendar
         /\ v \in 0 .. 59 => LET d == set_field(c, "min", v) IN d.sec = c.sec /\ d.min = v
         /\ v \in -1 .. 24 => LET d == set_field(c, "hour", v) IN d \in Calendar /\ d.sec = c.sec /\ d.min = c.min
         /\ v \in 1 .. 40 => LET d == set_field(c, "mday", v) IN d \in Calendar /\ d.sec = c.sec /\ d.min = c.min
         /\ v \in 0 .. 11 => LET d == set_field(c, "mon", v) IN d \in Calendar /\ d.sec = c.sec /\ d.min = c.min
         /\ LET d == set_field(c, "year", v) IN d \in Calendar /\ d.sec = c.sec /\ d.min = c.min
<1>1. /\ c \in Raw /\ c.mday \in 1 .. 40 /\ c.hour \in -1 .. 24 /\ c.min \in -1 .. 60 /\ c.sec \in -1 .. 60
      /\ c.min \in 0 .. 59 /\ c.sec \in 0 .. 59
  BY SMT, CalendarFields
<1>2. ASSUME NEW d \in Raw, d.mday \in 1 .. 40, d.hour \in -1 .. 24, d.min \in -1 .. 60, d.sec \in -1 .. 60
      PROVE  cron_mktime(d) \in Calendar
             /\ (d.min \in 0 .. 59 /\ d.sec \in 0 .. 59 => cron_mktime(d).min = d.min /\ cron_mktime(d).sec = d.sec)
  <2>1. d \in Wide
    BY Zenon, <1>2, InWide
  <2>2. QED
    BY Zenon, <2>1, Normalised
<1>3. /\ v \in -1 .. 60 => set_field(c, "sec", v) \in Calendar
      /\ v \in 0 .. 59 => LET d == set_field(c, "sec", v) IN d.sec = v /\ d.min = c.min
  <2> DEFINE d == Put(c, "sec", v)
  <2>1. d \in Raw /\ d.mday = c.mday /\ d.hour = c.hour /\ d.min = c.min /\ d.sec = v
    BY Zenon, <1>1, PutClock
  <2>2. set_field(c, "sec", v) = cron_mktime(d)
    BY Zenon, PutAndNormalised
  <2> HIDE DEF d
  <2>3. v \in 0 .. 59 => v \in -1 .. 60
    BY SMT
  <2>4. QED
    BY Zenon, <1>1, <1>2, <2>1, <2>2, <2>3
<1>4. /\ v \in -1 .. 60 => set_field(c, "min", v) \in Calendar
      /\ v \in 0 .. 59 => LET d == set_field(c, "min", v) IN d.sec = c.sec /\ d.min = v
  <2> DEFINE d == Put(c, "min", v)
  <2>1. d \in Raw /\ d.mday = c.mday /\ d.hour = c.hour /\ d.min = v /\ d.sec = c.sec
    BY Zenon, <1>1, PutClock
  <2>2. set_field(c, "min", v) = cron_mktime(d)
    BY Zenon, PutAndNormalised
  <2> HIDE DEF d
  <2>3. v \in 0 .. 59 => v \in -1 .. 60
    BY SMT
  <2>4. QED
    BY Zenon, <1>1, <1>2, <2>1, <2>2, <2>3
<1>5. v \in -1 .. 24 => LET d == set_field(c, "hour", v) IN d \in Calendar /\ d.sec = c.sec /\ d.min = c.min
  <2> DEFINE d == Put(c, "hour", v)
  <2>1. d \in Raw /\ d.mday = c.mday /\ d.hour = v /\ d.min = c.min /\ d.sec = c.sec
    BY Zenon, <1>1, PutClock
  <2>2. set_field(c, "hour", v) = cron_mktime(d)
    BY Zenon, PutAndNormalised
  <2> HIDE DEF d
  <2>3. QED
    BY Zenon, <1>1, <1>2, <2>1, <2>2
<1>6. v \in 1 .. 40 => LET d == set_field(c, "mday", v) IN d \in Calendar /\ d.sec = c.sec /\ d.min = c.min
  <2> DEFINE d == Put(c, "mday", v)
  <2>1. d \in Raw /\ d.mday = v /\ d.hour = c.hour /\ d.min = c.min /\ d.sec = c.sec
    BY Zenon, <1>1, PutDate
  <2>2. set_field(c, "mday", v) = cron_mktime(d)
    BY Zenon, PutAndNormalised
  <2> HIDE DEF d
  <2>3. QED
    BY Zenon, <1>1, <1>2, <2>1, <2>2
<1>7. v \in 0 .. 11 => LET d == set_field(c, "mon", v) IN d \in Calendar /\ d.sec = c.sec /\ d.min = c.min
  <2> DEFINE d == Put(c, "mon", v)
  <2>1. v \in 0 .. 11 => d \in Raw /\ d.mday = c.mday /\ d.hour = c.hour /\ d.min = c.min /\ d.sec = c.sec
    BY Zenon, <1>1, PutDate
  <2>2. set_field(c, "mon", v) = cron_mktime(d)
    BY Zenon, PutAndNormalised
  <2> HIDE DEF d
  <2>3. QED
    BY Zenon, <1>1, <1>2, <2>1, <2>2
<1>8. LET d == set_field(c, "year", v) IN d \in Calendar /\ d.sec = c.sec /\ d.min = c.min
  <2> DEFINE d == Put(c, "year", v)
  <2>1. d \in Raw /\ d.mday = c.mday /\ d.hour = c.hour /\ d.min = c.min /\ d.sec = c.sec
    BY Zenon, <1>1, PutDate
  <2>2. set_field(c, "year", v) = cron_mktime(d)
    BY Zenon, PutAndNormalised
  <2> HIDE DEF d
  <2>3. QED
    BY Zenon, <1>1, <1>2, <2>1, <2>2
<1>9. QED
  BY Zenon, <1>3, <1>4, <1>5, <1>6, <1>7, <1>8

(* The same, of a field moved *)
LEMMA FieldAdded ==
  ASSUME NEW c \in Calendar, NEW v \in {-1, 1}
  PROVE  /\ add_to_field(c, "sec", v) \in Calendar
         /\ add_to_field(c, "min", v) \in Calendar
         /\ LET d == add_to_field(c, "hour", v) IN d \in Calendar /\ d.sec = c.sec /\ d.min = c.min
         /\ v = 1 => LET d == add_to_field(c, "mday", v) IN d \in Calendar /\ d.sec = c.sec /\ d.min = c.min
         /\ LET d == add_to_field(c, "year", v) IN d \in Calendar /\ d.sec = c.sec /\ d.min = c.min
<1>1. /\ c.sec + v \in -1 .. 60 /\ c.min + v \in -1 .. 60 /\ c.hour + v \in -1 .. 24
      /\ v = 1 => c.mday + v \in 1 .. 40
      /\ c.sec + v \in Int /\ c.min + v \in Int /\ c.hour + v \in Int
      /\ c.mday + v \in Int /\ c.year + v \in Int
  BY SMT DEF Calendar
<1>2. add_to_field(c, "sec", v) \in Calendar
  <2> DEFINE w == c["sec"] + v
  <2>1. w \in Int /\ w \in -1 .. 60
    BY SMT, <1>1
  <2>2. add_to_field(c, "sec", v) = set_field(c, "sec", w)
    BY Zenon DEF add_to_field, set_field
  <2> HIDE DEF w
  <2>3. set_field(c, "sec", w) \in Calendar
    BY ZenonT(60), <2>1, FieldSet
  <2>4. QED
    BY Zenon, <2>2, <2>3
<1>3. add_to_field(c, "min", v) \in Calendar
  <2> DEFINE w == c["min"] + v
  <2>1. w \in Int /\ w \in -1 .. 60
    BY SMT, <1>1
  <2>2. add_to_field(c, "min", v) = set_field(c, "min", w)
    BY Zenon DEF add_to_field, set_field
  <2> HIDE DEF w
  <2>3. set_field(c, "min", w) \in Calendar
    BY ZenonT(60), <2>1, FieldSet
  <2>4. QED
    BY Zenon, <2>2, <2>3
<1>4. LET d == add_to_field(c, "hour", v) IN d \in Calendar /\ d.sec = c.sec /\ d.min = c.min
  <2> DEFINE w == c["hour"] + v
  <2>1. w \in Int /\ w \in -1 .. 24
    BY SMT, <1>1
  <2>2. add_to_field(c, "hour", v) = set_field(c, "hour", w)
    BY Zenon DEF add_to_field, set_field
  <2> HIDE DEF w
  <2>3. LET d == set_field(c, "hour", w) IN d \in Calendar /\ d.sec = c.sec /\ d.min = c.min
    BY ZenonT(60), <2>1, FieldSet
  <2>4. QED
    BY Zenon, <2>2, <2>3
<1>5. v = 1 => LET d == add_to_field(c, "mday", v) IN d \in Calendar /\ d.sec = c.sec /\ d.min = c.min
  <2> DEFINE w == c["mday"] + v
  <2>1. w \in Int /\ (v = 1 => w \in 1 .. 40)
    BY SMT, <1>1
  <2>2. add_to_field(c, "mday", v) = set_field(c, "mday", w)
    BY Zenon DEF add_to_field, set_field
  <2> HIDE DEF w
  <2>3. v = 1 => LET d == set_field(c, "mday", w) IN d \in Calendar /\ d.sec = c.sec /\ d.min = c.min
    BY ZenonT(60), <2>1, FieldSet
  <2>4. QED
    BY Zenon, <2>2, <2>3
<1>6. LET d == add_to_field(c, "year", v) IN d \in Calendar /\ d.sec = c.sec /\ d.min = c.min
  <2> DEFINE w == c["year"] + v
  <2>1. w \in Int
    BY SMT, <1>1
  <2>2. add_to_field(c, "year", v) = set_field(c, "year", w)
    BY Zenon DEF add_to_field, set_field
  <2> HIDE DEF w
  <2>3. LET d == set_field(c, "year", w) IN d \in Calendar /\ d.sec = c.sec /\ d.min = c.min
    BY ZenonT(60), <2>1, FieldSet
  <2>4. QED
    BY Zenon, <2>2, <2>3
<1>7. QED
  BY Zenon, <1>2, <1>3, <1>4, <1>5, <1>6

(* Resetting fields makes a date, with minutes and seconds that are 0 or kept. *)
LEMMA ResetAll ==
  ASSUME NEW c \in Calendar, NEW resets
  PROVE  reset_all_min(c, resets) \in Calendar
<1>1. \A f \in {"sec", "min", "hour", "mday"}, d \in Calendar : Zeroed(d, f, resets) \in Calendar
  <2> SUFFICES ASSUME NEW f \in {"sec", "min", "hour", "mday"}, NEW d \in Calendar
               PROVE  Zeroed(d, f, resets) \in Calendar
    OBVIOUS
  <2>1. Lowest(f) \in Int /\ (f = "mday" => Lowest(f) \in 1 .. 40) /\ Lowest(f) \in 0 .. 11
    BY SMT DEF Lowest
  <2>2. Lowest(f) \in -1 .. 60 /\ Lowest(f) \in -1 .. 24
    BY SMT, <2>1
  <2>3. reset_min(d, f) \in Calendar
    BY Zenon, <2>1, <2>2, FieldSet DEF reset_min
  <2>4. QED
    BY Zenon, <2>3 DEF Zeroed
<1>2. QED
  BY Zenon, <1>1 DEF reset_all_min

(* Another time of the same day *)
LEMMA ClockMoved ==
  ASSUME NEW c \in Raw, NEW d \in Raw, d.year = c.year, d.mon = c.mon, d.mday = c.mday
  PROVE  /\ Stamp(c) \in Int
         /\ Stamp(d) = Stamp(c) + (d.hour - c.hour) * HourSeconds + (d.min - c.min) * 60 + (d.sec - c.sec)
<1> DEFINE n == DayNumber(c)
           h == c.hour
           i == c.min
           s == c.sec
           x == d.hour
           y == d.min
           z == d.sec
           t == Stamp(c)
           u == Stamp(d)
<1>1. h \in Int /\ i \in Int /\ s \in Int /\ x \in Int /\ y \in Int /\ z \in Int
  BY SMT DEF Raw
<1>2. n \in Int
  BY Zenon, DayNumberSum
<1>3. DayNumber(d) = n
  BY Zenon, DayOfDate
<1>4. t = DaySeconds * n + ClockOf(h, i, s)
  BY Zenon, ClockFields DEF Stamp
<1>5. u = DaySeconds * n + ClockOf(x, y, z)
  BY Zenon, <1>3, ClockFields DEF Stamp
<1> HIDE DEF n, h, i, s, x, y, z, t, u
<1>6. t \in Int /\ u = t + (x - h) * HourSeconds + (y - i) * 60 + (z - s)
  BY SMT, <1>1, <1>2, <1>4, <1>5 DEF DaySeconds, ClockOf, HourSeconds
<1>7. QED
  BY Zenon, <1>6 DEF h, i, s, x, y, z, t, u

(* Days, hours and minutes are numbered by the fields down to theirs. *)
LEMMA SameUnits ==
  ASSUME NEW c \in Raw, NEW d \in Raw, c.year = d.year, c.mon = d.mon, c.mday = d.mday
  PROVE  /\ DayNumber(c) = DayNumber(d)
         /\ c.hour = d.hour => HourNo(c) = HourNo(d)
         /\ c.hour = d.hour /\ c.min = d.min => MinuteNo(c) = MinuteNo(d)
<1>1. DayNumber(c) = DayNumber(d)
  BY Zenon, DayOfDate
<1>2. QED
  BY Zenon, <1>1 DEF HourNo, MinuteNo

(* A minute more keeps the second, an hour more the minute and the second. *)
LEMMA Shifted ==
  ASSUME NEW c \in Calendar, NEW d \in Calendar
  PROVE  /\ Stamp(d) = Stamp(c) + (1 * 60) => MinuteNo(d) = MinuteNo(c) + 1 /\ d.sec = c.sec
         /\ Stamp(d) = Stamp(c) + (1 * HourSeconds) =>
              HourNo(d) = HourNo(c) + 1 /\ d.min = c.min /\ d.sec = c.sec
<1> DEFINE C == Stamp(c)
           D == Stamp(d)
           cm == MinuteNo(c)
           dm == MinuteNo(d)
           ch == HourNo(c)
           dh == HourNo(d)
           i == c.min
           j == d.min
           s == c.sec
           t == d.sec
<1>1. /\ cm \in Int /\ dm \in Int /\ ch \in Int /\ dh \in Int
      /\ C = 60 * cm + s /\ D = 60 * dm + t /\ cm = 60 * ch + i /\ dm = 60 * dh + j
      /\ i \in 0 .. 59 /\ j \in 0 .. 59 /\ s \in 0 .. 59 /\ t \in 0 .. 59
  BY Zenon, Units
<1> HIDE DEF C, D, cm, dm, ch, dh, i, j, s, t
<1>2. D = C + (1 * 60) => dm = cm + 1 /\ t = s
  BY SMT, <1>1
<1>3. ASSUME D = C + (1 * HourSeconds) PROVE dh = ch + 1 /\ j = i /\ t = s
  <2>1. 60 * dm + t = 60 * (cm + 60) + s
    BY SMT, <1>1, <1>3 DEF HourSeconds
  <2>2. dm = cm + 60 /\ t = s
    <3> DEFINE k == cm + 60
    <3>1. k \in Int
      BY SMT, <1>1
    <3>2. 60 * dm + t = 60 * k + s
      BY Zenon, <2>1
    <3> HIDE DEF k
    <3>3. ~(dm < k) /\ ~(k < dm)
      BY SMT, <1>1, <3>1, <3>2
    <3>4. dm = k /\ t = s
      BY SMT, <1>1, <3>1, <3>2, <3>3
    <3>5. QED
      BY Zenon, <3>4 DEF k
  <2>3. 60 * dh + j = 60 * (ch + 1) + i
    BY SMT, <1>1, <2>2
  <2>4. QED
    BY SMT, <1>1, <2>2, <2>3
<1>4. QED
  BY Zenon, <1>2, <1>3 DEF C, D, cm, dm, ch, dh, i, j, s, t

(* Minutes, hours and days are numbered in the order of their stamps. *)
LEMMA UnitOrder ==
  ASSUME NEW c \in Calendar, NEW d \in Calendar
  PROVE  /\ Stamp(c) <= Stamp(d) => MinuteNo(c) <= MinuteNo(d)
         /\ MinuteNo(c) <= MinuteNo(d) => HourNo(c) <= HourNo(d)
         /\ HourNo(c) <= HourNo(d) => DayNumber(c) <= DayNumber(d)
         /\ DayNumber(c) < DayNumber(d) => HourNo(c) < HourNo(d)
         /\ HourNo(c) < HourNo(d) => MinuteNo(c) < MinuteNo(d)
         /\ MinuteNo(c) < MinuteNo(d) => Stamp(c) < Stamp(d)
         /\ DayNumber(c) <= DayNumber(d) /\ c.hour = 0 => HourNo(c) <= HourNo(d)
         /\ HourNo(c) <= HourNo(d) /\ c.min = 0 => MinuteNo(c) <= MinuteNo(d)
         /\ MinuteNo(c) <= MinuteNo(d) /\ c.sec <= d.sec => Stamp(c) <= Stamp(d)
<1> DEFINE cd == DayNumber(c)
           ch == HourNo(c)
           cm == MinuteNo(c)
           cs == Stamp(c)
           dd == DayNumber(d)
           dh == HourNo(d)
           dm == MinuteNo(d)
           ds == Stamp(d)
           h == c.hour
           m == c.min
           s == c.sec
           x == d.hour
           y == d.min
           z == d.sec
<1>1. /\ cd \in Int /\ ch \in Int /\ cm \in Int /\ dd \in Int /\ dh \in Int /\ dm \in Int
      /\ ch = 24 * cd + h /\ cm = 60 * ch + m /\ cs = 60 * cm + s
      /\ dh = 24 * dd + x /\ dm = 60 * dh + y /\ ds = 60 * dm + z
      /\ h \in 0 .. 23 /\ m \in 0 .. 59 /\ s \in 0 .. 59
      /\ x \in 0 .. 23 /\ y \in 0 .. 59 /\ z \in 0 .. 59
  BY Zenon, Units
<1> HIDE DEF cd, ch, cm, cs, dd, dh, dm, ds, h, m, s, x, y, z
<1>2. /\ cs <= ds => cm <= dm
      /\ cm < dm => cs < ds
      /\ cm <= dm /\ s <= z => cs <= ds
  BY SMT, <1>1
<1>3. /\ cm <= dm => ch <= dh
      /\ ch < dh => cm < dm
      /\ ch <= dh /\ m = 0 => cm <= dm
  BY SMT, <1>1
<1>4. /\ ch <= dh => cd <= dd
      /\ cd < dd => ch < dh
      /\ cd <= dd /\ h = 0 => ch <= dh
  BY SMT, <1>1
<1>5. QED
  BY Zenon, <1>2, <1>3, <1>4 DEF cd, ch, cm, cs, dd, dh, dm, ds, h, m, s, x, y, z


(***************************************************************************)
(* The hours of standard time                                               *)
(***************************************************************************)

(* Whole hours and the rest of the hour *)
LEMMA HoursAndRest ==
  ASSUME NEW m \in Int, NEW n \in Int, NEW s \in 0 .. (HourSeconds - 1), NEW t \in 0 .. (HourSeconds - 1),
         HourSeconds * m + s = HourSeconds * n + t
  PROVE  m = n /\ s = t
<1>1. s \in Int /\ t \in Int /\ 0 <= s /\ s < 3600 /\ 0 <= t /\ t < 3600 /\ 3600 * m + s = 3600 * n + t
  BY SMT DEF HourSeconds
<1>2. ~(m < n) /\ ~(n < m)
  BY ONLY <1>1, m \in Int, n \in Int, SMT
<1>3. m = n
  BY ONLY <1>2, m \in Int, n \in Int, SMT
<1>4. QED
  BY ONLY <1>1, <1>3, m \in Int, n \in Int, SMT

(* A stamp is made of hours, minutes and seconds. *)
LEMMA StampOfHour ==
  ASSUME NEW c \in Raw
  PROVE  HourNo(c) \in Int /\ Stamp(c) = HourSeconds * HourNo(c) + (c.min * 60 + c.sec)
<1> DEFINE n == DayNumber(c)
           h == c.hour
           i == c.min
           s == c.sec
<1>1. h \in Int /\ i \in Int /\ s \in Int
  BY SMT DEF Raw
<1>2. n \in Int
  BY Zenon, DayNumberSum
<1>3. HourNo(c) = 24 * n + h /\ Stamp(c) = 86400 * n + (h * 3600 + i * 60 + s)
  BY SMT DEF HourNo, Stamp, Clock, DaySeconds
<1> HIDE DEF n, h, i, s
<1>4. 24 * n + h \in Int /\ 86400 * n + (h * 3600 + i * 60 + s) = 3600 * (24 * n + h) + (i * 60 + s)
  BY SMT, <1>1, <1>2
<1>5. QED
  BY SMT, <1>3, <1>4 DEF i, s, HourSeconds

(* An hour of a day *)
LEMMA HourOfDay ==
  ASSUME NEW c \in Calendar, NEW d \in Calendar, HourNo(c) = HourNo(d)
  PROVE  DayNumber(c) = DayNumber(d) /\ c.hour = d.hour
<1> DEFINE m == DayNumber(c)
           n == DayNumber(d)
           h == c.hour
           k == d.hour
<1>1. m \in Int /\ n \in Int /\ h \in 0 .. 23 /\ k \in 0 .. 23 /\ 24 * m + h = 24 * n + k
  BY Zenon, CalendarFields DEF HourNo
<1> HIDE DEF m, n, h, k
<1>2. m = n /\ h = k
  BY SMT, <1>1
<1>3. QED
  BY Zenon, <1>2 DEF m, n, h, k

(* What is added to the n-th hour of standard time: an hour or none *)
Bit(n) == IF \E s \in Calendar : HourNo(s) = n /\ InSummer(s) THEN 1 ELSE 0

(* It depends on nothing but the hour. *)
LEMMA BitOf ==
  ASSUME NEW s \in Calendar
  PROVE  Bit(HourNo(s)) = (IF InSummer(s) THEN 1 ELSE 0)
<1>1. ASSUME NEW t \in Calendar, HourNo(t) = HourNo(s), InSummer(t) PROVE InSummer(s)
  <2>1. DayNumber(t) = DayNumber(s) /\ t.hour = s.hour
    BY Zenon, <1>1, HourOfDay
  <2>2. t.year = s.year /\ t.mon = s.mon /\ t.mday = s.mday
    BY Zenon, <2>1, SameDay
  <2>3. QED
    BY Zenon, <1>1, <2>1, <2>2 DEF InSummer
<1>2. QED
  BY Zenon, <1>1 DEF Bit

(* The hour of standard time the fields name *)
StdHour(c) == HourNo(c) - c.dst

(* cron_mktime keeps it, and the minutes and the seconds. *)
LEMMA HourKept ==
  ASSUME NEW c \in Wide, c.min \in 0 .. 59, c.sec \in 0 .. 59
  PROVE  LET d == cron_mktime(c)
         IN /\ d \in Calendar /\ d.min = c.min /\ d.sec = c.sec
            /\ StdHour(d) = StdHour(c) /\ d.dst = Bit(StdHour(c))
            /\ \E s \in Calendar : HourNo(s) = StdHour(c)
<1> DEFINE d == cron_mktime(c)
           s == Standard(c)
           i == c.min
           j == c.sec
<1>1. /\ d \in Calendar /\ d.dst = (IF InSummer(s) THEN 1 ELSE 0) /\ s \in Calendar
      /\ Stamp(s) = Stamp(c) - c.dst * HourSeconds
      /\ Stamp(d) = Stamp(s) + d.dst * HourSeconds
      /\ d.min = i /\ d.sec = j
  BY Zenon, Normalised
<1>2. c \in Raw /\ s \in Raw /\ d \in Raw
  <2>1. c \in Raw
    BY SMT DEF Wide, Raw
  <2>2. QED
    BY Zenon, <1>1, <2>1, CalendarFields
<1>3. d.dst = Bit(HourNo(s))
  BY Zenon, <1>1, BitOf
<1> DEFINE a == HourNo(c)
           b == HourNo(s)
           e == HourNo(d)
           u == c.dst
           v == d.dst
           x == s.min
           y == s.sec
           A == Stamp(c)
           B == Stamp(s)
           E == Stamp(d)
<1>4. /\ a \in Int /\ A = HourSeconds * a + (i * 60 + j)
      /\ b \in Int /\ B = HourSeconds * b + (x * 60 + y)
      /\ e \in Int /\ E = HourSeconds * e + (i * 60 + j)
  BY Zenon, <1>1, <1>2, StampOfHour
<1>5. /\ B = A - u * HourSeconds /\ E = B + v * HourSeconds
      /\ i \in 0 .. 59 /\ j \in 0 .. 59 /\ x \in 0 .. 59 /\ y \in 0 .. 59
  BY Zenon, <1>1, CalendarFields
<1>6. u \in Int /\ v \in Int
  BY SMT, <1>2 DEF Raw
<1>7. b = a - u /\ e = b + v
  <2> HIDE DEF a, b, e, u, v, x, y, A, B, E, i, j
  <2>1. /\ i * 60 + j \in 0 .. (HourSeconds - 1) /\ x * 60 + y \in 0 .. (HourSeconds - 1)
        /\ a - u \in Int /\ b + v \in Int
    BY SMT, <1>4, <1>5, <1>6 DEF HourSeconds
  <2>2. HourSeconds * b + (x * 60 + y) = HourSeconds * (a - u) + (i * 60 + j)
    BY SMT, <1>4, <1>5, <1>6 DEF HourSeconds
  <2> DEFINE k == a - u
             f == b + v
             r == i * 60 + j
             t == x * 60 + y
  <2>3. b = k /\ t = r
    <3>1. b \in Int /\ k \in Int /\ t \in 0 .. (HourSeconds - 1) /\ r \in 0 .. (HourSeconds - 1)
          /\ HourSeconds * b + t = HourSeconds * k + r
      BY Zenon, <1>4, <2>1, <2>2
    <3> HIDE DEF k, r, t
    <3>2. QED
      BY SMT, <3>1, HoursAndRest
  <2>4. HourSeconds * e + (i * 60 + j) = HourSeconds * (b + v) + (i * 60 + j)
    BY SMT, <1>4, <1>5, <1>6, <2>2, <2>3 DEF HourSeconds
  <2>5. e = f
    <3>1. e \in Int /\ f \in Int /\ r \in 0 .. (HourSeconds - 1)
          /\ HourSeconds * e + r = HourSeconds * f + r
      BY Zenon, <1>4, <2>1, <2>4
    <3> HIDE DEF f, r
    <3>2. QED
      BY Zenon, <3>1, HoursAndRest
  <2>6. QED
    BY Zenon, <2>3, <2>5
<1> HIDE DEF d, s
<1>8. e - v = a - u
  BY SMT, <1>4, <1>6, <1>7
<1>9. d.dst = Bit(a - u) /\ \E t \in Calendar : HourNo(t) = a - u
  BY Zenon, <1>1, <1>3, <1>7
<1>10. QED
  BY Zenon, <1>1, <1>8, <1>9 DEF StdHour, d

(* Days and hours of standard time are numbers. *)
LEMMA HourRange ==
  ASSUME NEW c \in Calendar
  PROVE  /\ DayNumber(c) \in Int /\ HourNo(c) \in Int /\ StdHour(c) \in Int
         /\ c.dst \in 0 .. 1 /\ c.dst \in Int /\ c.hour \in 0 .. 23
         /\ StdHour(c) = 24 * DayNumber(c) + c.hour - c.dst
<1> DEFINE n == DayNumber(c)
           h == c.hour
           u == c.dst
<1>1. n \in Int /\ h \in 0 .. 23
  BY Zenon, CalendarFields
<1>2. u \in 0 .. 1
  BY SMT DEF Calendar
<1>3. HourNo(c) = 24 * n + h /\ StdHour(c) = (24 * n + h) - u
  BY Zenon DEF HourNo, StdHour
<1> HIDE DEF n, h, u
<1>4. 24 * n + h \in Int /\ (24 * n + h) - u \in Int /\ u \in Int
  BY SMT, <1>1, <1>2
<1>5. QED
  BY SMT, <1>1, <1>2, <1>3, <1>4 DEF n, h, u

(* A date as cron_mktime leaves it *)
Settled(c) == c \in Calendar /\ c.dst = Bit(StdHour(c))

(* Writing the seconds or the minutes of such a date leaves the hour. *)
LEMMA SettledWritten ==
  ASSUME NEW c, Settled(c), NEW v \in 0 .. 59
  PROVE  /\ LET d == set_field(c, "sec", v)
            IN Settled(d) /\ StdHour(d) = StdHour(c) /\ d.dst = c.dst /\ d.sec = v /\ d.min = c.min
         /\ LET d == set_field(c, "min", v)
            IN Settled(d) /\ StdHour(d) = StdHour(c) /\ d.dst = c.dst /\ d.sec = c.sec /\ d.min = v
<1>1. c \in Calendar /\ c \in Raw /\ c.mday \in 1 .. 31 /\ c.hour \in 0 .. 23 /\ c.min \in 0 .. 59 /\ c.sec \in 0 .. 59
      /\ c.dst = Bit(StdHour(c))
  BY Zenon, CalendarFields DEF Settled
<1>2. /\ 0 .. 59 \subseteq -1 .. 60 /\ 0 .. 23 \subseteq -1 .. 24 /\ 1 .. 31 \subseteq 1 .. 40
      /\ v \in Int
  BY SMT
<1>3. ASSUME NEW d \in Raw, d.year = c.year, d.mon = c.mon, d.mday = c.mday, d.hour = c.hour, d.dst = c.dst,
             d.min \in 0 .. 59, d.sec \in 0 .. 59
      PROVE  LET r == cron_mktime(d)
             IN Settled(r) /\ StdHour(r) = StdHour(c) /\ r.dst = c.dst /\ r.sec = d.sec /\ r.min = d.min
  <2>1. d \in Wide
    BY Zenon, <1>1, <1>2, <1>3, InWide
  <2>2. HourNo(d) = HourNo(c)
    BY Zenon, <1>1, <1>3, SameUnits
  <2>3. StdHour(d) = StdHour(c)
    BY Zenon, <1>3, <2>2 DEF StdHour
  <2>4. QED
    BY Zenon, <1>1, <1>3, <2>1, <2>3, HourKept DEF Settled
<1>4. LET d == set_field(c, "sec", v)
      IN Settled(d) /\ StdHour(d) = StdHour(c) /\ d.dst = c.dst /\ d.sec = v /\ d.min = c.min
  <2> DEFINE d == Put(c, "sec", v)
  <2>1. /\ d \in Raw /\ d.year = c.year /\ d.mon = c.mon /\ d.mday = c.mday
        /\ d.hour = c.hour /\ d.min = c.min /\ d.sec = v /\ d.dst = c.dst
    BY Zenon, <1>1, <1>2, PutClock
  <2>2. set_field(c, "sec", v) = cron_mktime(d)
    BY Zenon, PutAndNormalised
  <2> HIDE DEF d
  <2>3. QED
    BY Zenon, <1>1, <1>3, <2>1, <2>2
<1>5. LET d == set_field(c, "min", v)
      IN Settled(d) /\ StdHour(d) = StdHour(c) /\ d.dst = c.dst /\ d.sec = c.sec /\ d.min = v
  <2> DEFINE d == Put(c, "min", v)
  <2>1. /\ d \in Raw /\ d.year = c.year /\ d.mon = c.mon /\ d.mday = c.mday
        /\ d.hour = c.hour /\ d.min = v /\ d.sec = c.sec /\ d.dst = c.dst
    BY Zenon, <1>1, <1>2, PutClock
  <2>2. set_field(c, "min", v) = cron_mktime(d)
    BY Zenon, PutAndNormalised
  <2> HIDE DEF d
  <2>3. QED
    BY Zenon, <1>1, <1>3, <2>1, <2>2
<1>6. QED
  BY Zenon, <1>4, <1>5

(* Writing hour 0 leads to the first hour of the day, under the rule that was in force. *)
LEMMA HourZeroed ==
  ASSUME NEW c \in Calendar
  PROVE  LET d == set_field(c, "hour", 0)
         IN /\ Settled(d) /\ d.min = c.min /\ d.sec = c.sec
            /\ StdHour(d) = 24 * DayNumber(c) - c.dst
<1> DEFINE p == Put(c, "hour", 0)
<1>1. c \in Raw /\ c.mday \in 1 .. 31 /\ c.min \in 0 .. 59 /\ c.sec \in 0 .. 59
  BY Zenon, CalendarFields
<1>2. 0 \in Int /\ 0 \in -1 .. 24 /\ 0 .. 59 \subseteq -1 .. 60 /\ 1 .. 31 \subseteq 1 .. 40
  BY SMT
<1>3. /\ p \in Raw /\ p.year = c.year /\ p.mon = c.mon /\ p.mday = c.mday
      /\ p.hour = 0 /\ p.min = c.min /\ p.sec = c.sec /\ p.dst = c.dst
  BY Zenon, <1>1, <1>2, PutClock
<1>4. set_field(c, "hour", 0) = cron_mktime(p)
  BY Zenon, PutAndNormalised
<1> HIDE DEF p
<1>5. p \in Wide
  BY ZenonT(60), <1>1, <1>2, <1>3, InWide
<1>6. DayNumber(p) = DayNumber(c)
  BY Zenon, <1>1, <1>3, SameUnits
<1>7. StdHour(p) = 24 * DayNumber(c) - c.dst
  <2>1. StdHour(p) = (24 * DayNumber(c) + 0) - c.dst
    BY Zenon, <1>3, <1>6 DEF StdHour, HourNo
  <2>2. QED
    BY SMT, <2>1, CalendarFields
<1>8. QED
  BY Zenon, <1>1, <1>3, <1>4, <1>5, <1>7, HourKept DEF Settled

(* A day more is 24 hours more of standard time. *)
LEMMA DayMoved ==
  ASSUME NEW c \in Calendar
  PROVE  LET d == add_to_field(c, "mday", 1)
         IN /\ Settled(d) /\ d.min = c.min /\ d.sec = c.sec
            /\ StdHour(d) = StdHour(c) + 24
<1> DEFINE v == c["mday"] + 1
           p == Put(c, "mday", v)
<1>1. c \in Raw /\ c.mday \in 1 .. 31 /\ c.hour \in 0 .. 23 /\ c.min \in 0 .. 59 /\ c.sec \in 0 .. 59
  BY Zenon, CalendarFields
<1>2. v \in Int /\ v \in 1 .. 40 /\ v = c.mday + 1 /\ 0 .. 59 \subseteq -1 .. 60 /\ 0 .. 23 \subseteq -1 .. 24
  BY SMT, <1>1
<1>3. add_to_field(c, "mday", 1) = cron_mktime(p)
  BY ZenonT(60), PutAndNormalised
<1>4. /\ p \in Raw /\ p.year = c.year /\ p.mon = c.mon /\ p.mday = v
      /\ p.hour = c.hour /\ p.min = c.min /\ p.sec = c.sec /\ p.dst = c.dst
  <2> HIDE DEF v
  <2>1. QED
    BY Zenon, <1>1, <1>2, PutDate
<1> HIDE DEF p, v
<1>5. p \in Wide
  BY ZenonT(60), <1>1, <1>2, <1>4, InWide
<1>6. DayNumber(p) = DayNumber(c) + 1
  <2>1. DayNumber(p) - DayNumber(c) = v - c.mday
    BY Zenon, <1>1, <1>4, SameMonthDays
  <2>2. DayNumber(p) \in Int /\ DayNumber(c) \in Int /\ c.mday \in Int
    BY SMT, <1>1, <1>4, DayNumberSum
  <2>3. QED
    BY SMT, <1>2, <2>1, <2>2
<1>7. StdHour(p) = StdHour(c) + 24
  <2>1. StdHour(p) = (24 * (DayNumber(c) + 1) + c.hour) - c.dst
    BY Zenon, <1>4, <1>6 DEF StdHour, HourNo
  <2>2. QED
    BY SMT, <2>1, HourRange
<1>8. QED
  BY Zenon, <1>1, <1>3, <1>4, <1>5, <1>7, HourKept DEF Settled

(* The clock set to the start of the day that was read: its first hour, and the full *)
(* hour, with the second kept or 0                                                    *)
LEMMA DayStarted ==
  ASSUME NEW y, Settled(y), NEW resets \in SUBSET {"sec", "min", "hour"}, "min" \in resets, "hour" \in resets
  PROVE  LET d == reset_all_min(y, resets)
         IN /\ Settled(d) /\ StdHour(d) = 24 * DayNumber(y) - y.dst /\ d.min = 0
            /\ ("sec" \in resets => d.sec = 0) /\ ("sec" \notin resets => d.sec = y.sec)
<1> DEFINE a == Zeroed(y, "sec", resets)
           b == Zeroed(a, "min", resets)
           d == reset_all_min(y, resets)
<1>1. 0 \in 0 .. 59 /\ y \in Calendar
  BY SMT DEF Settled
<1>2. /\ Settled(a) /\ StdHour(a) = StdHour(y) /\ a.dst = y.dst
      /\ ("sec" \in resets => a.sec = 0) /\ ("sec" \notin resets => a.sec = y.sec)
  <2>1. "sec" \in resets => a = set_field(y, "sec", 0)
    BY SMT DEF Zeroed, reset_min, Lowest
  <2>2. "sec" \notin resets => a = y
    BY Zenon DEF Zeroed
  <2>3. LET w == set_field(y, "sec", 0)
        IN Settled(w) /\ StdHour(w) = StdHour(y) /\ w.dst = y.dst /\ w.sec = 0
    BY Zenon, <1>1, SettledWritten
  <2> HIDE DEF a
  <2>4. QED
    BY Zenon, <2>1, <2>2, <2>3
<1>3. Settled(b) /\ StdHour(b) = StdHour(a) /\ b.dst = a.dst /\ b.sec = a.sec /\ b.min = 0
  <2> HIDE DEF a
  <2>1. b = set_field(a, "min", 0)
    BY SMT DEF Zeroed, reset_min, Lowest
  <2> HIDE DEF b
  <2>2. QED
    BY Zenon, <1>1, <1>2, <2>1, SettledWritten
<1>4. d = set_field(b, "hour", 0)
  <2>1. "mday" \notin resets
    BY SMT
  <2>2. d = Zeroed(b, "hour", resets)
    BY Zenon, <2>1 DEF reset_all_min, Zeroed
  <2> HIDE DEF d, b
  <2>3. QED
    BY SMT, <2>2 DEF Zeroed, reset_min, Lowest
<1>5. b \in Calendar /\ DayNumber(b) = DayNumber(y)
  <2>1. b \in Calendar
    BY Zenon, <1>3 DEF Settled
  <2>2. HourNo(b) = HourNo(y)
    <3>1. StdHour(b) = HourNo(b) - b.dst /\ StdHour(y) = HourNo(y) - y.dst
      BY Zenon DEF StdHour
    <3>2. HourNo(b) \in Int /\ HourNo(y) \in Int /\ y.dst \in Int /\ b.dst = y.dst /\ StdHour(b) = StdHour(y)
      BY Zenon, <1>1, <1>2, <1>3, <2>1, HourRange
    <3> HIDE DEF b
    <3>3. QED
      BY SMT, <3>1, <3>2
  <2>3. QED
    BY Zenon, <1>1, <2>1, <2>2, HourOfDay
<1> HIDE DEF a, b, d
<1>6. QED
  BY Zenon, <1>2, <1>3, <1>4, <1>5, HourZeroed DEF d


(***************************************************************************)
(* A time without a change of the clock                                     *)
(***************************************************************************)

(* From the day before that of a to the day after that of x the clock is as at x. *)
Calm(a, x) ==
  /\ a \in Calendar /\ x \in Calendar
  /\ \A s \in Calendar : DayNumber(a) - 1 <= DayNumber(s) /\ DayNumber(s) <= DayNumber(x) + 1
                           => Bit(HourNo(s)) = x.dst

(* A date in that time, up to the day after x *)
Steady(a, x, c) ==
  c \in Calendar /\ c.dst = x.dst /\ DayNumber(a) <= DayNumber(c) /\ DayNumber(c) <= DayNumber(x) + 1

(* The hours of standard time of these dates *)
LEMMA CalmHour ==
  ASSUME NEW a, NEW x, Calm(a, x), NEW s \in Calendar,
         24 * (DayNumber(a) - 1) <= HourNo(s), HourNo(s) < 24 * (DayNumber(x) + 2)
  PROVE  Bit(HourNo(s)) = x.dst
<1> DEFINE m == DayNumber(a)
           n == DayNumber(x)
           k == DayNumber(s)
           h == s.hour
<1>1. m \in Int /\ n \in Int /\ k \in Int /\ h \in 0 .. 23
  BY Zenon, CalendarFields DEF Calm
<1>2. 24 * (m - 1) <= 24 * k + h /\ 24 * k + h < 24 * (n + 2)
  BY Zenon DEF HourNo
<1>3. m - 1 <= k /\ k <= n + 1
  <2> HIDE DEF m, n, k, h
  <2>1. QED
    BY SMT, <1>1, <1>2
<1>4. QED
  BY Zenon, <1>3 DEF Calm

(* cron_mktime leaves the time and the rule in force. *)
LEMMA SteadyKept ==
  ASSUME NEW a, NEW x, Calm(a, x), NEW c \in Wide, c.dst = x.dst,
         DaySeconds * DayNumber(a) <= Stamp(c), Stamp(c) < DaySeconds * (DayNumber(x) + 2)
  PROVE  LET d == cron_mktime(c) IN Steady(a, x, d) /\ Stamp(d) = Stamp(c)
<1> DEFINE d == cron_mktime(c)
           s == Standard(c)
<1>1. /\ d \in Calendar /\ d.dst = (IF InSummer(s) THEN 1 ELSE 0) /\ s \in Calendar /\ s \in Raw
      /\ Stamp(c) \in Int
      /\ Stamp(s) = Stamp(c) - c.dst * HourSeconds
      /\ Stamp(d) = Stamp(s) + d.dst * HourSeconds
  BY Zenon, Normalised, CalendarFields
<1>2. d.dst = Bit(HourNo(s))
  BY Zenon, <1>1, BitOf
<1> HIDE DEF d, s
<1> DEFINE m == DayNumber(a)
           n == DayNumber(x)
           u == x.dst
           C == Stamp(c)
           S == Stamp(s)
           h == HourNo(s)
           i == s.min
           j == s.sec
<1>3. m \in Int /\ n \in Int /\ i \in 0 .. 59 /\ j \in 0 .. 59
  BY Zenon, <1>1, CalendarFields DEF Calm
<1>4. u \in 0 .. 1
  BY SMT DEF Calm, Calendar
<1>5. /\ DaySeconds * m <= C /\ C < DaySeconds * (n + 2) /\ S = C - u * HourSeconds /\ C \in Int
      /\ h \in Int /\ S = HourSeconds * h + (i * 60 + j)
  BY Zenon, <1>1, StampOfHour
<1>6. 24 * (m - 1) <= h /\ h < 24 * (n + 2)
  <2> HIDE DEF m, n, u, C, S, h, i, j
  <2>1. HourSeconds * h + (i * 60 + j) >= HourSeconds * (24 * m - 1)
    BY SMT, <1>3, <1>4, <1>5 DEF DaySeconds, HourSeconds
  <2>2. HourSeconds * h < HourSeconds * (24 * (n + 2))
    BY SMT, <1>3, <1>4, <1>5 DEF DaySeconds, HourSeconds
  <2>3. QED
    BY SMT, <1>3, <1>5, <2>1, <2>2 DEF HourSeconds
<1>7. d.dst = u
  BY Zenon, <1>1, <1>2, <1>6, CalmHour
<1>8. Stamp(d) = C
  <2>1. Stamp(d) = (C - u * HourSeconds) + u * HourSeconds
    BY Zenon, <1>1, <1>5, <1>7
  <2> HIDE DEF C, u
  <2>2. QED
    BY SMT, <1>4, <1>5, <2>1 DEF HourSeconds
<1>9. DayNumber(a) <= DayNumber(d) /\ DayNumber(d) <= DayNumber(x) + 1
  <2> DEFINE k == DayNumber(d)
             t == Clock(d)
  <2>1. k \in Int /\ t \in Int /\ 0 <= t /\ t < DaySeconds /\ C = DaySeconds * k + t
    BY Zenon, <1>1, <1>8, CalendarFields DEF Stamp
  <2>2. m <= k /\ k <= n + 1
    <3> HIDE DEF m, n, C, k, t
    <3>1. QED
      BY SMT, <1>3, <1>5, <2>1 DEF DaySeconds
  <2>3. QED
    BY Zenon, <2>2
<1>10. QED
  BY Zenon, <1>1, <1>7, <1>8, <1>9 DEF Steady, d

(* The stamps of these dates *)
LEMMA SteadyStamps ==
  ASSUME NEW a, NEW x, Calm(a, x), NEW c, Steady(a, x, c)
  PROVE  /\ c \in Calendar /\ c.dst = x.dst /\ Stamp(c) \in Int
         /\ DaySeconds * DayNumber(a) <= Stamp(c) /\ Stamp(c) < DaySeconds * (DayNumber(x) + 2)
         /\ DayNumber(c) <= DayNumber(x) => Stamp(c) < DaySeconds * (DayNumber(x) + 1)
<1> DEFINE m == DayNumber(a)
           n == DayNumber(x)
           k == DayNumber(c)
           t == Clock(c)
           C == Stamp(c)
<1>1. c \in Calendar /\ c.dst = x.dst /\ m <= k /\ k <= n + 1
  BY Zenon DEF Steady
<1>2. m \in Int /\ n \in Int /\ k \in Int /\ t \in Int /\ 0 <= t /\ t < DaySeconds /\ C \in Int
      /\ C = DaySeconds * k + t
  BY Zenon, <1>1, CalendarFields DEF Calm, Stamp
<1> HIDE DEF m, n, k, t, C
<1>3. /\ DaySeconds * m <= C /\ C < DaySeconds * (n + 2)
      /\ k <= n => C < DaySeconds * (n + 1)
  BY SMT, <1>1, <1>2 DEF DaySeconds
<1>4. QED
  BY Zenon, <1>1, <1>2, <1>3 DEF m, n, k, t, C

(* Another time of such a day is a date, and cron_mktime leaves it. *)
LEMMA SteadyClock ==
  ASSUME NEW a, NEW x, Calm(a, x), NEW c, Steady(a, x, c),
         NEW d \in Raw, d.year = c.year, d.mon = c.mon, d.mday = c.mday, d.dst = c.dst,
         d.hour \in 0 .. 23, d.min \in 0 .. 59, d.sec \in 0 .. 59
  PROVE  Steady(a, x, d) /\ cron_mktime(d) = d
<1>1. c \in Calendar /\ c \in Raw /\ c.dst = x.dst /\ c.mday \in 1 .. 31 /\ c.mday <= DaysIn(c.year, c.mon)
      /\ c.mon \in 0 .. 11
  BY Zenon, CalendarFields DEF Steady
<1>2. c.mday \in 1 .. DaysIn(c.year, c.mon)
  <2> DEFINE p == DaysIn(c.year, c.mon)
             n == c.mday
  <2>1. p \in 28 .. 31
    BY ZenonT(60), <1>1, MonthLengths
  <2>2. n \in 1 .. 31 /\ n <= p
    BY Zenon, <1>1
  <2> HIDE DEF p, n
  <2>3. n \in 1 .. p
    BY SMT, <2>1, <2>2
  <2>4. QED
    BY Zenon, <2>3 DEF p, n
<1>3. d \in Calendar
  BY Zenon, <1>2, InCalendar
<1>4. DayNumber(d) = DayNumber(c)
  BY Zenon, <1>1, SameUnits
<1>5. Steady(a, x, d)
  BY Zenon, <1>1, <1>3, <1>4 DEF Steady
<1>6. d \in Wide
  BY SMT, <1>3 DEF Calendar, Wide
<1>7. Steady(a, x, cron_mktime(d)) /\ Stamp(cron_mktime(d)) = Stamp(d)
  <2>1. /\ d.dst = x.dst /\ DaySeconds * DayNumber(a) <= Stamp(d)
        /\ Stamp(d) < DaySeconds * (DayNumber(x) + 2)
    BY Zenon, <1>5, SteadyStamps
  <2>2. QED
    BY Zenon, <1>6, <2>1, SteadyKept
<1>8. QED
  BY Zenon, <1>3, <1>5, <1>7, SameStamp DEF Steady

(* d is c at another time of the day, and c with some fields of the clock reset. *)
Written(c, d, h, i, s) ==
  /\ d.year = c.year /\ d.mon = c.mon /\ d.mday = c.mday
  /\ d.hour = h /\ d.min = i /\ d.sec = s

ResetIn(c, d, resets) ==
  /\ d.year = c.year /\ d.mon = c.mon /\ d.mday = c.mday
  /\ ("hour" \in resets => d.hour = 0) /\ ("hour" \notin resets => d.hour = c.hour)
  /\ ("min" \in resets => d.min = 0)   /\ ("min" \notin resets => d.min = c.min)
  /\ ("sec" \in resets => d.sec = 0)   /\ ("sec" \notin resets => d.sec = c.sec)

(* One field written, the others as they were *)
LEMMA SteadySec ==
  ASSUME NEW a, NEW x, Calm(a, x), NEW c, Steady(a, x, c), NEW v \in 0 .. 59
  PROVE  LET d == set_field(c, "sec", v)
         IN Steady(a, x, d) /\ Written(c, d, c.hour, c.min, v)
<1> DEFINE d == Put(c, "sec", v)
<1>1. /\ c \in Raw /\ c.hour \in 0 .. 23 /\ c.min \in 0 .. 59 /\ c.sec \in 0 .. 59
      /\ v \in Int
  BY SMT, CalendarFields DEF Steady
<1>2. /\ d \in Raw /\ d.year = c.year /\ d.mon = c.mon /\ d.mday = c.mday
      /\ d.hour = c.hour /\ d.min = c.min /\ d.sec = v /\ d.dst = c.dst
  BY Zenon, <1>1, PutClock
<1>3. set_field(c, "sec", v) = cron_mktime(d)
  BY Zenon, PutAndNormalised
<1> HIDE DEF d
<1>4. Steady(a, x, d) /\ cron_mktime(d) = d
  BY Zenon, <1>1, <1>2, SteadyClock
<1>5. QED
  BY Zenon, <1>2, <1>3, <1>4 DEF Written

LEMMA SteadyMin ==
  ASSUME NEW a, NEW x, Calm(a, x), NEW c, Steady(a, x, c), NEW v \in 0 .. 59
  PROVE  LET d == set_field(c, "min", v)
         IN Steady(a, x, d) /\ Written(c, d, c.hour, v, c.sec)
<1> DEFINE d == Put(c, "min", v)
<1>1. /\ c \in Raw /\ c.hour \in 0 .. 23 /\ c.min \in 0 .. 59 /\ c.sec \in 0 .. 59
      /\ v \in Int
  BY SMT, CalendarFields DEF Steady
<1>2. /\ d \in Raw /\ d.year = c.year /\ d.mon = c.mon /\ d.mday = c.mday
      /\ d.hour = c.hour /\ d.min = v /\ d.sec = c.sec /\ d.dst = c.dst
  BY Zenon, <1>1, PutClock
<1>3. set_field(c, "min", v) = cron_mktime(d)
  BY Zenon, PutAndNormalised
<1> HIDE DEF d
<1>4. Steady(a, x, d) /\ cron_mktime(d) = d
  BY Zenon, <1>1, <1>2, SteadyClock
<1>5. QED
  BY Zenon, <1>2, <1>3, <1>4 DEF Written

LEMMA SteadyHour ==
  ASSUME NEW a, NEW x, Calm(a, x), NEW c, Steady(a, x, c), NEW v \in 0 .. 23
  PROVE  LET d == set_field(c, "hour", v)
         IN Steady(a, x, d) /\ Written(c, d, v, c.min, c.sec)
<1> DEFINE d == Put(c, "hour", v)
<1>1. /\ c \in Raw /\ c.hour \in 0 .. 23 /\ c.min \in 0 .. 59 /\ c.sec \in 0 .. 59
      /\ v \in Int
  BY SMT, CalendarFields DEF Steady
<1>2. /\ d \in Raw /\ d.year = c.year /\ d.mon = c.mon /\ d.mday = c.mday
      /\ d.hour = v /\ d.min = c.min /\ d.sec = c.sec /\ d.dst = c.dst
  BY Zenon, <1>1, PutClock
<1>3. set_field(c, "hour", v) = cron_mktime(d)
  BY Zenon, PutAndNormalised
<1> HIDE DEF d
<1>4. Steady(a, x, d) /\ cron_mktime(d) = d
  BY Zenon, <1>1, <1>2, SteadyClock
<1>5. QED
  BY Zenon, <1>2, <1>3, <1>4 DEF Written

(* A second, a minute or an hour more, up to the day of x *)
LEMMA SteadyAdded ==
  ASSUME NEW a, NEW x, Calm(a, x), NEW c, Steady(a, x, c), DayNumber(c) <= DayNumber(x)
  PROVE  /\ LET d == add_to_field(c, "sec", 1)  IN Steady(a, x, d) /\ Stamp(d) = Stamp(c) + 1
         /\ LET d == add_to_field(c, "min", 1)  IN Steady(a, x, d) /\ Stamp(d) = Stamp(c) + (1 * 60)
         /\ LET d == add_to_field(c, "hour", 1) IN Steady(a, x, d) /\ Stamp(d) = Stamp(c) + (1 * HourSeconds)
<1> DEFINE m == DayNumber(a)
           n == DayNumber(x)
           t == Stamp(c)
<1>1. /\ c \in Calendar /\ c.dst = x.dst /\ t \in Int
      /\ DaySeconds * m <= t /\ t < DaySeconds * (n + 1)
  BY Zenon, SteadyStamps
<1>2. m \in Int /\ n \in Int
  BY Zenon, CalendarFields DEF Calm
<1>3. /\ c \in Raw /\ c.mday \in 1 .. 31 /\ c.hour \in 0 .. 23 /\ c.min \in 0 .. 59 /\ c.sec \in 0 .. 59
  BY Zenon, <1>1, CalendarFields
<1>4. /\ 1 .. 31 \subseteq 1 .. 40 /\ 0 .. 23 \subseteq -1 .. 24 /\ 0 .. 59 \subseteq -1 .. 60
  BY SMT
<1>5. ASSUME NEW d \in Wide, NEW k \in 0 .. HourSeconds, d.dst = c.dst, Stamp(d) = t + k
      PROVE  Steady(a, x, cron_mktime(d)) /\ Stamp(cron_mktime(d)) = t + k
  <2>1. DaySeconds * m <= t + k /\ t + k < DaySeconds * (n + 2)
    <3> HIDE DEF m, n, t
    <3>1. QED
      BY SMT, <1>1, <1>2 DEF DaySeconds, HourSeconds
  <2>2. QED
    BY Zenon, <1>1, <1>5, <2>1, SteadyKept
<1>6. LET d == add_to_field(c, "sec", 1)  IN Steady(a, x, d) /\ Stamp(d) = Stamp(c) + 1
  <2> DEFINE v == c["sec"] + 1
             d == Put(c, "sec", v)
  <2>1. v \in Int /\ v = c.sec + 1 /\ v \in -1 .. 60
    BY SMT, <1>3
  <2>2. add_to_field(c, "sec", 1) = cron_mktime(d)
    BY Zenon, PutAndNormalised
  <2> HIDE DEF v
  <2>3. /\ d \in Raw /\ d.year = c.year /\ d.mon = c.mon /\ d.mday = c.mday
        /\ d.hour = c.hour /\ d.min = c.min /\ d.sec = v /\ d.dst = c.dst
    BY Zenon, <1>3, <2>1, PutClock
  <2> HIDE DEF d
  <2>4. d \in Wide
    BY ZenonT(60), <1>3, <1>4, <2>1, <2>3, InWide
  <2>5. Stamp(d) = t + (d.hour - c.hour) * HourSeconds + (d.min - c.min) * 60 + (d.sec - c.sec)
    BY Zenon, <1>3, <2>3, ClockMoved
  <2>6. Stamp(d) = t + 1 /\ 1 \in 0 .. HourSeconds
    <3> HIDE DEF t
    <3>1. QED
      BY SMT, <1>1, <1>3, <2>1, <2>3, <2>5 DEF HourSeconds
  <2>7. QED
    BY Zenon, <1>5, <2>2, <2>3, <2>4, <2>6
<1>7. LET d == add_to_field(c, "min", 1)  IN Steady(a, x, d) /\ Stamp(d) = Stamp(c) + (1 * 60)
  <2> DEFINE v == c["min"] + 1
             d == Put(c, "min", v)
             k == 1 * 60
  <2>1. v \in Int /\ v = c.min + 1 /\ v \in -1 .. 60
    BY SMT, <1>3
  <2>2. add_to_field(c, "min", 1) = cron_mktime(d)
    BY ZenonT(60), PutAndNormalised
  <2> HIDE DEF v
  <2>3. /\ d \in Raw /\ d.year = c.year /\ d.mon = c.mon /\ d.mday = c.mday
        /\ d.hour = c.hour /\ d.min = v /\ d.sec = c.sec /\ d.dst = c.dst
    BY Zenon, <1>3, <2>1, PutClock
  <2> HIDE DEF d
  <2>4. d \in Wide
    BY Zenon, <1>3, <1>4, <2>1, <2>3, InWide
  <2>5. Stamp(d) = t + (d.hour - c.hour) * HourSeconds + (d.min - c.min) * 60 + (d.sec - c.sec)
    BY Zenon, <1>3, <2>3, ClockMoved
  <2>6. Stamp(d) = t + k /\ k \in 0 .. HourSeconds
    <3> HIDE DEF t
    <3>1. QED
      BY SMT, <1>1, <1>3, <2>1, <2>3, <2>5 DEF HourSeconds
  <2> HIDE DEF k
  <2>7. Steady(a, x, cron_mktime(d)) /\ Stamp(cron_mktime(d)) = t + k
    BY Zenon, <1>5, <2>3, <2>4, <2>6
  <2>8. QED
    BY Zenon, <2>2, <2>7 DEF k
<1>8. LET d == add_to_field(c, "hour", 1) IN Steady(a, x, d) /\ Stamp(d) = Stamp(c) + (1 * HourSeconds)
  <2> DEFINE v == c["hour"] + 1
             d == Put(c, "hour", v)
             k == 1 * HourSeconds
  <2>1. v \in Int /\ v = c.hour + 1 /\ v \in -1 .. 24
    BY SMT, <1>3
  <2>2. add_to_field(c, "hour", 1) = cron_mktime(d)
    BY ZenonT(60), PutAndNormalised
  <2> HIDE DEF v
  <2>3. /\ d \in Raw /\ d.year = c.year /\ d.mon = c.mon /\ d.mday = c.mday
        /\ d.hour = v /\ d.min = c.min /\ d.sec = c.sec /\ d.dst = c.dst
    BY Zenon, <1>3, <2>1, PutClock
  <2> HIDE DEF d
  <2>4. d \in Wide
    BY ZenonT(60), <1>3, <1>4, <2>1, <2>3, InWide
  <2>5. Stamp(d) = t + (d.hour - c.hour) * HourSeconds + (d.min - c.min) * 60 + (d.sec - c.sec)
    BY Zenon, <1>3, <2>3, ClockMoved
  <2>6. Stamp(d) = t + k /\ k \in 0 .. HourSeconds
    <3>1. d.hour - c.hour = 1 /\ d.min - c.min = 0 /\ d.sec - c.sec = 0
      BY SMT, <1>3, <2>1, <2>3
    <3>2. Stamp(d) = t + 1 * HourSeconds + 0 * 60 + 0
      BY Zenon, <2>5, <3>1
    <3> HIDE DEF t
    <3>3. QED
      BY SMT, <1>1, <3>2 DEF HourSeconds
  <2> HIDE DEF k
  <2>7. Steady(a, x, cron_mktime(d)) /\ Stamp(cron_mktime(d)) = t + k
    BY Zenon, <1>5, <2>3, <2>4, <2>6
  <2>8. QED
    BY Zenon, <2>2, <2>7 DEF k
<1>9. QED
  BY Zenon, <1>6, <1>7, <1>8

(* A day more is the same time of the next day. *)
LEMMA SteadyNextDay ==
  ASSUME NEW a, NEW x, Calm(a, x), NEW c, Steady(a, x, c), DayNumber(c) <= DayNumber(x)
  PROVE  LET d == add_to_field(c, "mday", 1)
         IN Steady(a, x, d) /\ DayNumber(d) = DayNumber(c) + 1
            /\ d.hour = c.hour /\ d.min = c.min /\ d.sec = c.sec
<1> DEFINE d == add_to_field(c, "mday", 1)
<1>1. c \in Calendar /\ c.dst = x.dst /\ Settled(d) /\ d.min = c.min /\ d.sec = c.sec
      /\ StdHour(d) = StdHour(c) + 24
  BY Zenon, DayMoved DEF Steady
<1> HIDE DEF d
<1>2. d \in Calendar /\ d.dst = Bit(StdHour(d))
  BY Zenon, <1>1 DEF Settled
<1>3. PICK s \in Calendar : HourNo(s) = StdHour(d)
  <2>1. d \in Wide /\ d.min \in 0 .. 59 /\ d.sec \in 0 .. 59
    BY SMT, <1>2 DEF Calendar, Wide
  <2>2. QED
    BY Zenon, <2>1, HourKept
<1> DEFINE m == DayNumber(a)
           n == DayNumber(x)
           k == DayNumber(c)
           h == c.hour
           l == DayNumber(d)
           g == d.hour
           u == x.dst
           v == d.dst
           p == StdHour(d)
<1>4. m \in Int /\ n \in Int /\ k \in Int /\ h \in 0 .. 23 /\ l \in Int /\ g \in 0 .. 23 /\ u \in 0 .. 1
      /\ p \in Int /\ p = 24 * l + g - v /\ p = (24 * k + h - u) + 24 /\ m <= k /\ k <= n
  BY Zenon, <1>1, <1>2, HourRange DEF Steady, Calm
<1>5. 24 * (m - 1) <= p /\ p < 24 * (n + 2)
  <2> HIDE DEF m, n, k, h, l, g, u, v, p
  <2>1. QED
    BY SMT, <1>4
<1>6. v = u
  BY Zenon, <1>2, <1>3, <1>5, CalmHour
<1>7. l = k + 1 /\ g = h /\ m <= l /\ l <= n + 1
  <2> HIDE DEF m, n, k, h, l, g, u, v, p
  <2>1. 24 * l + g = 24 * (k + 1) + h
    BY SMT, <1>4, <1>6
  <2>2. l = k + 1 /\ g = h
    BY SMT, <1>4, <2>1
  <2>3. QED
    BY SMT, <1>4, <2>2
<1>8. Steady(a, x, d)
  BY Zenon, <1>2, <1>6, <1>7 DEF Steady
<1>9. QED
  BY Zenon, <1>1, <1>7, <1>8 DEF d

(* Fields of the clock reset, the others as they were *)
LEMMA SteadyReset ==
  ASSUME NEW a, NEW x, Calm(a, x), NEW c, Steady(a, x, c), NEW resets \in SUBSET {"sec", "min", "hour"}
  PROVE  LET d == reset_all_min(c, resets)
         IN Steady(a, x, d) /\ ResetIn(c, d, resets)
<1> DEFINE s == Zeroed(c, "sec", resets)
           m == Zeroed(s, "min", resets)
           h == Zeroed(m, "hour", resets)
           d == reset_all_min(c, resets)
<1>0. 0 \in Int /\ 0 \in 0 .. 59 /\ 0 \in 0 .. 23
  BY SMT
<1>1. /\ Steady(a, x, s) /\ s.year = c.year /\ s.mon = c.mon /\ s.mday = c.mday
      /\ s.hour = c.hour /\ s.min = c.min
      /\ ("sec" \in resets => s.sec = 0) /\ ("sec" \notin resets => s.sec = c.sec)
  <2>1. "sec" \in resets => s = set_field(c, "sec", 0)
    BY SMT DEF Zeroed, reset_min, Lowest
  <2>2. "sec" \notin resets => s = c
    BY Zenon DEF Zeroed
  <2>3. LET w == set_field(c, "sec", 0)
        IN Steady(a, x, w) /\ Written(c, w, c.hour, c.min, 0)
    BY SMT, <1>0, SteadySec
  <2> HIDE DEF s
  <2>4. QED
    BY Zenon, <2>1, <2>2, <2>3 DEF Written
<1> HIDE DEF s
<1>2. /\ Steady(a, x, m) /\ m.year = s.year /\ m.mon = s.mon /\ m.mday = s.mday
      /\ m.hour = s.hour /\ m.sec = s.sec
      /\ ("min" \in resets => m.min = 0) /\ ("min" \notin resets => m.min = s.min)
  <2>1. "min" \in resets => m = set_field(s, "min", 0)
    BY SMT DEF Zeroed, reset_min, Lowest
  <2>2. "min" \notin resets => m = s
    BY Zenon DEF Zeroed
  <2>3. LET w == set_field(s, "min", 0)
        IN Steady(a, x, w) /\ Written(s, w, s.hour, 0, s.sec)
    BY SMT, <1>0, <1>1, SteadyMin
  <2> HIDE DEF m
  <2>4. QED
    BY Zenon, <1>1, <2>1, <2>2, <2>3 DEF Written
<1> HIDE DEF m
<1>3. /\ Steady(a, x, h) /\ h.year = m.year /\ h.mon = m.mon /\ h.mday = m.mday
      /\ h.min = m.min /\ h.sec = m.sec
      /\ ("hour" \in resets => h.hour = 0) /\ ("hour" \notin resets => h.hour = m.hour)
  <2>1. "hour" \in resets => h = set_field(m, "hour", 0)
    BY SMT DEF Zeroed, reset_min, Lowest
  <2>2. "hour" \notin resets => h = m
    BY Zenon DEF Zeroed
  <2>3. LET w == set_field(m, "hour", 0)
        IN Steady(a, x, w) /\ Written(m, w, 0, m.min, m.sec)
    BY SMT, <1>0, <1>2, SteadyHour
  <2> HIDE DEF h
  <2>4. QED
    BY Zenon, <1>2, <2>1, <2>2, <2>3 DEF Written
<1>4. d = h
  <2>1. "mday" \notin resets
    BY SMT
  <2>2. QED
    BY Zenon, <2>1 DEF reset_all_min, Zeroed, s, m
<1> HIDE DEF d, h
<1>5. QED
  BY Zenon, <1>1, <1>2, <1>3, <1>4 DEF d, ResetIn


(***************************************************************************)
(* The search of one field                                                  *)
(***************************************************************************)
Less == OpToRel(<, Nat)

(* Min is the least member. *)
LEMMA MinIsFirst ==
  ASSUME NEW S \in SUBSET Nat, S # {}
  PROVE  Min(S) \in S /\ \A n \in S : Min(S) <= n
<1>1. IsWellFoundedOn(Less, Nat)
  BY Zenon, NatLessThanWellFounded DEF Less
<1>2. PICK x \in S : \A y \in S : ~(<<y, x>> \in Less)
  BY Zenon, <1>1, WFMin
<1>3. \A y, z \in Nat : y < z => <<y, z>> \in Less
  BY DEF Less, OpToRel
<1>4. \A y \in S : ~(y < x)
  BY Zenon, <1>2, <1>3
<1>5. \A y \in S : x <= y
  BY SMT, <1>4
<1>6. QED
  BY Zenon, <1>5 DEF Min

(* v is the first number of S from a on and V is U, or there is none, v is the *)
(* first of all and V is one more.                                             *)
Carry(S, a, U, v, V) ==
  /\ v \in S
  /\ \/ V = U /\ v >= a /\ \A b \in S : b >= a => v <= b
     \/ V = U + 1 /\ (\A b \in S : b < a) /\ \A b \in S : v <= b

Digits(S, B) == S \in SUBSET (0 .. (B - 1)) /\ S # {}

(* V and v are after U and a, and before the other numbers of S that are. *)
Follows(B, S, U, a, V, v) ==
  /\ B * U + a < B * V + v
  /\ \A W \in Int, b \in S : B * U + a <= B * W + b => B * V + v <= B * W + b

(* A value found from a on, or the first of the next turn, is the next one of S. *)
LEMMA CarryOrder ==
  ASSUME NEW B \in {24, 60}, NEW S, Digits(S, B), NEW a \in 0 .. (B - 1), NEW v,
         NEW U \in Int, NEW V \in Int, Carry(S, a, U, v, V), v # a
  PROVE  Follows(B, S, U, a, V, v)
<1>1. CASE B = 60
  BY SMT, <1>1 DEF Digits, Carry, Follows
<1>2. CASE B = 24
  BY SMT, <1>2 DEF Digits, Carry, Follows
<1>3. QED
  BY SMT, <1>1, <1>2

(* next_set_bit finds that value, or tells that it is in the next turn. *)
LEMMA NextBit ==
  ASSUME NEW B \in {24, 60}, NEW S, Digits(S, B), NEW a \in 0 .. (B - 1), NEW U \in Int
  PROVE  LET f == next_set_bit(S, a)
         IN /\ f # None => Carry(S, a, U, f, U)
            /\ f = None => Carry(S, a, U, Min(S), U + 1) /\ Min(S) # a
<1> DEFINE A == {b \in S : b >= a}
           f == next_set_bit(S, a)
<1>1. S \in SUBSET Nat /\ A \in SUBSET Nat
  <2>1. \A b \in 0 .. (B - 1) : b \in Nat
    BY SMT
  <2>2. QED
    BY Zenon, <2>1 DEF Digits
<1>2. CASE A = {}
  <2>1. f = None /\ \A b \in S : b < a
    BY SMT, <1>1, <1>2 DEF next_set_bit
  <2>2. Min(S) \in S /\ \A b \in S : Min(S) <= b
    BY Zenon, <1>1, MinIsFirst DEF Digits
  <2>3. Min(S) < a
    BY Zenon, <2>1, <2>2
  <2>4. Min(S) # a
    BY SMT, <1>1, <2>2, <2>3
  <2>5. QED
    BY Zenon, <2>1, <2>2, <2>4 DEF Carry
<1>3. CASE A # {}
  <2>1. f = Min(A)
    BY Zenon, <1>3 DEF next_set_bit
  <2>2. Min(A) \in A /\ \A b \in A : Min(A) <= b
    BY Zenon, <1>1, <1>3, MinIsFirst
  <2>3. f \in S /\ f >= a /\ \A b \in S : b >= a => f <= b
    BY Zenon, <2>1, <2>2
  <2>4. f # None
    BY SMT, <1>1, <2>3 DEF None
  <2>5. QED
    BY Zenon, <2>3, <2>4 DEF Carry
<1>4. QED
  BY Zenon, <1>2, <1>3

(* The order of the fields, and the field each carries into *)
LEMMA FieldNames ==
  /\ Fields[1].f = "sec"  /\ Fields[1].carry = "min"
  /\ Fields[2].f = "min"  /\ Fields[2].carry = "hour"
  /\ Fields[3].f = "hour" /\ Fields[3].carry = "mday"
  /\ Fields[4].f = "mday"
  /\ Fields[5].f = "mon"  /\ Fields[5].carry = "year"
BY SMT DEF Fields

(* With no field to reset nothing is. *)
LEMMA ResetNone ==
  ASSUME NEW c
  PROVE  reset_all_min(c, {}) = c
BY Zenon DEF reset_all_min, Zeroed

(* A value found is kept or is another; one not found is another. *)
LEMMA FoundOrNot ==
  ASSUME NEW B \in {24, 60}, NEW S, Digits(S, B), NEW a \in 0 .. (B - 1)
  PROVE  LET f == next_set_bit(S, a)
             v == IF f # None THEN f ELSE Min(S)
         IN v \in S /\ v \in 0 .. (B - 1) /\ (v = a => f # None)
<1> DEFINE f == next_set_bit(S, a)
           v == IF f # None THEN f ELSE Min(S)
<1>1. PICK u : u \in Int
  BY SMT
<1>2. CASE B = 24
  <2>1. 24 \in {24, 60} /\ Digits(S, 24) /\ a \in 0 .. (24 - 1)
    BY SMT, <1>2
  <2>2. /\ f # None => Carry(S, a, u, f, u)
        /\ f = None => Carry(S, a, u, Min(S), u + 1) /\ Min(S) # a
    BY ZenonT(60), <1>1, <2>1, NextBit
  <2>3. QED
    BY Zenon, <2>2 DEF Carry, Digits
<1>3. CASE B = 60
  <2>1. 60 \in {24, 60} /\ Digits(S, 60) /\ a \in 0 .. (60 - 1)
    BY SMT, <1>3
  <2>2. /\ f # None => Carry(S, a, u, f, u)
        /\ f = None => Carry(S, a, u, Min(S), u + 1) /\ Min(S) # a
    BY Zenon, <1>1, <2>1, NextBit
  <2>3. QED
    BY Zenon, <2>2 DEF Carry, Digits
<1>4. QED
  BY Zenon, <1>2, <1>3

(* find_next of the seconds: an allowed second is kept, or there is one after. *)
LEMMA SecAny ==
  ASSUME NEW c \in Calendar, NEW S, Digits(S, 60)
  PROVE  LET r == find_next(S, 1, c, {})
         IN /\ r.value = c.sec => r.cal = c /\ c.sec \in S
            /\ r.value # c.sec => r.cal \in Calendar /\ r.cal.sec \in S
<1> DEFINE f == next_set_bit(S, c["sec"])
           n == add_to_field(c, "min", 1)
           b == reset_min(n, "sec")
           g == IF f # None THEN c ELSE b
           v == IF f # None THEN f ELSE Min(S)
           w == set_field(g, "sec", v)
           d == reset_all_min(w, {})
           r == find_next(S, 1, c, {})
<1>1. r.value = v /\ r.cal = (IF v = c["sec"] THEN g ELSE d)
  BY SMT, FieldNames DEF find_next, MovedUp
<1>2. v \in S /\ v \in 0 .. 59 /\ v \in Int /\ (v = c["sec"] => f # None)
  <2>1. c["sec"] \in 0 .. (60 - 1) /\ 60 \in {24, 60} /\ 60 - 1 = 59
    BY SMT, CalendarFields
  <2>2. v \in S /\ v \in 0 .. (60 - 1) /\ (v = c["sec"] => f # None)
    BY ZenonT(60), <2>1, FoundOrNot
  <2> HIDE DEF v
  <2>3. QED
    BY SMT, <2>2
<1>3. b \in Calendar
  <2>1. n \in Calendar
    BY SMT, FieldAdded
  <2>2. b = set_field(n, "sec", 0)
    BY SMT DEF reset_min, Lowest
  <2>3. 0 \in Int /\ 0 \in -1 .. 60
    BY SMT
  <2> HIDE DEF n, b
  <2>4. QED
    BY Zenon, <2>1, <2>2, <2>3, FieldSet
<1>4. g \in Calendar
  BY Zenon, <1>3
<1>5. w \in Calendar /\ w.sec = v
  <2> HIDE DEF v, g
  <2>1. v \in -1 .. 60
    BY SMT, <1>2
  <2>2. QED
    BY ZenonT(60), <1>2, <1>4, <2>1, FieldSet
<1>6. d = w
  <2> HIDE DEF w
  <2>1. QED
    BY Zenon, ResetNone
<1>7. r.value = c.sec => r.cal = c /\ c.sec \in S
  BY Zenon, <1>1, <1>2
<1> HIDE DEF r, v, g, w, d
<1>8. r.value # c.sec => r.cal \in Calendar /\ r.cal.sec \in S
  BY Zenon, <1>1, <1>2, <1>5, <1>6
<1>9. QED
  BY Zenon, <1>7, <1>8 DEF r

(* find_next of the minutes *)
LEMMA MinAny ==
  ASSUME NEW c \in Calendar, NEW S, Digits(S, 60), NEW resets
  PROVE  LET r == find_next(S, 2, c, resets)
         IN /\ r.value = c.min => r.cal = c /\ c.min \in S
            /\ r.value # c.min => r.cal \in Calendar
<1> DEFINE f == next_set_bit(S, c["min"])
           n == add_to_field(c, "hour", 1)
           b == reset_min(n, "min")
           g == IF f # None THEN c ELSE b
           v == IF f # None THEN f ELSE Min(S)
           w == set_field(g, "min", v)
           d == reset_all_min(w, resets)
           r == find_next(S, 2, c, resets)
<1>1. r.value = v /\ r.cal = (IF v = c["min"] THEN g ELSE d)
  BY SMT, FieldNames DEF find_next, MovedUp
<1>2. v \in S /\ v \in 0 .. 59 /\ v \in Int /\ (v = c["min"] => f # None)
  <2>1. c["min"] \in 0 .. (60 - 1) /\ 60 \in {24, 60} /\ 60 - 1 = 59
    BY SMT, CalendarFields
  <2>2. v \in S /\ v \in 0 .. (60 - 1) /\ (v = c["min"] => f # None)
    BY ZenonT(60), <2>1, FoundOrNot
  <2> HIDE DEF v
  <2>3. QED
    BY SMT, <2>2
<1>3. b \in Calendar
  <2>1. n \in Calendar
    BY SMT, FieldAdded
  <2>2. b = set_field(n, "min", 0)
    BY SMT DEF reset_min, Lowest
  <2>3. 0 \in Int /\ 0 \in -1 .. 60
    BY SMT
  <2> HIDE DEF n, b
  <2>4. QED
    BY Zenon, <2>1, <2>2, <2>3, FieldSet
<1>4. g \in Calendar
  BY Zenon, <1>3
<1>5. w \in Calendar
  <2> HIDE DEF v, g
  <2>1. v \in -1 .. 60
    BY SMT, <1>2
  <2>2. QED
    BY ZenonT(60), <1>2, <1>4, <2>1, FieldSet
<1>6. d \in Calendar
  BY Zenon, <1>5, ResetAll
<1>7. r.value = c.min => r.cal = c /\ c.min \in S
  BY Zenon, <1>1, <1>2
<1> HIDE DEF r, v, g, w, d
<1>8. r.value # c.min => r.cal \in Calendar
  BY Zenon, <1>1, <1>2, <1>6
<1>9. QED
  BY Zenon, <1>7, <1>8 DEF r

(* find_next of the hours *)
LEMMA HourAny ==
  ASSUME NEW c \in Calendar, NEW S, Digits(S, 24), NEW resets
  PROVE  LET r == find_next(S, 3, c, resets)
         IN /\ r.value = c.hour => r.cal = c /\ c.hour \in S
            /\ r.value # c.hour => r.cal \in Calendar
<1> DEFINE f == next_set_bit(S, c["hour"])
           n == add_to_field(c, "mday", 1)
           b == reset_min(n, "hour")
           g == IF f # None THEN c ELSE b
           v == IF f # None THEN f ELSE Min(S)
           w == set_field(g, "hour", v)
           d == reset_all_min(w, resets)
           r == find_next(S, 3, c, resets)
<1>1. r.value = v /\ r.cal = (IF v = c["hour"] THEN g ELSE d)
  BY SMT, FieldNames DEF find_next, MovedUp
<1>2. v \in S /\ v \in 0 .. 23 /\ v \in Int /\ (v = c["hour"] => f # None)
  <2>1. c["hour"] \in 0 .. (24 - 1) /\ 24 \in {24, 60} /\ 24 - 1 = 23
    BY SMT, CalendarFields
  <2>2. v \in S /\ v \in 0 .. (24 - 1) /\ (v = c["hour"] => f # None)
    BY Zenon, <2>1, FoundOrNot
  <2> HIDE DEF v
  <2>3. QED
    BY SMT, <2>2
<1>3. b \in Calendar
  <2>1. n \in Calendar
    BY Zenon, DayMoved DEF Settled
  <2>2. b = set_field(n, "hour", 0)
    BY SMT DEF reset_min, Lowest
  <2>3. 0 \in Int /\ 0 \in -1 .. 24
    BY SMT
  <2> HIDE DEF n, b
  <2>4. QED
    BY Zenon, <2>1, <2>2, <2>3, FieldSet
<1>4. g \in Calendar
  BY Zenon, <1>3
<1>5. w \in Calendar
  <2> HIDE DEF v, g
  <2>1. v \in -1 .. 24
    BY SMT, <1>2
  <2>2. QED
    BY ZenonT(60), <1>2, <1>4, <2>1, FieldSet
<1>6. d \in Calendar
  BY Zenon, <1>5, ResetAll
<1>7. r.value = c.hour => r.cal = c /\ c.hour \in S
  BY Zenon, <1>1, <1>2
<1> HIDE DEF r, v, g, w, d
<1>8. r.value # c.hour => r.cal \in Calendar
  BY Zenon, <1>1, <1>2, <1>6
<1>9. QED
  BY Zenon, <1>7, <1>8 DEF r

(* find_next of the months, of which all may be allowed *)
LEMMA MonAny ==
  ASSUME NEW c \in Calendar, NEW S \in SUBSET (0 .. 11), S # {}, NEW resets
  PROVE  LET r == find_next(S, 5, c, resets)
         IN /\ r.value = c.mon => r.cal = c /\ c.mon \in S
            /\ r.value # c.mon => r.cal \in Calendar
            /\ S = 0 .. 11 => r.value = c.mon
<1> DEFINE f == next_set_bit(S, c["mon"])
           n == add_to_field(c, "year", 1)
           b == reset_min(n, "mon")
           g == IF f # None THEN c ELSE b
           v == IF f # None THEN f ELSE Min(S)
           w == set_field(g, "mon", v)
           d == reset_all_min(w, resets)
           r == find_next(S, 5, c, resets)
<1>1. r.value = v /\ r.cal = (IF v = c["mon"] THEN g ELSE d)
  BY SMT, FieldNames DEF find_next, MovedUp
<1>2. c["mon"] \in 0 .. 11 /\ c["mon"] \in 0 .. (24 - 1) /\ 24 \in {24, 60} /\ Digits(S, 24)
  <2>1. \A k \in 0 .. 11 : k \in 0 .. (24 - 1)
    BY SMT
  <2>2. c["mon"] \in 0 .. 11 /\ 24 \in {24, 60}
    BY SMT, CalendarFields
  <2>3. QED
    BY Zenon, <2>1, <2>2 DEF Digits
<1>3. v \in S /\ (v = c["mon"] => f # None)
  BY Zenon, <1>2, FoundOrNot
<1>4. v \in 0 .. 11 /\ v \in Int
  <2> HIDE DEF v
  <2>1. v \in 0 .. 11
    BY Zenon, <1>3
  <2>2. QED
    BY SMT, <2>1
<1>5. b \in Calendar
  <2>1. n \in Calendar
    BY SMT, FieldAdded
  <2>2. b = set_field(n, "mon", 0)
    BY SMT DEF reset_min, Lowest
  <2>3. 0 \in Int /\ 0 \in 0 .. 11
    BY SMT
  <2> HIDE DEF n, b
  <2>4. QED
    BY Zenon, <2>1, <2>2, <2>3, FieldSet
<1>6. g \in Calendar
  BY Zenon, <1>5
<1>7. w \in Calendar
  <2> HIDE DEF v, g
  <2>1. QED
    BY ZenonT(60), <1>4, <1>6, FieldSet
<1>8. d \in Calendar
  BY Zenon, <1>7, ResetAll
<1>9. S = 0 .. 11 => v = c["mon"]
  <2>1. ASSUME S = 0 .. 11 PROVE f = c["mon"]
    <3> DEFINE A == {k \in S : k >= c["mon"]}
    <3>1. c["mon"] \in A /\ A \in SUBSET Nat /\ \A k \in A : k >= c["mon"]
      BY SMT, <1>2, <2>1
    <3>2. Min(A) \in A /\ \A k \in A : Min(A) <= k
      BY Zenon, <3>1, MinIsFirst
    <3>3. f = Min(A)
      BY Zenon, <3>1 DEF next_set_bit
    <3>4. f >= c["mon"] /\ f <= c["mon"] /\ f \in Nat
      BY Zenon, <3>1, <3>2, <3>3
    <3> HIDE DEF f
    <3>5. QED
      BY SMT, <1>2, <3>4
  <2>2. c["mon"] # None
    BY SMT, <1>2 DEF None
  <2>3. QED
    BY Zenon, <2>1, <2>2
<1>10. r.value = c.mon => r.cal = c /\ c.mon \in S
  BY Zenon, <1>1, <1>3
<1> HIDE DEF r, v, g, w, d
<1>11. /\ r.value # c.mon => r.cal \in Calendar
       /\ S = 0 .. 11 => r.value = c.mon
  BY Zenon, <1>1, <1>8, <1>9
<1>12. QED
  BY Zenon, <1>10, <1>11 DEF r


(* In a time without a change of the clock a second that moves is the next one allowed. *)
LEMMA SecSteady ==
  ASSUME NEW a, NEW x, Calm(a, x), NEW c, Steady(a, x, c), DayNumber(c) <= DayNumber(x),
         NEW S, Digits(S, 60)
  PROVE  LET r == find_next(S, 1, c, {})
             d == r.cal
         IN r.value # c.sec =>
              /\ Steady(a, x, d) /\ d.sec # c.sec
              /\ Carry(S, c.sec, MinuteNo(c), d.sec, MinuteNo(d))
<1> DEFINE f == next_set_bit(S, c["sec"])
           n == add_to_field(c, "min", 1)
           b == reset_min(n, "sec")
           g == IF f # None THEN c ELSE b
           v == IF f # None THEN f ELSE Min(S)
           w == set_field(g, "sec", v)
           d == reset_all_min(w, {})
           r == find_next(S, 1, c, {})
<1>1. r.value = v /\ r.cal = (IF v = c["sec"] THEN g ELSE d)
  BY SMT, FieldNames DEF find_next, MovedUp
<1>2. c \in Calendar /\ c["sec"] \in 0 .. (60 - 1) /\ MinuteNo(c) \in Int
  <2>1. c \in Calendar
    BY Zenon DEF Steady
  <2>2. c["sec"] \in 0 .. (60 - 1)
    BY SMT, <2>1, CalendarFields
  <2>3. QED
    BY Zenon, <2>1, <2>2, Units
<1>3. Steady(a, x, n) /\ MinuteNo(n) = MinuteNo(c) + 1
  <2>1. Steady(a, x, n) /\ Stamp(n) = Stamp(c) + (1 * 60)
    BY Zenon, SteadyAdded
  <2>2. n \in Calendar
    BY Zenon, <2>1 DEF Steady
  <2> HIDE DEF n
  <2>3. QED
    BY Zenon, <1>2, <2>1, <2>2, Shifted
<1>4. Steady(a, x, b) /\ MinuteNo(b) = MinuteNo(n)
  <2>1. b = set_field(n, "sec", 0) /\ 0 \in 0 .. 59
    BY SMT DEF reset_min, Lowest
  <2> HIDE DEF n, b
  <2>2. Steady(a, x, set_field(n, "sec", 0)) /\ Written(n, set_field(n, "sec", 0), n.hour, n.min, 0)
    BY SMT, <1>3, <2>1, SteadySec
  <2>3. Steady(a, x, b) /\ b.year = n.year /\ b.mon = n.mon /\ b.mday = n.mday /\ b.hour = n.hour /\ b.min = n.min
    BY Zenon, <2>1, <2>2 DEF Written
  <2>4. b \in Raw /\ n \in Raw
    BY Zenon, <1>3, <2>3, CalendarFields DEF Steady
  <2>5. QED
    BY Zenon, <2>3, <2>4, SameUnits
<1>5. PICK u \in Int : u = MinuteNo(c)
  BY Zenon, <1>2
<1>6. /\ f # None => Carry(S, c["sec"], u, f, u)
      /\ f = None => Carry(S, c["sec"], u, Min(S), u + 1)
  <2>1. 60 \in {24, 60}
    BY SMT
  <2>2. QED
    BY ZenonT(60), <1>2, <1>5, <2>1, NextBit
<1>7. Steady(a, x, g) /\ Carry(S, c["sec"], MinuteNo(c), v, MinuteNo(g))
  <2> HIDE DEF n, b, f
  <2>1. QED
    BY Zenon, <1>3, <1>4, <1>5, <1>6
<1>8. v \in 0 .. 59
  <2>1. v \in 0 .. (60 - 1)
    BY Zenon, <1>6 DEF Carry, Digits
  <2> HIDE DEF v
  <2>2. QED
    BY SMT, <2>1
<1> HIDE DEF g, v
<1>9. /\ Steady(a, x, w) /\ w.year = g.year /\ w.mon = g.mon /\ w.mday = g.mday /\ w.sec = v /\ w.hour = g.hour /\ w.min = g.min
  <2>1. Steady(a, x, g)
    BY Zenon, <1>7
  <2>2. Steady(a, x, w) /\ Written(g, w, g.hour, g.min, v)
    BY Zenon, <1>8, <2>1, SteadySec
  <2>3. QED
    BY Zenon, <2>2 DEF Written
<1> HIDE DEF w
<1>10. Steady(a, x, d) /\ MinuteNo(d) = MinuteNo(g) /\ d.sec = v
  <2>1. d = w
    BY Zenon, ResetNone
  <2>2. w \in Raw /\ g \in Raw
    BY Zenon, <1>7, <1>9, CalendarFields DEF Steady
  <2> HIDE DEF d
  <2>3. QED
    BY Zenon, <1>9, <2>1, <2>2, SameUnits
<1> HIDE DEF r, d
<1>11. r.value # c.sec =>
         /\ Steady(a, x, r.cal) /\ r.cal.sec # c.sec
         /\ Carry(S, c.sec, MinuteNo(c), r.cal.sec, MinuteNo(r.cal))
  <2>1. r.value # c.sec => r.cal = d /\ v # c.sec
    BY Zenon, <1>1
  <2>2. QED
    BY Zenon, <1>7, <1>10, <2>1
<1>12. QED
  BY Zenon, <1>11 DEF r

(* ... a minute too, and the seconds are reset or kept, *)
MinMoved(a, x, S, resets, c, r) ==
  r.value # c.min =>
    /\ Steady(a, x, r.cal) /\ r.cal.min # c.min
    /\ Carry(S, c.min, HourNo(c), r.cal.min, HourNo(r.cal))
    /\ ("sec" \in resets => r.cal.sec = 0) /\ ("sec" \notin resets => r.cal.sec = c.sec)

LEMMA MinSteady ==
  ASSUME NEW a, NEW x, Calm(a, x), NEW c, Steady(a, x, c), DayNumber(c) <= DayNumber(x),
         NEW S, Digits(S, 60), NEW resets \in SUBSET {"sec"}
  PROVE  MinMoved(a, x, S, resets, c, find_next(S, 2, c, resets))
<1> DEFINE f == next_set_bit(S, c["min"])
           n == add_to_field(c, "hour", 1)
           b == reset_min(n, "min")
           g == IF f # None THEN c ELSE b
           v == IF f # None THEN f ELSE Min(S)
           w == set_field(g, "min", v)
           d == reset_all_min(w, resets)
           r == find_next(S, 2, c, resets)
<1>1. r.value = v /\ r.cal = (IF v = c["min"] THEN g ELSE d)
  BY SMT, FieldNames DEF find_next, MovedUp
<1>2. c \in Calendar /\ c["min"] \in 0 .. (60 - 1) /\ HourNo(c) \in Int
  <2>1. c \in Calendar
    BY Zenon DEF Steady
  <2>2. c["min"] \in 0 .. (60 - 1)
    BY SMT, <2>1, CalendarFields
  <2>3. QED
    BY Zenon, <2>1, <2>2, Units
<1>3. Steady(a, x, n) /\ HourNo(n) = HourNo(c) + 1 /\ n.sec = c.sec
  <2>1. Steady(a, x, n) /\ Stamp(n) = Stamp(c) + (1 * HourSeconds)
    BY Zenon, SteadyAdded
  <2>2. n \in Calendar
    BY Zenon, <2>1 DEF Steady
  <2> HIDE DEF n
  <2>3. QED
    BY Zenon, <1>2, <2>1, <2>2, Shifted
<1>4. Steady(a, x, b) /\ HourNo(b) = HourNo(n) /\ b.sec = n.sec
  <2>1. b = set_field(n, "min", 0) /\ 0 \in 0 .. 59
    BY SMT DEF reset_min, Lowest
  <2> HIDE DEF n, b
  <2>2. Steady(a, x, set_field(n, "min", 0)) /\ Written(n, set_field(n, "min", 0), n.hour, 0, n.sec)
    BY SMT, <1>3, <2>1, SteadyMin
  <2>3. Steady(a, x, b) /\ b.year = n.year /\ b.mon = n.mon /\ b.mday = n.mday /\ b.hour = n.hour /\ b.sec = n.sec
    BY Zenon, <2>1, <2>2 DEF Written
  <2>4. b \in Raw /\ n \in Raw
    BY Zenon, <1>3, <2>3, CalendarFields DEF Steady
  <2>5. QED
    BY Zenon, <2>3, <2>4, SameUnits
<1>5. PICK u \in Int : u = HourNo(c)
  BY Zenon, <1>2
<1>6. /\ f # None => Carry(S, c["min"], u, f, u)
      /\ f = None => Carry(S, c["min"], u, Min(S), u + 1)
  <2>1. 60 \in {24, 60}
    BY SMT
  <2>2. QED
    BY ZenonT(60), <1>2, <1>5, <2>1, NextBit
<1>7. Steady(a, x, g) /\ g.sec = c.sec /\ Carry(S, c["min"], HourNo(c), v, HourNo(g))
  <2> HIDE DEF n, b, f
  <2>1. QED
    BY Zenon, <1>3, <1>4, <1>5, <1>6
<1>8. v \in 0 .. 59
  <2>1. v \in 0 .. (60 - 1)
    BY Zenon, <1>6 DEF Carry, Digits
  <2> HIDE DEF v
  <2>2. QED
    BY SMT, <2>1
<1> HIDE DEF g, v
<1>9. /\ Steady(a, x, w) /\ w.year = g.year /\ w.mon = g.mon /\ w.mday = g.mday /\ w.min = v /\ w.hour = g.hour /\ w.sec = g.sec
  <2>1. Steady(a, x, g)
    BY Zenon, <1>7
  <2>2. Steady(a, x, w) /\ Written(g, w, g.hour, v, g.sec)
    BY Zenon, <1>8, <2>1, SteadyMin
  <2>3. QED
    BY Zenon, <2>2 DEF Written
<1> HIDE DEF w
<1>10. Steady(a, x, d) /\ HourNo(d) = HourNo(g) /\ d.min = v
       /\ ("sec" \in resets => d.sec = 0) /\ ("sec" \notin resets => d.sec = c.sec)
  <2>1. resets \in SUBSET {"sec", "min", "hour"} /\ "hour" \notin resets /\ "min" \notin resets
    BY SMT
  <2>2. Steady(a, x, d) /\ ResetIn(w, d, resets)
    BY Zenon, <1>9, <2>1, SteadyReset
  <2>3. d \in Raw /\ g \in Raw
    BY Zenon, <1>7, <2>2, CalendarFields DEF Steady
  <2>6. /\ Steady(a, x, d) /\ d.year = w.year /\ d.mon = w.mon /\ d.mday = w.mday /\ d.hour = w.hour /\ d.min = w.min
        /\ ("sec" \in resets => d.sec = 0) /\ ("sec" \notin resets => d.sec = w.sec)
    BY Zenon, <2>1, <2>2 DEF ResetIn
  <2> HIDE DEF d
  <2>4. HourNo(d) = HourNo(g)
    BY Zenon, <1>9, <2>6, <2>3, SameUnits
  <2>5. QED
    BY Zenon, <1>7, <1>9, <2>6, <2>4
<1> HIDE DEF r, d
<1>11. r.value # c.min =>
         /\ Steady(a, x, r.cal) /\ r.cal.min # c.min
         /\ Carry(S, c.min, HourNo(c), r.cal.min, HourNo(r.cal))
         /\ ("sec" \in resets => r.cal.sec = 0) /\ ("sec" \notin resets => r.cal.sec = c.sec)
  <2>1. r.value # c.min => r.cal = d /\ v # c.min
    BY Zenon, <1>1
  <2>2. QED
    BY Zenon, <1>7, <1>10, <2>1
<1>12. MinMoved(a, x, S, resets, c, r)
  BY Zenon, <1>11 DEF MinMoved
<1>13. QED
  BY Zenon, <1>12 DEF r

(* ... and so is an hour. *)
HourMovedOn(a, x, S, resets, c, r) ==
  r.value # c.hour =>
    /\ Steady(a, x, r.cal) /\ r.cal.hour # c.hour
    /\ Carry(S, c.hour, DayNumber(c), r.cal.hour, DayNumber(r.cal))
    /\ ("sec" \in resets => r.cal.sec = 0) /\ ("sec" \notin resets => r.cal.sec = c.sec)
    /\ ("min" \in resets => r.cal.min = 0) /\ ("min" \notin resets => r.cal.min = c.min)

LEMMA HourSteady ==
  ASSUME NEW a, NEW x, Calm(a, x), NEW c, Steady(a, x, c), DayNumber(c) <= DayNumber(x),
         NEW S, Digits(S, 24), NEW resets \in SUBSET {"sec", "min"}
  PROVE  HourMovedOn(a, x, S, resets, c, find_next(S, 3, c, resets))
<1> DEFINE f == next_set_bit(S, c["hour"])
           n == add_to_field(c, "mday", 1)
           b == reset_min(n, "hour")
           g == IF f # None THEN c ELSE b
           v == IF f # None THEN f ELSE Min(S)
           w == set_field(g, "hour", v)
           d == reset_all_min(w, resets)
           r == find_next(S, 3, c, resets)
<1>1. r.value = v /\ r.cal = (IF v = c["hour"] THEN g ELSE d)
  BY SMT, FieldNames DEF find_next, MovedUp
<1>2. c \in Calendar /\ c["hour"] \in 0 .. (24 - 1) /\ DayNumber(c) \in Int
  <2>1. c \in Calendar
    BY Zenon DEF Steady
  <2>2. c["hour"] \in 0 .. (24 - 1)
    BY SMT, <2>1, CalendarFields
  <2>3. QED
    BY Zenon, <2>1, <2>2, Units
<1>3. Steady(a, x, n) /\ DayNumber(n) = DayNumber(c) + 1 /\ n.sec = c.sec /\ n.min = c.min
  BY Zenon, SteadyNextDay
<1>4. Steady(a, x, b) /\ DayNumber(b) = DayNumber(n) /\ b.sec = n.sec /\ b.min = n.min
  <2>1. b = set_field(n, "hour", 0) /\ 0 \in 0 .. 23
    BY SMT DEF reset_min, Lowest
  <2> HIDE DEF n, b
  <2>2. Steady(a, x, set_field(n, "hour", 0)) /\ Written(n, set_field(n, "hour", 0), 0, n.min, n.sec)
    BY SMT, <1>3, <2>1, SteadyHour
  <2>3. Steady(a, x, b) /\ b.year = n.year /\ b.mon = n.mon /\ b.mday = n.mday /\ b.sec = n.sec /\ b.min = n.min
    BY Zenon, <2>1, <2>2 DEF Written
  <2>4. b \in Raw /\ n \in Raw
    BY Zenon, <1>3, <2>3, CalendarFields DEF Steady
  <2>5. QED
    BY Zenon, <2>3, <2>4, SameUnits
<1>5. PICK u \in Int : u = DayNumber(c)
  BY Zenon, <1>2
<1>6. /\ f # None => Carry(S, c["hour"], u, f, u)
      /\ f = None => Carry(S, c["hour"], u, Min(S), u + 1)
  <2>1. 24 \in {24, 60}
    BY SMT
  <2>2. QED
    BY ZenonT(60), <1>2, <1>5, <2>1, NextBit
<1>7. Steady(a, x, g) /\ g.sec = c.sec /\ g.min = c.min /\ Carry(S, c["hour"], DayNumber(c), v, DayNumber(g))
  <2> HIDE DEF n, b, f
  <2>1. QED
    BY Zenon, <1>3, <1>4, <1>5, <1>6
<1>8. v \in 0 .. 23
  <2>1. v \in 0 .. (24 - 1)
    BY Zenon, <1>6 DEF Carry, Digits
  <2> HIDE DEF v
  <2>2. QED
    BY SMT, <2>1
<1> HIDE DEF g, v
<1>9. /\ Steady(a, x, w) /\ w.year = g.year /\ w.mon = g.mon /\ w.mday = g.mday /\ w.hour = v /\ w.sec = g.sec /\ w.min = g.min
  <2>1. Steady(a, x, g)
    BY Zenon, <1>7
  <2>2. Steady(a, x, w) /\ Written(g, w, v, g.min, g.sec)
    BY Zenon, <1>8, <2>1, SteadyHour
  <2>3. QED
    BY Zenon, <2>2 DEF Written
<1> HIDE DEF w
<1>10. Steady(a, x, d) /\ DayNumber(d) = DayNumber(g) /\ d.hour = v
       /\ ("sec" \in resets => d.sec = 0) /\ ("sec" \notin resets => d.sec = c.sec)
       /\ ("min" \in resets => d.min = 0) /\ ("min" \notin resets => d.min = c.min)
  <2>1. resets \in SUBSET {"sec", "min", "hour"} /\ "hour" \notin resets
    BY SMT
  <2>2. Steady(a, x, d) /\ ResetIn(w, d, resets)
    BY Zenon, <1>9, <2>1, SteadyReset
  <2>3. d \in Raw /\ g \in Raw
    BY Zenon, <1>7, <2>2, CalendarFields DEF Steady
  <2>6. /\ Steady(a, x, d) /\ d.year = w.year /\ d.mon = w.mon /\ d.mday = w.mday /\ d.hour = w.hour
        /\ ("sec" \in resets => d.sec = 0) /\ ("sec" \notin resets => d.sec = w.sec)
        /\ ("min" \in resets => d.min = 0) /\ ("min" \notin resets => d.min = w.min)
    BY Zenon, <2>1, <2>2 DEF ResetIn
  <2> HIDE DEF d
  <2>4. DayNumber(d) = DayNumber(g)
    BY Zenon, <1>9, <2>6, <2>3, SameUnits
  <2>5. QED
    BY Zenon, <1>7, <1>9, <2>6, <2>4
<1> HIDE DEF r, d
<1>11. r.value # c.hour =>
         /\ Steady(a, x, r.cal) /\ r.cal.hour # c.hour
         /\ Carry(S, c.hour, DayNumber(c), r.cal.hour, DayNumber(r.cal))
         /\ ("sec" \in resets => r.cal.sec = 0) /\ ("sec" \notin resets => r.cal.sec = c.sec)
         /\ ("min" \in resets => r.cal.min = 0) /\ ("min" \notin resets => r.cal.min = c.min)
  <2>1. r.value # c.hour => r.cal = d /\ v # c.hour
    BY Zenon, <1>1
  <2>2. QED
    BY Zenon, <1>7, <1>10, <2>1
<1>12. HourMovedOn(a, x, S, resets, c, r)
  BY Zenon, <1>11 DEF HourMovedOn
<1>13. QED
  BY Zenon, <1>12 DEF r


(***************************************************************************)
(* Recursion over the numbers                                               *)
(***************************************************************************)

(* The numbers are reached from 0. *)
LEMMA Counting ==
  ASSUME NEW T \in SUBSET Nat, 0 \in T, \A n \in T : n + 1 \in T
  PROVE  T = Nat
<1>1. SUFFICES ASSUME Nat \ T # {} PROVE FALSE
  BY Zenon, <1>1
<1>2. PICK m \in Nat \ T : \A x \in Nat \ T : ~(x < m)
  <2>1. IsWellFoundedOn(Less, Nat)
    BY Zenon, NatLessThanWellFounded DEF Less
  <2>2. Nat \ T \in SUBSET Nat
    BY Zenon
  <2>3. PICK m \in Nat \ T : \A x \in Nat \ T : ~(<<x, m>> \in Less)
    BY Zenon, <1>1, <2>1, <2>2, WFMin
  <2>4. \A x \in Nat, y \in Nat : x < y => <<x, y>> \in Less
    BY Zenon DEF Less, OpToRel
  <2>5. QED
    BY Zenon, <2>3, <2>4
<1>3. m # 0 /\ m \in Nat
  BY Zenon, <1>2
<1>4. m - 1 \in Nat /\ m - 1 < m /\ (m - 1) + 1 = m
  BY SMT, <1>3
<1>5. m - 1 \in T
  BY Zenon, <1>2, <1>4
<1>6. m \in T
  BY Zenon, <1>4, <1>5
<1>7. QED
  BY Zenon, <1>2, <1>6

(* The first n + 1 answers of a recursion that starts from base and steps by F *)
Chain(S, base, F, n) ==
  {f \in [0 .. n -> S] : /\ f[0] = base
                         /\ \A i \in 0 .. n : i + 1 \in 0 .. n => f[i + 1] = F[f[i]]}

(* Two chains agree as far as both go. *)
LEMMA ChainsAgree ==
  ASSUME NEW S, NEW base, NEW F, NEW m \in Nat, NEW n \in Nat,
         NEW f \in Chain(S, base, F, m), NEW g \in Chain(S, base, F, n)
  PROVE  \A i \in Nat : i <= m /\ i <= n => f[i] = g[i]
<1> DEFINE T == {i \in Nat : i <= m /\ i <= n => f[i] = g[i]}
<1>1. 0 \in T
  BY SMT DEF Chain
<1>2. ASSUME NEW i \in T PROVE i + 1 \in T
  <2>1. i \in Nat /\ (i <= m /\ i <= n => f[i] = g[i])
    BY Zenon
  <2>2. ASSUME i + 1 <= m, i + 1 <= n PROVE f[i + 1] = g[i + 1]
    <3>1. f[i] = g[i] /\ i \in 0 .. m /\ i \in 0 .. n /\ i + 1 \in 0 .. m /\ i + 1 \in 0 .. n
      BY SMT, <2>1, <2>2
    <3>2. f[i + 1] = F[f[i]] /\ g[i + 1] = F[g[i]]
      BY Zenon, <3>1 DEF Chain
    <3>3. QED
      BY Zenon, <3>1, <3>2
  <2>3. i + 1 \in Nat
    BY SMT, <2>1
  <2>4. QED
    BY Zenon, <2>2, <2>3
<1>3. T \in SUBSET Nat
  BY Zenon
<1>4. T = Nat
  BY Zenon, <1>1, <1>2, <1>3, Counting
<1>5. QED
  BY Zenon, <1>4

(* There is a chain of every length. *)
LEMMA ChainExists ==
  ASSUME NEW S, NEW base \in S, NEW F \in [S -> S]
  PROVE  \A n \in Nat : Chain(S, base, F, n) # {}
<1> DEFINE T == {n \in Nat : Chain(S, base, F, n) # {}}
<1>1. 0 \in T
  <2> DEFINE f == [i \in 0 .. 0 |-> base]
  <2>1. f \in [0 .. 0 -> S] /\ f[0] = base /\ \A i \in 0 .. 0 : ~(i + 1 \in 0 .. 0)
    BY SMT
  <2>2. f \in Chain(S, base, F, 0)
    BY Zenon, <2>1 DEF Chain
  <2>3. 0 \in Nat
    BY SMT
  <2>4. QED
    BY Zenon, <2>2, <2>3
<1>2. ASSUME NEW n \in T PROVE n + 1 \in T
  <2>1. n \in Nat /\ n + 1 \in Nat /\ Chain(S, base, F, n) # {}
    BY SMT
  <2>2. PICK f \in Chain(S, base, F, n) : TRUE
    BY Zenon, <2>1
  <2>3. /\ f \in [0 .. n -> S] /\ f[0] = base
        /\ \A i \in 0 .. n : i + 1 \in 0 .. n => f[i + 1] = F[f[i]]
    BY Zenon DEF Chain
  <2> DEFINE g == [i \in 0 .. (n + 1) |-> IF i <= n THEN f[i] ELSE F[f[n]]]
  <2>4. \A i \in 0 .. (n + 1) : (i <= n => g[i] = f[i]) /\ (~(i <= n) => g[i] = F[f[n]])
    BY Zenon
  <2>5. g \in [0 .. (n + 1) -> S]
    <3>1. ASSUME NEW i \in 0 .. (n + 1) PROVE (IF i <= n THEN f[i] ELSE F[f[n]]) \in S
      <4>1. n \in 0 .. n /\ (i <= n => i \in 0 .. n)
        BY SMT, <2>1
      <4>2. f[n] \in S /\ (i <= n => f[i] \in S)
        BY Zenon, <2>3, <4>1
      <4>3. F[f[n]] \in S
        BY Zenon, <4>2
      <4>4. QED
        BY Zenon, <4>2, <4>3
    <3>2. QED
      BY Zenon, <3>1
  <2> HIDE DEF g
  <2>6. g[0] = base
    <3>1. 0 <= n /\ 0 \in 0 .. (n + 1)
      BY SMT, <2>1
    <3>2. QED
      BY Zenon, <2>3, <2>4, <3>1
  <2>7. ASSUME NEW i \in 0 .. (n + 1), i + 1 \in 0 .. (n + 1) PROVE g[i + 1] = F[g[i]]
    <3>1. i <= n /\ i \in 0 .. n /\ (i + 1 <= n => i + 1 \in 0 .. n) /\ (~(i + 1 <= n) => i = n)
      BY SMT, <2>1, <2>7
    <3>2. g[i] = f[i]
      BY Zenon, <2>4, <3>1
    <3>3. CASE i + 1 <= n
      <4>1. g[i + 1] = f[i + 1] /\ f[i + 1] = F[f[i]]
        BY Zenon, <2>3, <2>4, <2>7, <3>1, <3>3
      <4>2. QED
        BY Zenon, <3>2, <4>1
    <3>4. CASE ~(i + 1 <= n)
      <4>1. g[i + 1] = F[f[n]] /\ i = n
        BY Zenon, <2>4, <2>7, <3>1, <3>4
      <4>2. QED
        BY Zenon, <3>2, <4>1
    <3>5. QED
      BY Zenon, <3>3, <3>4
  <2>8. g \in Chain(S, base, F, n + 1)
    BY Zenon, <2>5, <2>6, <2>7 DEF Chain
  <2>9. QED
    BY Zenon, <2>1, <2>8
<1>3. T \in SUBSET Nat
  BY Zenon
<1>4. T = Nat
  BY Zenon, <1>1, <1>2, <1>3, Counting
<1>5. QED
  BY Zenon, <1>4

(* A function that starts from base and steps by F *)
Recurs(S, base, F) ==
  \E g \in [Nat -> S] : g[0] = base /\ \A n \in Nat : g[n + 1] = F[g[n]]

(* A recursion over the numbers has a solution, with its answers in S. *)
LEMMA Recursion ==
  ASSUME NEW S, NEW base \in S, NEW F \in [S -> S]
  PROVE  Recurs(S, base, F)
<1> DEFINE C(n) == Chain(S, base, F, n)
           one(n) == CHOOSE f \in C(n) : TRUE
           g == [n \in Nat |-> one(n)[n]]
<1>1. \A n \in Nat : one(n) \in C(n)
  BY Zenon, ChainExists
<1>2. \A n \in Nat : g[n] = one(n)[n]
  BY Zenon
<1>3. \A n \in Nat : one(n) \in [0 .. n -> S] /\ one(n)[0] = base
  BY Zenon, <1>1 DEF Chain
<1>4. \A n \in Nat : one(n)[n] \in S
  <2>1. \A n \in Nat : n \in 0 .. n
    BY SMT
  <2>2. QED
    BY Zenon, <1>3, <2>1
<1>5. g \in [Nat -> S]
  BY Zenon, <1>4
<1>6. g[0] = base
  <2>1. 0 \in Nat
    BY SMT
  <2>2. QED
    BY Zenon, <1>2, <1>3, <2>1
<1>7. ASSUME NEW n \in Nat PROVE g[n + 1] = F[g[n]]
  <2> DEFINE a == one(n)
             b == one(n + 1)
  <2>1. n + 1 \in Nat /\ n <= n /\ n <= n + 1 /\ n \in 0 .. (n + 1) /\ n + 1 \in 0 .. (n + 1)
    BY SMT
  <2>2. a \in C(n) /\ b \in C(n + 1) /\ g[n] = a[n] /\ g[n + 1] = b[n + 1]
    BY Zenon, <1>1, <1>2, <2>1
  <2> HIDE DEF a, b, g
  <2>3. a[n] = b[n]
    <3>1. \A i \in Nat : i <= n /\ i <= n + 1 => a[i] = b[i]
      BY SMT, <2>1, <2>2, ChainsAgree
    <3>2. QED
      BY Zenon, <2>1, <3>1
  <2>4. b[n + 1] = F[b[n]]
    BY Zenon, <2>1, <2>2 DEF Chain
  <2>5. QED
    BY Zenon, <2>2, <2>3, <2>4
<1> HIDE DEF g
<1>8. QED
  BY Zenon, <1>5, <1>6, <1>7 DEF Recurs

(* The functions that take n steps *)
Steps(D, st, g) ==
  /\ g \in [Nat -> [D -> D]]
  /\ \A s \in D : g[0][s] = s
  /\ \A n \in Nat, s \in D : g[n + 1][s] = g[n][st[s]]

(* There are such functions. *)
LEMMA StepsExist ==
  ASSUME NEW D, NEW st \in [D -> D]
  PROVE  \E g : Steps(D, st, g)
<1> DEFINE S == [D -> D]
           base == [s \in D |-> s]
           one(f) == [s \in D |-> f[st[s]]]
           F == [f \in S |-> one(f)]
<1>1. base \in S
  BY Zenon
<1>2. F \in [S -> S]
  <2>1. ASSUME NEW f \in S PROVE one(f) \in S
    BY Zenon
  <2>2. QED
    BY Zenon, <2>1
<1>3. \A f \in S : F[f] = one(f)
  BY Zenon
<1>4. \A s \in D : base[s] = s
  BY Zenon
<1>5. \A f \in S, s \in D : one(f)[s] = f[st[s]]
  BY Zenon
<1> HIDE DEF base, one, F, S
<1>6. PICK g \in [Nat -> S] : g[0] = base /\ \A n \in Nat : g[n + 1] = F[g[n]]
  <2>1. Recurs(S, base, F)
    BY Zenon, <1>1, <1>2, Recursion
  <2>2. QED
    BY Zenon, <2>1 DEF Recurs
<1>7. \A s \in D : g[0][s] = s
  BY Zenon, <1>4, <1>6
<1>8. \A n \in Nat, s \in D : g[n + 1][s] = g[n][st[s]]
  <2>1. \A n \in Nat : g[n] \in S
    BY Zenon, <1>6
  <2>2. \A n \in Nat : g[n + 1] = one(g[n])
    BY Zenon, <1>3, <1>6, <2>1
  <2>3. QED
    BY Zenon, <1>5, <2>1, <2>2
<1>9. Steps(D, st, g)
  BY Zenon, <1>6, <1>7, <1>8 DEF Steps, S
<1>10. QED
  BY Zenon, <1>9

(* m steps after n steps are m + n steps. *)
Adds(D, g, m) == \A n \in Nat, s \in D : g[m + n][s] = g[m][g[n][s]]

LEMMA StepsAdd ==
  ASSUME NEW D, NEW st \in [D -> D], NEW g, Steps(D, st, g), NEW m \in Nat
  PROVE  Adds(D, g, m)
<1> DEFINE T == {n \in Nat : \A s \in D : g[m + n][s] = g[m][g[n][s]]}
<1>1. 0 \in T
  <2>1. 0 \in Nat /\ m + 0 = m
    BY SMT
  <2>2. \A s \in D : g[0][s] = s
    BY Zenon DEF Steps
  <2>3. QED
    BY Zenon, <2>1, <2>2
<1>2. ASSUME NEW n \in T PROVE n + 1 \in T
  <2>1. n \in Nat /\ n + 1 \in Nat /\ m + n \in Nat /\ m + (n + 1) = (m + n) + 1
    BY SMT
  <2>2. \A k \in Nat, s \in D : g[k + 1][s] = g[k][st[s]]
    BY Zenon DEF Steps
  <2>3. ASSUME NEW s \in D PROVE g[m + (n + 1)][s] = g[m][g[n + 1][s]]
    <3>1. st[s] \in D
      BY Zenon
    <3>2. g[m + n][st[s]] = g[m][g[n][st[s]]]
      BY Zenon, <3>1
    <3>3. g[(m + n) + 1][s] = g[m + n][st[s]]
      BY Zenon, <2>1, <2>2
    <3>4. g[n + 1][s] = g[n][st[s]]
      BY Zenon, <2>1, <2>2
    <3>5. QED
      BY Zenon, <2>1, <3>2, <3>3, <3>4
  <2>4. QED
    BY Zenon, <2>1, <2>3
<1>3. T = Nat
  <2>1. T \in SUBSET Nat
    BY Zenon
  <2> HIDE DEF T
  <2>2. QED
    BY Zenon, <1>1, <1>2, <2>1, Counting
<1>4. QED
  BY Zenon, <1>3 DEF Adds

(***************************************************************************)
(* The walk from day to day                                                 *)
(***************************************************************************)

(* The days of the week are numbered from 0 to 6. *)
LEMMA WeekdayRange ==
  ASSUME NEW c \in Calendar
  PROVE  Weekday(c) \in 0 .. 6
<1> DEFINE n == DayNumber(c)
<1>1. n \in Int
  BY Zenon, CalendarFields
<1> HIDE DEF n
<1>2. n % 7 \in 0 .. 6
  BY SMT, <1>1
<1>3. QED
  BY Zenon, <1>2 DEF n, Weekday

(* What is read of a date *)
LEMMA ReadOf ==
  ASSUME NEW c \in Calendar, NEW d \in Calendar
  PROVE  LET s == Read(c, d)
         IN s \in DayReadings /\ s.cal = c /\ s.mday = d.mday /\ s.wday = Weekday(d)
<1>1. d.mday \in 1 .. 31 /\ Weekday(d) \in 0 .. 6
  BY Zenon, CalendarFields, WeekdayRange
<1>2. QED
  BY SMT, <1>1 DEF Read, DayReadings

(* A step reads a day. *)
LEMMA DayAfterRead ==
  ASSUME NEW e, NEW s \in DayReadings, NEW resets
  PROVE  DayAfter(e, s, resets) \in DayReadings
<1> DEFINE d == add_to_field(s.cal, "mday", 1)
<1>1. s.cal \in Calendar
  BY SMT DEF DayReadings
<1>2. d \in Calendar
  BY Zenon, <1>1, DayMoved DEF Settled
<1> HIDE DEF d
<1>3. reset_all_min(d, resets) \in Calendar
  BY Zenon, <1>2, ResetAll
<1>4. ReadUp(d, resets) \in DayReadings
  BY Zenon, <1>2, <1>3, ReadOf DEF ReadUp
<1>5. QED
  BY Zenon, <1>4 DEF DayAfter, d

(* No step leaves the day read; one step more is a step first. *)
LEMMA WalkSteps ==
  ASSUME NEW e, NEW resets
  PROVE  LET W == Walk(TRUE, e, resets)
         IN /\ \A s \in DayReadings : W[0][s] = s
            /\ \A n \in Nat, s \in DayReadings : W[n + 1][s] = W[n][DayAfter(e, s, resets)]
<1> DEFINE D == DayReadings
           st == [s \in D |-> DayAfter(e, s, resets)]
           id == [s \in D |-> s]
           even(w, n) == [s \in D |-> w[n \div 2][w[n \div 2][s]]]
           odd(w, n) == [s \in D |-> w[n \div 2][w[n \div 2][st[s]]]]
           each(w, n) == [s \in D |-> IF n % 2 = 0 THEN w[n \div 2][w[n \div 2][s]]
                                      ELSE w[n \div 2][w[n \div 2][DayStep(TRUE, e, s, resets)]]]
           body(w) == [n \in Nat |-> IF n = 0 THEN id ELSE each(w, n)]
           R == Walk(TRUE, e, resets)
<1>1. st \in [D -> D] /\ \A s \in D : st[s] = DayAfter(e, s, resets)
  BY Zenon, DayAfterRead
<1>2. R = CHOOSE w : w = body(w)
  BY Zenon DEF Walk
<1>3. \A w, n : each(w, n) = IF n % 2 = 0 THEN even(w, n) ELSE odd(w, n)
  <2>1. \A s \in D : DayStep(TRUE, e, s, resets) = st[s]
    BY Zenon, <1>1 DEF DayStep
  <2>2. QED
    BY Zenon, <2>1
<1> HIDE DEF st, D
<1>4. PICK g : Steps(D, st, g)
  BY Zenon, <1>1, StepsExist
<1>5. ASSUME NEW m \in Nat PROVE \A n \in Nat, s \in D : g[m + n][s] = g[m][g[n][s]]
  <2>1. Adds(D, g, m)
    BY Zenon, <1>1, <1>4, StepsAdd
  <2>2. QED
    BY Zenon, <2>1 DEF Adds
<1>6. /\ g \in [Nat -> [D -> D]]
      /\ \A s \in D : g[0][s] = s
      /\ \A n \in Nat, s \in D : g[n + 1][s] = g[n][st[s]]
  BY Zenon, <1>4 DEF Steps
<1>7. g[0] = id
  <2>1. g[0] \in [D -> D]
    BY SMT, <1>6
  <2>2. QED
    BY Zenon, <1>6, <2>1
<1>8. ASSUME NEW n \in Nat, n # 0 PROVE g[n] = each(g, n)
  <2> DEFINE h == n \div 2
  <2>1. h \in Nat /\ (n % 2 = 0 => h + h = n) /\ (n % 2 # 0 => (h + h) + 1 = n) /\ h + h \in Nat
    BY SMT
  <2> HIDE DEF h
  <2>2. g[n] \in [D -> D]
    BY Zenon, <1>6
  <2>3. CASE n % 2 = 0
    <3>1. \A s \in D : g[n][s] = g[h][g[h][s]]
      <4>1. \A s \in D : g[h + h][s] = g[h][g[h][s]]
        BY Zenon, <1>5, <2>1
      <4>2. h + h = n
        BY Zenon, <2>1, <2>3
      <4>3. QED
        BY Zenon, <4>1, <4>2
    <3>2. even(g, n) = [s \in D |-> g[h][g[h][s]]]
      BY Zenon DEF h
    <3>3. g[n] = even(g, n)
      BY Zenon, <2>2, <3>1, <3>2
    <3> HIDE DEF even, odd, each
    <3>4. QED
      BY Zenon, <1>3, <2>3, <3>3
  <2>4. CASE n % 2 # 0
    <3>1. \A s \in D : g[n][s] = g[h][g[h][st[s]]]
      <4>1. \A s \in D : st[s] \in D
        BY Zenon, <1>1
      <4>2. \A s \in D : g[(h + h) + 1][s] = g[h + h][st[s]]
        BY Zenon, <1>6, <2>1
      <4>3. \A s \in D : g[h + h][st[s]] = g[h][g[h][st[s]]]
        BY Zenon, <1>5, <2>1, <4>1
      <4>4. (h + h) + 1 = n
        BY Zenon, <2>1, <2>4
      <4>5. QED
        BY Zenon, <4>2, <4>3, <4>4
    <3>2. odd(g, n) = [s \in D |-> g[h][g[h][st[s]]]]
      BY Zenon DEF h
    <3>3. g[n] = odd(g, n)
      BY Zenon, <2>2, <3>1, <3>2
    <3> HIDE DEF even, odd, each
    <3>4. QED
      BY Zenon, <1>3, <2>4, <3>3
  <2>5. QED
    BY Zenon, <2>3, <2>4
<1> HIDE DEF each, id, R
<1>9. g = body(g)
  <2>1. \A n \in Nat : g[n] = IF n = 0 THEN id ELSE each(g, n)
    BY Zenon, <1>7, <1>8
  <2>2. QED
    BY Zenon, <1>6, <2>1
<1>10. R = body(R)
  <2>1. \E w : w = body(w)
    BY Zenon, <1>9
  <2> HIDE DEF body
  <2>2. QED
    BY Zenon, <1>2, <2>1
<1>11. \A n \in Nat : R[n] = IF n = 0 THEN id ELSE each(R, n)
  BY Zenon, <1>10
<1>12. \A n \in Nat : g[n] = IF n = 0 THEN id ELSE each(g, n)
  BY Zenon, <1>7, <1>8
<1> HIDE DEF body
<1> DEFINE T == {n \in Nat : \A k \in 0 .. n : R[k] = g[k]}
<1>13. 0 \in T
  <2>1. 0 \in Nat /\ \A k \in 0 .. 0 : k = 0
    BY SMT
  <2>2. R[0] = g[0]
    BY Zenon, <1>11, <1>12, <2>1
  <2>3. QED
    BY Zenon, <2>1, <2>2
<1>14. ASSUME NEW n \in T PROVE n + 1 \in T
  <2>1. n \in Nat /\ n + 1 \in Nat /\ n + 1 # 0 /\ (n + 1) \div 2 \in 0 .. n
        /\ \A k \in 0 .. (n + 1) : k \in 0 .. n \/ k = n + 1
    BY SMT
  <2>2. R[(n + 1) \div 2] = g[(n + 1) \div 2]
    BY Zenon, <2>1
  <2>3. each(R, n + 1) = each(g, n + 1)
    BY Zenon, <2>2 DEF each
  <2>4. R[n + 1] = each(R, n + 1) /\ g[n + 1] = each(g, n + 1)
    BY Zenon, <1>11, <1>12, <2>1
  <2>5. QED
    BY Zenon, <2>1, <2>3, <2>4
<1>15. T = Nat
  <2>1. T \in SUBSET Nat
    BY Zenon
  <2> HIDE DEF T
  <2>2. QED
    BY Zenon, <1>13, <1>14, <2>1, Counting
<1>16. \A n \in Nat : R[n] = g[n]
  <2>1. \A n \in Nat : n \in 0 .. n
    BY SMT
  <2>2. QED
    BY Zenon, <1>15, <2>1
<1>17. 0 \in Nat /\ \A n \in Nat : n + 1 \in Nat
  BY SMT
<1>18. \A s \in D : R[0][s] = s
  BY Zenon, <1>6, <1>16, <1>17
<1>19. \A n \in Nat, s \in D : R[n + 1][s] = R[n][DayAfter(e, s, resets)]
  <2>1. ASSUME NEW n \in Nat, NEW s \in D PROVE R[n + 1][s] = R[n][DayAfter(e, s, resets)]
    <3>1. R[n + 1] = g[n + 1] /\ R[n] = g[n]
      BY Zenon, <1>16, <1>17
    <3>2. g[n + 1][s] = g[n][st[s]] /\ st[s] = DayAfter(e, s, resets)
      BY Zenon, <1>1, <1>6
    <3>3. QED
      BY Zenon, <3>1, <3>2
  <2>2. QED
    BY Zenon, <2>1
<1>20. QED
  BY Zenon, <1>18, <1>19 DEF D, R


(***************************************************************************)
(* The days of an expression                                                *)
(***************************************************************************)

(* What cron_parse_expr makes of a text, with the day bounded in one way only *)
Job(e) ==
  /\ Digits(e.sec, 60) /\ Digits(e.min, 60) /\ Digits(e.hour, 24)
  /\ e.mon \in SUBSET (0 .. 11) /\ e.mon # {}
  /\ e.mday \in SUBSET (1 .. 31) /\ e.mday # {}
  /\ e.wday \in SUBSET (0 .. 6) /\ e.wday # {}
  /\ e.mday = 1 .. 31 \/ e.wday = 0 .. 6

(* The date d is of a day of the expression. *)
DateMatches(e, d) == d.mday \in e.mday /\ Weekday(d) \in e.wday

(* A day up to n days after c's *)
OnAfter(c, d, n) == d \in Calendar /\ DayNumber(d) - DayNumber(c) \in 1 .. n

(* A date of the n-th of a month *)
OfDay(y, m, n) == \E d \in Calendar : d.mday = n /\ DayNumber(d) = DayOf(y, m, n)

(* Each day of a month has one. *)
LEMMA DateOfDay ==
  ASSUME NEW y \in Int, NEW m \in 0 .. 11, NEW n \in 1 .. DaysIn(y, m)
  PROVE  OfDay(y, m, n)
<1> DEFINE d == Date(y, m, n, 0, 0, 0)
<1>1. DaysIn(y, m) \in 28 .. 31
  BY Zenon, MonthLengths
<1>2. d \in Calendar /\ d.year = y /\ d.mon = m /\ d.mday = n
  BY SMT, <1>1 DEF Date, Calendar
<1> HIDE DEF d
<1>3. d \in Raw
  BY Zenon, <1>2, CalendarFields
<1>4. DayNumber(d) = DayOf(y, m, n)
  BY Zenon, <1>2, <1>3, DayOfDate
<1>5. QED
  BY Zenon, <1>2, <1>4 DEF OfDay

(* The month after this one, and the days of this one counted on in it *)
LEMMA MonthAfter ==
  ASSUME NEW y \in Int, NEW m \in 0 .. 11
  PROVE  \E z \in Int, k \in 0 .. 11 :
           /\ \A n \in Int : DayOf(z, k, n - DaysIn(y, m)) = DayOf(y, m, n)
           /\ DaysIn(y, m) # 31 => DaysIn(z, k) = 31
<1>1. CASE m < 11
  <2>1. m + 1 \in 0 .. 11
    BY SMT, <1>1
  <2>2. \A n \in Int : DayOf(y, m + 1, n - DaysIn(y, m)) = DayOf(y, m, n)
    BY Zenon, <1>1, DayOfNextMonth
  <2>3. DaysIn(y, m) # 31 => DaysIn(y, m + 1) = 31
    BY SMT, <1>1 DEF DaysIn
  <2>4. QED
    BY Zenon, <2>1, <2>2, <2>3
<1>2. CASE m = 11
  <2>1. 0 \in 0 .. 11 /\ y + 1 \in Int
    BY SMT, <1>2
  <2>2. \A n \in Int : DayOf(y + 1, 0, n - DaysIn(y, m)) = DayOf(y, m, n)
    BY Zenon, <1>2, DayOfNextMonth
  <2>3. DaysIn(y, m) # 31 => DaysIn(y + 1, 0) = 31
    BY SMT, <1>2 DEF DaysIn
  <2>4. QED
    BY Zenon, <2>1, <2>2, <2>3
<1>3. QED
  BY SMT, <1>1, <1>2

(* Every number from 1 to 31 is a day of this month or one of the next two. *)
LEMMA DayOfMonthReached ==
  ASSUME NEW c \in Calendar, NEW n \in 1 .. 31, n # c.mday
  PROVE  \E d : OnAfter(c, d, 93) /\ d.mday = n
<1> DEFINE y == c.year
           m == c.mon
           a == c.mday
           p == DaysIn(y, m)
           D == DayNumber(c)
<1>1. y \in Int /\ m \in 0 .. 11 /\ a \in Int /\ a >= 1 /\ a <= p /\ c \in Raw
  BY SMT, CalendarFields
<1>2. p \in 28 .. 31 /\ p \in Int
  BY SMT, <1>1, MonthLengths
<1>3. D = DayOf(y, m, a)
  BY Zenon, <1>1, DayOfDate
<1>4. \A q \in Int : DayOf(y, m, q) = DayOf(y, m, 0) + q
  <2>1. YearStart(y) \in Int /\ MonthStart(y, m) \in Int
    BY Zenon, <1>1, DayOfParts
  <2> HIDE DEF y, m
  <2>2. QED
    BY SMT, <2>1 DEF DayOf
<1>5. DayOf(y, m, 0) \in Int
  <2>1. 0 \in Int
    BY SMT
  <2>2. QED
    BY Zenon, <1>1, <2>1, DayOfNextMonth
<1>6. CASE n > a /\ n <= p
  <2>1. n \in 1 .. DaysIn(y, m) /\ n \in Int
    BY SMT, <1>2, <1>6
  <2> HIDE DEF y, m, a, p
  <2>2. PICK d \in Calendar : d.mday = n /\ DayNumber(d) = DayOf(y, m, n)
    BY Zenon, <1>1, <2>1, DateOfDay DEF OfDay
  <2>3. DayNumber(d) = DayOf(y, m, 0) + n /\ D = DayOf(y, m, 0) + a
    BY Zenon, <1>1, <1>3, <1>4, <2>1, <2>2
  <2> HIDE DEF D
  <2>4. DayNumber(d) - D \in 1 .. 93
    BY SMT, <1>1, <1>2, <1>3, <1>5, <1>6, <2>2, <2>3
  <2>5. QED
    BY Zenon, <2>2, <2>4 DEF OnAfter, D
<1>7. CASE ~(n > a /\ n <= p)
  <2>1. PICK z \in Int, k \in 0 .. 11 :
          /\ \A q \in Int : DayOf(z, k, q - p) = DayOf(y, m, q)
          /\ p # 31 => DaysIn(z, k) = 31
    BY Zenon, <1>1, MonthAfter
  <2> DEFINE r == DaysIn(z, k)
  <2>2. r \in 28 .. 31 /\ r \in Int
    BY SMT, MonthLengths
  <2>3. CASE n <= r
    <3>1. n \in 1 .. r /\ n \in Int /\ n + p \in Int /\ (n + p) - p = n
      BY SMT, <1>2, <2>2, <2>3
    <3>2. PICK d \in Calendar : d.mday = n /\ DayNumber(d) = DayOf(z, k, n)
      BY ZenonT(60), <3>1, DateOfDay DEF OfDay
    <3>3. DayOf(z, k, n) = DayOf(y, m, n + p)
      BY Zenon, <2>1, <3>1
    <3>4. DayNumber(d) = DayOf(y, m, 0) + (n + p) /\ D = DayOf(y, m, 0) + a
      BY Zenon, <1>1, <1>3, <1>4, <3>1, <3>2, <3>3
    <3> HIDE DEF y, m, a, p, r, D
    <3>5. DayNumber(d) - D \in 1 .. 93
      BY SMT, <1>1, <1>2, <1>5, <3>4
    <3>6. QED
      BY Zenon, <3>2, <3>5 DEF OnAfter, D
  <2>4. CASE n > r
    <3>1. PICK x \in Int, j \in 0 .. 11 :
            /\ \A q \in Int : DayOf(x, j, q - r) = DayOf(z, k, q)
            /\ r # 31 => DaysIn(x, j) = 31
      BY Zenon, MonthAfter
    <3>2. n \in 1 .. DaysIn(x, j) /\ n \in Int /\ n + r \in Int /\ (n + r) - r = n
          /\ n + r + p \in Int /\ (n + r + p) - p = n + r
      BY SMT, <1>2, <2>2, <2>4, <3>1
    <3>3. PICK d \in Calendar : d.mday = n /\ DayNumber(d) = DayOf(x, j, n)
      BY Zenon, <3>2, DateOfDay DEF OfDay
    <3>4. DayOf(x, j, n) = DayOf(z, k, n + r) /\ DayOf(z, k, n + r) = DayOf(y, m, n + r + p)
      BY Zenon, <2>1, <3>1, <3>2
    <3>5. DayNumber(d) = DayOf(y, m, 0) + (n + r + p) /\ D = DayOf(y, m, 0) + a
      BY Zenon, <1>1, <1>3, <1>4, <3>2, <3>3, <3>4
    <3> HIDE DEF y, m, a, p, r, D
    <3>6. DayNumber(d) - D \in 1 .. 93
      BY SMT, <1>1, <1>2, <1>5, <2>2, <3>5
    <3>7. QED
      BY Zenon, <3>3, <3>6 DEF OnAfter, D
  <2>5. QED
    BY SMT, <2>2, <2>3, <2>4
<1>8. QED
  BY Zenon, <1>6, <1>7

(* Every day of the week comes within six days. *)
LEMMA WeekdayReached ==
  ASSUME NEW c \in Calendar, NEW w \in 0 .. 6, w # Weekday(c)
  PROVE  \E d : OnAfter(c, d, 6) /\ Weekday(d) = w
<1> DEFINE D == DayNumber(c)
           a == c.mday
<1>1. D \in Int /\ c.year \in Int /\ c.mon \in 0 .. 11 /\ a \in 1 .. 31 /\ a \in Int /\ c \in Raw
  BY SMT, CalendarFields
<1>2. w # D % 7
  BY Zenon DEF Weekday
<1>3. PICK k \in 1 .. 6 : (D + k) % 7 = w
  <2> HIDE DEF D
  <2>1. D % 7 \in 0 .. 6 /\ D % 7 \in Int
    BY SMT, <1>1
  <2> DEFINE k == IF w > D % 7 THEN w - (D % 7) ELSE w - (D % 7) + 7
  <2>2. k \in 1 .. 6
    BY SMT, <1>2, <2>1
  <2>3. (D + k) % 7 = w
    BY SMT, <1>1, <1>2, <2>1
  <2>4. QED
    BY Zenon, <2>2, <2>3
<1> DEFINE r == Date(c.year, c.mon, a + k, 0, 0, 0)
           d == Carried(r)
<1>4. r \in Spread /\ r \in Raw /\ r.year = c.year /\ r.mon = c.mon /\ r.mday = a + k
      /\ r.hour = 0 /\ r.min = 0 /\ r.sec = 0
  BY SMT, <1>1 DEF Date, Spread, Raw
<1>5. d \in Calendar /\ Stamp(d) = Stamp(r)
  BY Zenon, <1>4, InRange
<1> HIDE DEF r, d
<1>6. DayNumber(r) - DayNumber(c) = (a + k) - a /\ DayNumber(r) \in Int
  BY Zenon, <1>1, <1>4, SameMonthDays, DayNumberSum
<1>7. DayNumber(d) = DayNumber(r)
  <2> DEFINE p == DayNumber(d)
             q == DayNumber(r)
             t == Clock(d)
  <2>1. Clock(r) = 0
    BY SMT, <1>4 DEF Clock
  <2>2. p \in Int /\ t \in Int /\ q \in Int /\ 0 <= t /\ t < DaySeconds
    BY Zenon, <1>5, <1>6, CalendarFields
  <2>3. DaySeconds * p + t = DaySeconds * q + 0
    BY Zenon, <1>5, <2>1 DEF Stamp
  <2> HIDE DEF p, q, t
  <2>4. p = q
    BY SMT, <2>2, <2>3 DEF DaySeconds
  <2>5. QED
    BY Zenon, <2>4 DEF p, q
<1>8. DayNumber(d) = D + k /\ k \in Int
  <2> DEFINE q == DayNumber(r)
  <2> HIDE DEF D, q, a
  <2>1. q - D = (a + k) - a /\ q \in Int
    BY Zenon, <1>6 DEF D, q
  <2>2. q = D + k /\ k \in Int
    BY SMT, <1>1, <2>1
  <2>3. QED
    BY Zenon, <1>7, <2>2 DEF q
<1>9. DayNumber(d) - D \in 1 .. 6
  <2> HIDE DEF D
  <2>1. QED
    BY SMT, <1>1, <1>8
<1>10. Weekday(d) = w
  BY Zenon, <1>3, <1>8 DEF Weekday
<1>11. QED
  BY Zenon, <1>5, <1>9, <1>10 DEF OnAfter

(* The same day of another month is four weeks away at least. *)
LEMMA SameDayOfMonth ==
  ASSUME NEW c \in Calendar, NEW d \in Calendar, d.mday = c.mday, DayNumber(c) < DayNumber(d)
  PROVE  DayNumber(c) + 28 <= DayNumber(d)
<1> DEFINE p == DaysIn(c.year, c.mon)
           e == Date(c.year, c.mon, p, c.hour, c.min, c.sec)
           f == Date(d.year, d.mon, 1, d.hour, d.min, d.sec)
           a == c.mday
           C == DayNumber(c)
           D == DayNumber(d)
<1>1. /\ c.year \in Int /\ c.mon \in 0 .. 11 /\ a \in 1 .. 31 /\ a \in Int
      /\ c \in Raw /\ d \in Raw /\ d.year \in Int /\ d.mon \in 0 .. 11
      /\ C \in Int /\ D \in Int /\ d.mday = a
  BY SMT, CalendarFields
<1>2. p \in 28 .. 31 /\ p \in Int
  BY SMT, <1>1, MonthLengths
<1>3. ~(c.year = d.year /\ c.mon = d.mon)
  <2>1. ASSUME c.year = d.year, c.mon = d.mon PROVE C = D
    BY Zenon, <1>1, <2>1, DayOfDate
  <2> HIDE DEF C, D
  <2>2. ~(C = D)
    BY SMT, <1>1 DEF C, D
  <2>3. QED
    BY Zenon, <2>1, <2>2
<1>4. /\ e \in Raw /\ e.year = c.year /\ e.mon = c.mon /\ e.mday = p
      /\ f \in Raw /\ f.year = d.year /\ f.mon = d.mon /\ f.mday = 1
  BY SMT, <1>1, <1>2 DEF Date, Raw
<1>5. ~(d.year < c.year \/ (d.year = c.year /\ d.mon < c.mon))
  <2>1. d.mday <= DaysIn(d.year, d.mon) /\ c.mday >= 1
    BY SMT, CalendarFields
  <2>2. ASSUME d.year < c.year \/ (d.year = c.year /\ d.mon < c.mon) PROVE D < C
    BY Zenon, <1>1, <2>1, <2>2, MonthLater
  <2>3. ~(D < C)
    <3> HIDE DEF C, D
    <3>1. QED
      BY SMT, <1>1 DEF C, D
  <2>4. QED
    BY Zenon, <2>2, <2>3
<1>6. c.year < d.year \/ (c.year = d.year /\ c.mon < d.mon)
  BY SMT, <1>1, <1>3, <1>5
<1>7. DayNumber(e) < DayNumber(f)
  <2>1. e.mday <= DaysIn(e.year, e.mon) /\ f.mday >= 1
    BY SMT, <1>2, <1>4
  <2>2. QED
    BY Zenon, <1>4, <1>6, <2>1, MonthLater
<1>8. /\ DayNumber(e) - C = p - a /\ DayNumber(d) - DayNumber(f) = a - 1
      /\ DayNumber(e) \in Int /\ DayNumber(f) \in Int
  BY Zenon, <1>1, <1>4, SameMonthDays, DayNumberSum
<1> HIDE DEF C, D, a, p
<1>9. D - DayNumber(f) = a - 1
  BY Zenon, <1>8 DEF D
<1>10. C + 28 <= D
  BY SMT, <1>1, <1>2, <1>7, <1>8, <1>9
<1>11. QED
  BY Zenon, <1>10 DEF C, D

(* A day the expression allows is near, and is another day of its month. *)
LEMMA DayExists ==
  ASSUME NEW e, Job(e), NEW c \in Calendar, ~DateMatches(e, c)
  PROVE  \E d : OnAfter(c, d, 93) /\ DateMatches(e, d) /\ (e.mday = 1 .. 31 => OnAfter(c, d, 6))
<1>1. c.mday \in 1 .. 31 /\ Weekday(c) \in 0 .. 6
  BY Zenon, CalendarFields, WeekdayRange
<1>2. \A d \in Calendar : d.mday \in 1 .. 31 /\ Weekday(d) \in 0 .. 6
  BY Zenon, CalendarFields, WeekdayRange
<1>3. CASE e.mday = 1 .. 31
  <2>1. PICK w \in e.wday : w # Weekday(c)
    BY Zenon, <1>1, <1>3 DEF DateMatches, Job
  <2>2. w \in 0 .. 6
    BY Zenon DEF Job
  <2>3. PICK d : OnAfter(c, d, 6) /\ Weekday(d) = w
    BY Zenon, <2>1, <2>2, WeekdayReached
  <2>4. DateMatches(e, d)
    BY Zenon, <1>2, <1>3, <2>1, <2>3 DEF DateMatches, OnAfter
  <2>5. OnAfter(c, d, 93)
    <3>1. \A k \in 1 .. 6 : k \in 1 .. 93
      BY SMT
    <3>2. QED
      BY Zenon, <2>3, <3>1 DEF OnAfter
  <2>6. QED
    BY Zenon, <2>3, <2>4, <2>5
<1>4. CASE e.mday # 1 .. 31
  <2>1. e.wday = 0 .. 6
    BY Zenon, <1>4 DEF Job
  <2>2. PICK n \in e.mday : TRUE
    BY Zenon DEF Job
  <2>3. n \in 1 .. 31 /\ n # c.mday
    BY Zenon, <1>1, <2>1 DEF Job, DateMatches
  <2>4. PICK d : OnAfter(c, d, 93) /\ d.mday = n
    BY Zenon, <2>3, DayOfMonthReached
  <2>5. DateMatches(e, d)
    BY Zenon, <1>2, <2>1, <2>4 DEF DateMatches, OnAfter
  <2>6. QED
    BY Zenon, <1>4, <2>4, <2>5
<1>5. QED
  BY Zenon, <1>3, <1>4


(***************************************************************************)
(* The walk to a day of the expression                                      *)
(***************************************************************************)

(* The day numbered D was read. *)
OnDay(s, D) ==
  \E y \in Calendar : DayNumber(y) = D /\ s.mday = y.mday /\ s.wday = Weekday(y)

(* What was read of a day tells whether its dates match. *)
LEMMA DayRead ==
  ASSUME NEW e, NEW s, NEW y \in Calendar, OnDay(s, DayNumber(y))
  PROVE  /\ DayMatches(e, s) <=> DateMatches(e, y)
         /\ s.mday = y.mday
<1>1. PICK z \in Calendar : DayNumber(z) = DayNumber(y) /\ s.mday = z.mday /\ s.wday = Weekday(z)
  BY Zenon DEF OnDay
<1>2. z.mday = y.mday
  BY Zenon, <1>1, SameDay
<1>3. Weekday(z) = Weekday(y)
  BY Zenon, <1>1 DEF Weekday
<1>4. QED
  BY Zenon, <1>1, <1>2, <1>3 DEF DayMatches, DateMatches

Clocks == SUBSET {"sec", "min", "hour"}

(* The calendar of s is at the hour of standard time in which the day D begins, if *)
(* u hours of it are added to standard time.                                       *)
At(s, D, u) == s \in DayReadings /\ OnDay(s, D) /\ StdHour(s.cal) = 24 * D - u

(* s is a reading of d's day, from its start. *)
Begun(d, s) == At(s, DayNumber(d), d.dst) /\ DayNumber(d) \in Int /\ d.dst \in 0 .. 1

(* A day on from c *)
LEMMA NextDayRead ==
  ASSUME NEW c \in Calendar, NEW resets \in Clocks, "min" \in resets, "hour" \in resets
  PROVE  LET d == add_to_field(c, "mday", 1)
         IN d \in Calendar /\ StdHour(d) = StdHour(c) + 24 /\ Begun(d, ReadUp(d, resets))
<1> DEFINE d == add_to_field(c, "mday", 1)
           w == reset_all_min(d, resets)
<1>1. Settled(d) /\ StdHour(d) = StdHour(c) + 24
  BY Zenon, DayMoved
<1>2. d \in Calendar
  BY Zenon, <1>1 DEF Settled
<1> HIDE DEF d
<1>3. Settled(w) /\ StdHour(w) = 24 * DayNumber(d) - d.dst
  BY Zenon, <1>1, DayStarted DEF Clocks
<1> HIDE DEF w
<1>4. w \in Calendar
  BY Zenon, <1>3 DEF Settled
<1>5. LET s == Read(w, d) IN s \in DayReadings /\ s.cal = w /\ s.mday = d.mday /\ s.wday = Weekday(d)
  BY Zenon, <1>2, <1>4, ReadOf
<1>6. OnDay(Read(w, d), DayNumber(d))
  BY Zenon, <1>2, <1>5 DEF OnDay
<1>7. At(Read(w, d), DayNumber(d), d.dst)
  BY Zenon, <1>3, <1>5, <1>6 DEF At
<1>8. DayNumber(d) \in Int /\ d.dst \in 0 .. 1
  BY Zenon, <1>2, HourRange
<1>9. Begun(d, ReadUp(d, resets))
  BY Zenon, <1>7, <1>8 DEF Begun, ReadUp, w
<1>10. QED
  BY Zenon, <1>1, <1>2, <1>9 DEF d

(* Further on by a day, or on the same day under another rule *)
Onward(D, u, s) ==
  \E F \in Int, v \in 0 .. 1 : At(s, F, v) /\ F \in {D, D + 1} /\ 2 * F - v >= 2 * D - u + 1

(* A step does not skip a day. *)
LEMMA StepOn ==
  ASSUME NEW e, NEW D \in Int, NEW u \in 0 .. 1, NEW s, At(s, D, u), ~DayMatches(e, s),
         NEW resets \in Clocks, "min" \in resets, "hour" \in resets
  PROVE  Onward(D, u, DayAfter(e, s, resets))
<1> DEFINE c == s.cal
           d == add_to_field(c, "mday", 1)
           t == ReadUp(d, resets)
<1>1. c \in Calendar /\ StdHour(c) = 24 * D - u
  <2>1. s \in DayReadings /\ StdHour(c) = 24 * D - u
    BY Zenon DEF At
  <2>2. c \in Calendar
    BY SMT, <2>1 DEF DayReadings
  <2>3. QED
    BY Zenon, <2>1, <2>2
<1>2. DayAfter(e, s, resets) = t
  BY Zenon DEF DayAfter
<1> HIDE DEF c
<1>3. d \in Calendar /\ StdHour(d) = StdHour(c) + 24 /\ Begun(d, t)
  BY Zenon, <1>1, NextDayRead
<1> HIDE DEF d, t
<1>4. DayNumber(d) \in Int /\ d.dst \in 0 .. 1 /\ d.hour \in 0 .. 23
      /\ StdHour(d) = 24 * DayNumber(d) + d.hour - d.dst
  BY Zenon, <1>3, HourRange
<1> DEFINE F == DayNumber(d)
           v == d.dst
           h == d.hour
<1>5. F \in {D, D + 1} /\ 2 * F - v >= 2 * D - u + 1
  <2>1. 24 * F + h - v = 24 * D - u + 24
    BY Zenon, <1>1, <1>3, <1>4
  <2>2. F \in Int /\ v \in 0 .. 1 /\ h \in 0 .. 23
    BY Zenon, <1>4
  <2> HIDE DEF F, v, h
  <2>3. QED
    BY SMT, <2>1, <2>2
<1>6. At(t, F, v)
  BY Zenon, <1>3 DEF Begun
<1>7. QED
  BY Zenon, <1>2, <1>4, <1>5, <1>6 DEF Onward

(* No day from D to before F is one of the expression. *)
Clear(e, D, F) ==
  \A y \in Calendar : D <= DayNumber(y) /\ DayNumber(y) < F => ~DateMatches(e, y)

(* From D, after n steps: at a day of the expression or so many steps further *)
Walked(e, D, u, n, s) ==
  \E F \in Int, v \in 0 .. 1 : /\ At(s, F, v) /\ D <= F /\ Clear(e, D, F)
                               /\ DayMatches(e, s) \/ 2 * F - v >= 2 * D - u + n

(* The walk does not pass a day of the expression. *)
LEMMA WalkOn ==
  ASSUME NEW e, NEW resets \in Clocks, "min" \in resets, "hour" \in resets, NEW n \in Nat,
         NEW D \in Int, NEW u \in 0 .. 1, NEW s, At(s, D, u)
  PROVE  Walked(e, D, u, n, Walk(TRUE, e, resets)[n][s])
<1> DEFINE W == Walk(TRUE, e, resets)
           G(k) == \A E \in Int, v \in 0 .. 1, t \in DayReadings :
                     At(t, E, v) => /\ Walked(e, E, v, k, W[k][t])
                                    /\ DayMatches(e, t) => W[k][t] = t
           T == {k \in Nat : G(k)}
<1>1. /\ \A t \in DayReadings : W[0][t] = t
      /\ \A k \in Nat, t \in DayReadings : W[k + 1][t] = W[k][DayAfter(e, t, resets)]
  BY Zenon, WalkSteps
<1> HIDE DEF W
<1>2. ASSUME NEW k \in Nat, NEW E \in Int, NEW v \in 0 .. 1, NEW t, At(t, E, v),
             DayMatches(e, t) \/ k = 0
      PROVE  Walked(e, E, v, k, t)
  <2>1. E <= E /\ (k = 0 => 2 * E - v >= 2 * E - v + k)
    BY SMT
  <2>2. Clear(e, E, E)
    <3>1. \A y \in Calendar : DayNumber(y) \in Int
      BY Zenon, CalendarFields
    <3>2. \A y \in Calendar : ~(E <= DayNumber(y) /\ DayNumber(y) < E)
      BY SMT, <3>1
    <3>3. QED
      BY Zenon, <3>2 DEF Clear
  <2>3. QED
    BY Zenon, <1>2, <2>1, <2>2 DEF Walked
<1>3. 0 \in T
  <2>1. 0 \in Nat
    BY SMT
  <2>2. ASSUME NEW E \in Int, NEW v \in 0 .. 1, NEW t \in DayReadings, At(t, E, v)
        PROVE  Walked(e, E, v, 0, W[0][t]) /\ W[0][t] = t
    <3>1. W[0][t] = t
      BY Zenon, <1>1
    <3>2. Walked(e, E, v, 0, t)
      BY SMT, <1>2, <2>1, <2>2
    <3>3. QED
      BY Zenon, <3>1, <3>2
  <2>3. QED
    BY Zenon, <2>1, <2>2
<1>4. ASSUME NEW k \in T PROVE k + 1 \in T
  <2>1. k \in Nat /\ k + 1 \in Nat
    BY SMT
  <2>2. G(k)
    BY Zenon
  <2>3. ASSUME NEW E \in Int, NEW v \in 0 .. 1, NEW t \in DayReadings, At(t, E, v)
        PROVE  /\ Walked(e, E, v, k + 1, W[k + 1][t])
               /\ DayMatches(e, t) => W[k + 1][t] = t
    <3> DEFINE z == DayAfter(e, t, resets)
    <3>1. W[k + 1][t] = W[k][z]
      BY Zenon, <1>1, <2>1
    <3>2. CASE DayMatches(e, t)
      <4>1. z = t
        BY Zenon, <3>2 DEF DayAfter
      <4>2. W[k][t] = t
        BY Zenon, <2>2, <2>3, <3>2
      <4>3. Walked(e, E, v, k + 1, t)
        BY Zenon, <1>2, <2>1, <2>3, <3>2
      <4> HIDE DEF z
      <4>4. QED
        BY Zenon, <3>1, <4>1, <4>2, <4>3
    <3>3. CASE ~DayMatches(e, t)
      <4>1. Onward(E, v, z)
        BY Zenon, <2>3, <3>3, StepOn
      <4> HIDE DEF z
      <4>2. PICK F \in Int, q \in 0 .. 1 : At(z, F, q) /\ F \in {E, E + 1} /\ 2 * F - q >= 2 * E - v + 1
        BY Zenon, <4>1 DEF Onward
      <4>3. z \in DayReadings
        BY Zenon, <4>2 DEF At
      <4>4. Walked(e, F, q, k, W[k][z])
        BY Zenon, <2>2, <4>2, <4>3
      <4>5. PICK H \in Int, p \in 0 .. 1 :
              /\ At(W[k][z], H, p) /\ F <= H /\ Clear(e, F, H)
              /\ DayMatches(e, W[k][z]) \/ 2 * H - p >= 2 * F - q + k
        BY Zenon, <4>4 DEF Walked
      <4>6. E <= H
        BY SMT, <4>2, <4>5
      <4>7. 2 * H - p >= 2 * F - q + k => 2 * H - p >= 2 * E - v + (k + 1)
        BY SMT, <2>1, <4>2
      <4>8. Clear(e, E, H)
        <5>1. ASSUME NEW y \in Calendar, E <= DayNumber(y), DayNumber(y) < H PROVE ~DateMatches(e, y)
          <6>1. CASE DayNumber(y) = E
            <7>1. OnDay(t, DayNumber(y))
              BY Zenon, <2>3, <6>1 DEF At
            <7>2. QED
              BY Zenon, <3>3, <7>1, DayRead
          <6>2. CASE DayNumber(y) # E
            <7>1. DayNumber(y) \in Int
              BY Zenon, CalendarFields
            <7>2. F <= DayNumber(y)
              BY SMT, <4>2, <5>1, <6>2, <7>1
            <7>3. QED
              BY Zenon, <4>5, <5>1, <7>2 DEF Clear
          <6>3. QED
            BY Zenon, <6>1, <6>2
        <5>2. QED
          BY Zenon, <5>1 DEF Clear
      <4>9. Walked(e, E, v, k + 1, W[k][z])
        BY Zenon, <4>5, <4>6, <4>7, <4>8 DEF Walked
      <4>10. QED
        BY Zenon, <3>1, <3>3, <4>9
    <3>4. QED
      BY Zenon, <3>2, <3>3
  <2>4. G(k + 1)
    BY Zenon, <2>3
  <2> HIDE DEF G
  <2>5. QED
    BY Zenon, <2>1, <2>4
<1>5. T = Nat
  <2>1. T \in SUBSET Nat
    BY Zenon
  <2> HIDE DEF T
  <2>2. QED
    BY Zenon, <1>3, <1>4, <2>1, Counting
<1>6. s \in DayReadings /\ G(n)
  BY Zenon, <1>5 DEF At
<1>7. QED
  BY Zenon, <1>6 DEF W


(* A day of the expression on which a date is, or soon after it *)
LEMMA DayNear ==
  ASSUME NEW e, Job(e), NEW c \in Calendar
  PROVE  \E y \in Calendar : /\ DateMatches(e, y)
                             /\ DayNumber(y) - DayNumber(c) \in 0 .. 93
                             /\ e.mday = 1 .. 31 => DayNumber(y) - DayNumber(c) \in 0 .. 6
<1>1. DayNumber(c) - DayNumber(c) \in 0 .. 6 /\ (\A k \in 0 .. 6 : k \in 0 .. 93)
      /\ (\A k \in 1 .. 6 : k \in 0 .. 6) /\ (\A k \in 1 .. 93 : k \in 0 .. 93)
  <2>1. DayNumber(c) \in Int
    BY Zenon, CalendarFields
  <2> DEFINE D == DayNumber(c)
  <2> HIDE DEF D
  <2>2. D - D \in 0 .. 6
    BY SMT, <2>1 DEF D
  <2>3. QED
    BY SMT, <2>2 DEF D
<1>2. CASE DateMatches(e, c)
  BY Zenon, <1>1, <1>2
<1>3. CASE ~DateMatches(e, c)
  BY Zenon, <1>1, <1>3, DayExists DEF OnAfter
<1>4. QED
  BY Zenon, <1>2, <1>3

(* find_next_day keeps a day of the expression. *)
LEMMA DayKept ==
  ASSUME NEW e, NEW c \in Calendar, DateMatches(e, c), NEW resets
  PROVE  find_next_day(e, c, resets) = FirstReading(c)
<1> DEFINE W == Walk(TRUE, e, resets)
           s == FirstReading(c)
<1>1. s \in DayReadings /\ s.mday = c.mday /\ s.wday = Weekday(c)
  BY Zenon, ReadOf DEF FirstReading
<1>2. DayMatches(e, s)
  BY Zenon, <1>1 DEF DayMatches, DateMatches
<1>3. /\ \A t \in DayReadings : W[0][t] = t
      /\ \A k \in Nat, t \in DayReadings : W[k + 1][t] = W[k][DayAfter(e, t, resets)]
  BY Zenon, WalkSteps
<1>4. DayAfter(e, s, resets) = s
  BY Zenon, <1>2 DEF DayAfter
<1> HIDE DEF W, s
<1> DEFINE T == {k \in Nat : W[k][s] = s}
<1>5. 0 \in T
  <2>1. 0 \in Nat
    BY SMT
  <2>2. QED
    BY Zenon, <1>1, <1>3, <2>1
<1>6. ASSUME NEW k \in T PROVE k + 1 \in T
  <2>1. k + 1 \in Nat
    BY SMT
  <2>2. QED
    BY Zenon, <1>1, <1>3, <1>4, <2>1
<1>7. T = Nat
  <2>1. T \in SUBSET Nat
    BY Zenon
  <2> HIDE DEF T
  <2>2. QED
    BY Zenon, <1>5, <1>6, <2>1, Counting
<1>8. DaySteps \in Nat
  BY SMT DEF DaySteps
<1>9. W[DaySteps][s] = s
  BY Zenon, <1>7, <1>8
<1>10. QED
  BY Zenon, <1>9 DEF find_next_day, W, s

(* The steps after the first *)
MoreSteps == 365

(* The walk from another day is one from the day after it. *)
LEMMA WalkFrom ==
  ASSUME NEW e, NEW c \in Calendar, ~DateMatches(e, c), NEW resets
  PROVE  LET s == ReadUp(add_to_field(c, "mday", 1), resets)
         IN s \in DayReadings /\ find_next_day(e, c, resets) = Walk(TRUE, e, resets)[MoreSteps][s]
<1> DEFINE W == Walk(TRUE, e, resets)
           r == FirstReading(c)
           s == ReadUp(add_to_field(c, "mday", 1), resets)
<1>1. r \in DayReadings /\ r.cal = c /\ r.mday = c.mday /\ r.wday = Weekday(c)
  BY Zenon, ReadOf DEF FirstReading
<1>2. ~DayMatches(e, r)
  BY Zenon, <1>1 DEF DayMatches, DateMatches
<1>3. DayAfter(e, r, resets) = s
  BY Zenon, <1>1, <1>2 DEF DayAfter
<1>4. s \in DayReadings
  BY Zenon, <1>1, <1>3, DayAfterRead
<1>5. \A k \in Nat, t \in DayReadings : W[k + 1][t] = W[k][DayAfter(e, t, resets)]
  BY Zenon, WalkSteps
<1>6. MoreSteps \in Nat /\ MoreSteps + 1 = DaySteps
  BY SMT DEF DaySteps, MoreSteps
<1>7. find_next_day(e, c, resets) = W[DaySteps][r]
  BY Zenon DEF find_next_day
<1> HIDE DEF W, r, s
<1>8. W[MoreSteps + 1][r] = W[MoreSteps][s]
  BY SMT, <1>1, <1>3, <1>5, <1>6
<1>9. find_next_day(e, c, resets) = W[MoreSteps][s]
  BY Zenon, <1>6, <1>7, <1>8
<1>10. QED
  BY Zenon, <1>4, <1>9 DEF W, s

(* find_next_day keeps the day or moves to another day of the month, and to a date. *)
LEMMA DayMoves ==
  ASSUME NEW e, Job(e), NEW c \in Calendar, ~DateMatches(e, c),
         NEW resets \in Clocks, "min" \in resets, "hour" \in resets
  PROVE  LET r == find_next_day(e, c, resets) IN r.cal \in Calendar /\ r.mday # c.mday
<1> DEFINE d == add_to_field(c, "mday", 1)
           s == ReadUp(d, resets)
           r == find_next_day(e, c, resets)
           B == DayNumber(c)
           D == DayNumber(d)
           u == d.dst
<1>1. r = Walk(TRUE, e, resets)[MoreSteps][s]
  BY Zenon, WalkFrom
<1>2. d \in Calendar /\ StdHour(d) = StdHour(c) + 24 /\ Begun(d, s)
  BY Zenon, NextDayRead
<1> HIDE DEF r, s, d
<1>3. B \in Int /\ D \in Int /\ u \in 0 .. 1 /\ At(s, D, u) /\ B <= D /\ D <= B + 2
  <2> DEFINE h == d.hour
             i == c.hour
             v == c.dst
  <2>1. /\ D \in Int /\ u \in 0 .. 1 /\ h \in 0 .. 23
        /\ StdHour(d) = 24 * D + h - u
    BY Zenon, <1>2, HourRange
  <2>2. /\ B \in Int /\ v \in 0 .. 1 /\ i \in 0 .. 23
        /\ StdHour(c) = 24 * B + i - v
    BY Zenon, HourRange
  <2>3. 24 * D + h - u = 24 * B + i - v + 24
    BY Zenon, <1>2, <2>1, <2>2
  <2> HIDE DEF B, D, u, h, i, v
  <2>4. B <= D /\ D <= B + 2
    BY SMT, <2>1, <2>2, <2>3
  <2>5. At(s, D, u)
    BY Zenon, <1>2 DEF Begun, D, u
  <2>6. QED
    BY Zenon, <2>1, <2>2, <2>4, <2>5
<1>4. Walked(e, D, u, MoreSteps, r)
  <2> HIDE DEF D, u, B
  <2>1. MoreSteps \in Nat
    BY SMT DEF MoreSteps
  <2>2. Walked(e, D, u, MoreSteps, Walk(TRUE, e, resets)[MoreSteps][s])
    BY Zenon, <1>3, <2>1, WalkOn
  <2>3. QED
    BY Zenon, <1>1, <2>2
<1>5. PICK F \in Int, v \in 0 .. 1 : /\ At(r, F, v) /\ D <= F /\ Clear(e, D, F)
                                     /\ DayMatches(e, r) \/ 2 * F - v >= 2 * D - u + MoreSteps
  BY Zenon, <1>4 DEF Walked
<1>6. PICK y \in Calendar : /\ DateMatches(e, y)
                            /\ DayNumber(y) - D \in 0 .. 93
                            /\ e.mday = 1 .. 31 => DayNumber(y) - D \in 0 .. 6
  BY Zenon, <1>2, DayNear
<1> DEFINE Y == DayNumber(y)
<1>7. Y \in Int
  BY Zenon, CalendarFields
<1>8. F <= Y
  <2>1. ~(D <= Y /\ Y < F)
    BY Zenon, <1>5, <1>6 DEF Clear
  <2>2. Y - D \in 0 .. 93
    BY Zenon, <1>6
  <2> HIDE DEF Y, D
  <2>3. QED
    BY SMT, <1>3, <1>7, <2>1, <2>2
<1>9. DayMatches(e, r)
  <2>1. Y - D \in 0 .. 93
    BY Zenon, <1>6
  <2> HIDE DEF Y, D, u
  <2>2. ~(2 * F - v >= 2 * D - u + MoreSteps)
    BY SMT, <1>3, <1>7, <1>8, <2>1 DEF MoreSteps
  <2>3. QED
    BY Zenon, <1>5, <2>2
<1>10. PICK z \in Calendar : DayNumber(z) = F /\ r.mday = z.mday /\ r.wday = Weekday(z)
  BY Zenon, <1>5 DEF At, OnDay
<1>11. DateMatches(e, z)
  BY Zenon, <1>9, <1>10 DEF DayMatches, DateMatches
<1>12. F # B
  <2>1. ASSUME F = B PROVE FALSE
    <3>1. DayNumber(z) = DayNumber(c)
      BY Zenon, <1>10, <2>1
    <3>2. z.mday = c.mday
      BY Zenon, <3>1, SameDay
    <3>3. Weekday(z) = Weekday(c)
      BY Zenon, <3>1 DEF Weekday
    <3>4. QED
      BY Zenon, <1>11, <3>2, <3>3 DEF DateMatches
  <2>2. QED
    BY Zenon, <2>1
<1>13. B < F
  <2>1. D <= F
    BY Zenon, <1>5
  <2> HIDE DEF B, D
  <2>2. QED
    BY SMT, <1>3, <1>12, <2>1
<1>14. z.mday # c.mday
  <2>1. CASE e.mday = 1 .. 31
    <3>1. Y - D \in 0 .. 6
      BY Zenon, <1>6, <2>1
    <3>2. ASSUME z.mday = c.mday PROVE B + 28 <= F
      <4>1. DayNumber(c) < DayNumber(z)
        BY Zenon, <1>10, <1>13
      <4>2. DayNumber(c) + 28 <= DayNumber(z)
        BY Zenon, <3>2, <4>1, SameDayOfMonth
      <4>3. QED
        BY Zenon, <1>10, <4>2
    <3> HIDE DEF B, D, Y
    <3>3. ~(B + 28 <= F)
      BY SMT, <1>3, <1>7, <1>8, <3>1
    <3>4. QED
      BY Zenon, <3>2, <3>3
  <2>2. CASE e.mday # 1 .. 31
    <3>1. e.wday = 0 .. 6
      BY Zenon, <2>2 DEF Job
    <3>2. Weekday(c) \in 0 .. 6
      BY Zenon, WeekdayRange
    <3>3. c.mday \notin e.mday
      BY Zenon, <3>1, <3>2 DEF DateMatches
    <3>4. QED
      BY Zenon, <1>11, <3>3 DEF DateMatches
  <2>3. QED
    BY Zenon, <2>1, <2>2
<1>15. r.cal \in Calendar
  <2>1. r \in DayReadings
    BY Zenon, <1>5 DEF At
  <2>2. QED
    BY SMT, <2>1 DEF DayReadings
<1>16. QED
  BY Zenon, <1>10, <1>14, <1>15 DEF r

(* What the visit of the day makes of a date: it is kept, and its day is one of the *)
(* expression, or it is another date.                                                *)
LEMMA DayAny ==
  ASSUME NEW e, Job(e), NEW c \in Calendar, NEW resets,
         DateMatches(e, c) \/ (resets \in Clocks /\ "min" \in resets /\ "hour" \in resets)
  PROVE  LET r == Reached(find_next_day(e, c, resets))
         IN /\ r.value = c.mday => r.cal = c /\ DateMatches(e, c)
            /\ r.value # c.mday => r.cal \in Calendar
            /\ DateMatches(e, c) => r.value = c.mday
<1> DEFINE s == find_next_day(e, c, resets)
<1>1. Reached(s).value = s.mday /\ Reached(s).cal = s.cal
  BY Zenon DEF Reached
<1>2. CASE DateMatches(e, c)
  <2>1. s = FirstReading(c)
    BY Zenon, <1>2, DayKept
  <2>2. s.mday = c.mday /\ s.cal = c
    <3>1. LET t == Read(c, c) IN t \in DayReadings /\ t.cal = c /\ t.mday = c.mday /\ t.wday = Weekday(c)
      BY Zenon, ReadOf
    <3>2. s = Read(c, c)
      BY Zenon, <2>1 DEF FirstReading
    <3> HIDE DEF s
    <3>3. QED
      BY Zenon, <3>1, <3>2
  <2> HIDE DEF s
  <2>3. QED
    BY Zenon, <1>1, <1>2, <2>2 DEF s
<1>3. CASE ~DateMatches(e, c)
  <2>1. s.cal \in Calendar /\ s.mday # c.mday
    BY Zenon, <1>3, DayMoves
  <2> HIDE DEF s
  <2>2. QED
    BY Zenon, <1>1, <1>3, <2>1 DEF s
<1>4. QED
  BY Zenon, <1>2, <1>3

(***************************************************************************)
(* The walk in a time without a change of the clock                         *)
(***************************************************************************)

(* The calendar of s is at the start of the day read, after the day B and not after *)
(* that of x, with the second reset or k.                                            *)
Upon(a, x, resets, B, k, s) ==
  /\ s \in DayReadings /\ Steady(a, x, s.cal) /\ OnDay(s, DayNumber(s.cal))
  /\ B < DayNumber(s.cal) /\ DayNumber(s.cal) <= DayNumber(x)
  /\ s.cal.hour = 0 /\ s.cal.min = 0
  /\ ("sec" \in resets => s.cal.sec = 0) /\ ("sec" \notin resets => s.cal.sec = k)

(* A day on from a day before that of x *)
LEMMA UponNext ==
  ASSUME NEW a, NEW x, Calm(a, x), NEW c, Steady(a, x, c), DayNumber(c) < DayNumber(x),
         NEW resets \in Clocks, "min" \in resets, "hour" \in resets
  PROVE  Upon(a, x, resets, DayNumber(c), c.sec, ReadUp(add_to_field(c, "mday", 1), resets))
<1> DEFINE d == add_to_field(c, "mday", 1)
           w == reset_all_min(d, resets)
           s == Read(w, d)
<1>1. c \in Calendar /\ x \in Calendar
  BY Zenon DEF Steady, Calm
<1>2. DayNumber(c) \in Int /\ DayNumber(x) \in Int
  BY Zenon, <1>1, CalendarFields
<1>3. DayNumber(c) <= DayNumber(x) /\ DayNumber(c) < DayNumber(c) + 1 /\ DayNumber(c) + 1 <= DayNumber(x)
  <2> DEFINE C == DayNumber(c)
             X == DayNumber(x)
  <2> HIDE DEF C, X
  <2>1. C \in Int /\ X \in Int /\ C < X
    BY Zenon, <1>2 DEF C, X
  <2>2. C <= X /\ C < C + 1 /\ C + 1 <= X
    BY SMT, <2>1
  <2>3. QED
    BY Zenon, <2>2 DEF C, X
<1>4. Steady(a, x, d) /\ DayNumber(d) = DayNumber(c) + 1
      /\ d.hour = c.hour /\ d.min = c.min /\ d.sec = c.sec
  BY Zenon, <1>3, SteadyNextDay
<1> HIDE DEF d
<1>5. Steady(a, x, w) /\ ResetIn(d, w, resets)
  BY Zenon, <1>4, SteadyReset DEF Clocks
<1> HIDE DEF w
<1>6. /\ w.year = d.year /\ w.mon = d.mon /\ w.mday = d.mday
      /\ w.hour = 0 /\ w.min = 0
      /\ ("sec" \in resets => w.sec = 0) /\ ("sec" \notin resets => w.sec = d.sec)
  BY Zenon, <1>5 DEF ResetIn
<1>7. w \in Calendar /\ d \in Calendar
  BY Zenon, <1>4, <1>5 DEF Steady
<1>8. DayNumber(d) = DayNumber(w)
  BY Zenon, <1>6, <1>7, CalendarFields, SameUnits
<1>9. s \in DayReadings /\ s.cal = w /\ s.mday = d.mday /\ s.wday = Weekday(d)
  BY Zenon, <1>7, ReadOf
<1> HIDE DEF s
<1>10. OnDay(s, DayNumber(w))
  BY Zenon, <1>7, <1>8, <1>9 DEF OnDay
<1>11. DayNumber(c) < DayNumber(w) /\ DayNumber(w) <= DayNumber(x)
  BY Zenon, <1>3, <1>4, <1>8
<1>12. Upon(a, x, resets, DayNumber(c), c.sec, s)
  BY Zenon, <1>4, <1>5, <1>6, <1>9, <1>10, <1>11 DEF Upon
<1>13. QED
  BY Zenon, <1>12 DEF s, w, d, ReadUp

(* So does every step until the day of x. *)
LEMMA UponStep ==
  ASSUME NEW e, NEW a, NEW x, Calm(a, x), DateMatches(e, x), NEW B \in Int, NEW k,
         NEW resets \in Clocks, "min" \in resets, "hour" \in resets,
         NEW s, Upon(a, x, resets, B, k, s)
  PROVE  Upon(a, x, resets, B, k, DayAfter(e, s, resets))
<1> DEFINE c == s.cal
           t == ReadUp(add_to_field(c, "mday", 1), resets)
<1>1. /\ s \in DayReadings /\ Steady(a, x, c) /\ OnDay(s, DayNumber(c))
      /\ B < DayNumber(c) /\ DayNumber(c) <= DayNumber(x)
      /\ ("sec" \in resets => c.sec = 0) /\ ("sec" \notin resets => c.sec = k)
  BY Zenon DEF Upon
<1>2. CASE DayMatches(e, s)
  BY Zenon, <1>2 DEF DayAfter
<1>3. CASE ~DayMatches(e, s)
  <2>1. DayAfter(e, s, resets) = t
    BY Zenon, <1>3 DEF DayAfter
  <2>2. x \in Calendar /\ c \in Calendar
    BY Zenon, <1>1 DEF Calm, Steady
  <2> HIDE DEF c
  <2>3. DayNumber(c) # DayNumber(x)
    <3>1. ASSUME DayNumber(c) = DayNumber(x) PROVE FALSE
      <4>1. OnDay(s, DayNumber(x))
        BY Zenon, <1>1, <3>1
      <4>2. QED
        BY Zenon, <1>3, <2>2, <4>1, DayRead
    <3>2. QED
      BY Zenon, <3>1
  <2>4. DayNumber(c) \in Int /\ DayNumber(x) \in Int
    BY Zenon, <2>2, CalendarFields
  <2>5. DayNumber(c) < DayNumber(x)
    BY SMT, <1>1, <2>3, <2>4
  <2>6. Upon(a, x, resets, DayNumber(c), c.sec, t)
    BY Zenon, <1>1, <2>5, UponNext
  <2> HIDE DEF t
  <2>7. DayNumber(t.cal) \in Int
    BY Zenon, <2>6, CalendarFields DEF Upon, Steady
  <2>8. DayNumber(c) < DayNumber(t.cal)
    BY Zenon, <2>6 DEF Upon
  <2>9. B < DayNumber(t.cal)
    BY SMT, <1>1, <2>4, <2>7, <2>8
  <2>10. Upon(a, x, resets, B, k, t)
    BY Zenon, <1>1, <2>6, <2>9 DEF Upon
  <2>11. QED
    BY Zenon, <2>1, <2>10
<1>4. QED
  BY Zenon, <1>2, <1>3

(* In a time without a change of the clock find_next_day ends at the start of a day *)
(* after c's and not after x's, if x's is one of the expression.                     *)
LEMMA DaySteady ==
  ASSUME NEW e, NEW a, NEW x, Calm(a, x), DateMatches(e, x),
         NEW c, Steady(a, x, c), DayNumber(c) <= DayNumber(x), ~DateMatches(e, c),
         NEW resets \in Clocks, "min" \in resets, "hour" \in resets
  PROVE  Upon(a, x, resets, DayNumber(c), c.sec, find_next_day(e, c, resets))
<1> DEFINE W == Walk(TRUE, e, resets)
           s == ReadUp(add_to_field(c, "mday", 1), resets)
           B == DayNumber(c)
           k == c.sec
           T == {n \in Nat : \A t \in DayReadings : Upon(a, x, resets, B, k, t)
                                                    => Upon(a, x, resets, B, k, W[n][t])}
<1>1. c \in Calendar /\ x \in Calendar
  BY Zenon DEF Calm, Steady
<1>2. s \in DayReadings /\ find_next_day(e, c, resets) = W[MoreSteps][s]
  BY Zenon, <1>1, WalkFrom
<1>3. B \in Int
  BY Zenon, <1>1, CalendarFields
<1>4. DayNumber(c) < DayNumber(x)
  <2>1. ASSUME DayNumber(c) = DayNumber(x) PROVE FALSE
    <3>1. c.mday = x.mday
      BY Zenon, <1>1, <2>1, SameDay
    <3>2. Weekday(c) = Weekday(x)
      BY Zenon, <2>1 DEF Weekday
    <3>3. QED
      BY Zenon, <3>1, <3>2 DEF DateMatches
  <2>2. DayNumber(x) \in Int /\ DayNumber(c) \in Int
    BY Zenon, <1>1, CalendarFields
  <2>3. QED
    BY SMT, <2>1, <2>2
<1>5. Upon(a, x, resets, B, k, s)
  BY Zenon, <1>4, UponNext
<1>6. /\ \A t \in DayReadings : W[0][t] = t
      /\ \A n \in Nat, t \in DayReadings : W[n + 1][t] = W[n][DayAfter(e, t, resets)]
  BY Zenon, WalkSteps
<1> HIDE DEF W, s, B, k
<1>7. 0 \in T
  <2>1. 0 \in Nat
    BY SMT
  <2>2. QED
    BY Zenon, <1>6, <2>1
<1>8. ASSUME NEW n \in T PROVE n + 1 \in T
  <2>1. n \in Nat /\ n + 1 \in Nat
    BY SMT
  <2>2. ASSUME NEW t \in DayReadings, Upon(a, x, resets, B, k, t)
        PROVE  Upon(a, x, resets, B, k, W[n + 1][t])
    <3>1. Upon(a, x, resets, B, k, DayAfter(e, t, resets))
      BY Zenon, <1>3, <2>2, UponStep
    <3>2. DayAfter(e, t, resets) \in DayReadings
      BY Zenon, <3>1 DEF Upon
    <3>3. Upon(a, x, resets, B, k, W[n][DayAfter(e, t, resets)])
      BY Zenon, <3>1, <3>2
    <3>4. W[n + 1][t] = W[n][DayAfter(e, t, resets)]
      BY Zenon, <1>6, <2>1
    <3>5. QED
      BY Zenon, <3>3, <3>4
  <2>3. QED
    BY Zenon, <2>1, <2>2
<1>9. T = Nat
  <2>1. T \in SUBSET Nat
    BY Zenon
  <2> HIDE DEF T
  <2>2. QED
    BY Zenon, <1>7, <1>8, <2>1, Counting
<1>10. MoreSteps \in Nat
  BY SMT DEF MoreSteps
<1>11. Upon(a, x, resets, B, k, W[MoreSteps][s])
  BY Zenon, <1>2, <1>5, <1>9, <1>10
<1>12. QED
  BY Zenon, <1>2, <1>11 DEF B, k


(***************************************************************************)
(* A call of do_next, visit by visit                                        *)
(***************************************************************************)
FieldsVisited == {"sec", "min", "hour", "mday", "mon"}
Results  == [ok : BOOLEAN, cal : Calendar, resets : SUBSET FieldsVisited]

(* The way of do_next *)
SearchUp(e, k, c, resets)  == Search(TRUE, e, k, c, resets)
VisitUp(e, dot, deep, k, p) == Visit(TRUE, e, dot, deep, k, p)

(* The search of each field *)
LEMMA SearchesUp ==
  ASSUME NEW e, NEW c, NEW resets
  PROVE  /\ SearchUp(e, 1, c, resets) = find_next(e.sec, 1, c, resets)
         /\ SearchUp(e, 2, c, resets) = find_next(e.min, 2, c, resets)
         /\ SearchUp(e, 3, c, resets) = find_next(e.hour, 3, c, resets)
         /\ SearchUp(e, 4, c, resets) = Reached(find_next_day(e, c, resets))
         /\ SearchUp(e, 5, c, resets) = find_next(e.mon, 5, c, resets)
BY Zenon, FieldNames DEF Search, SearchUp

(* A visit at a field f keeps its value, or moves it: the seconds simply, another *)
(* field by a call of its own, unless the search is stuck.                         *)
Kept(p, s, f, q)     == q = Stand(TRUE, s.cal, p.resets \cup {f})
Moved(p, s, q)       == q = Stand(TRUE, s.cal, p.resets)
Stopped(p, q)        == q = Stand(FALSE, p.cal, p.resets)
Asked(p, s, deep, q) == q = Stand(deep[s.cal].ok, deep[s.cal].cal, p.resets)

(* What a visit makes of a search *)
LEMMA OutcomeCases ==
  ASSUME NEW dot, NEW deep, NEW f, NEW p, NEW s
  PROVE  LET q == Outcome(TRUE, dot, deep, f, p, s)
         IN /\ s.value = p.cal[f] => Kept(p, s, f, q)
            /\ s.value # p.cal[f] /\ f = "sec" => Moved(p, s, q)
            /\ s.value # p.cal[f] /\ f # "sec" => Stopped(p, q) \/ Asked(p, s, deep, q)
BY Zenon DEF Outcome, Kept, Moved, Stopped, Asked, push_to_fields_arr

(* A visit at a field, while the search goes on *)
LEMMA Visited ==
  ASSUME NEW e, NEW dot, NEW deep, NEW k, NEW p, p.ok, NEW f, f = Fields[k].f,
         NEW s, s = SearchUp(e, k, p.cal, p.resets), NEW q, q = VisitUp(e, dot, deep, k, p)
  PROVE  /\ s.value = p.cal[f] => Kept(p, s, f, q)
         /\ s.value # p.cal[f] /\ f = "sec" => Moved(p, s, q)
         /\ s.value # p.cal[f] /\ f # "sec" => Stopped(p, q) \/ Asked(p, s, deep, q)
<1>1. q = Outcome(TRUE, dot, deep, f, p, s)
  BY Zenon DEF Visit, VisitUp, SearchUp
<1>2. QED
  BY Zenon, <1>1, OutcomeCases

(* Once it has failed, the fields that are left are passed over. *)
LEMMA NotVisited ==
  ASSUME NEW e, NEW dot, NEW deep, NEW k, NEW p, ~p.ok
  PROVE  VisitUp(e, dot, deep, k, p) = p
BY Zenon DEF Visit, VisitUp

(* The fields above the seconds *)
RestDay(e, c)  == DateMatches(e, c) /\ c.mon \in e.mon
RestHour(e, c) == c.hour \in e.hour /\ RestDay(e, c)
Rest(e, c)     == c.min \in e.min /\ RestHour(e, c)

(* Two dates of one minute differ in the seconds alone. *)
LEMMA SameMinute ==
  ASSUME NEW c \in Calendar, NEW d \in Calendar, MinuteNo(c) = MinuteNo(d), NEW e, Rest(e, c)
  PROVE  Rest(e, d)
<1> DEFINE cd == DayNumber(c)
           ch == HourNo(c)
           cm == MinuteNo(c)
           dd == DayNumber(d)
           dh == HourNo(d)
           dm == MinuteNo(d)
           h == c.hour
           m == c.min
           x == d.hour
           y == d.min
<1>1. /\ cd \in Int /\ ch \in Int /\ cm \in Int /\ dd \in Int /\ dh \in Int /\ dm \in Int
      /\ ch = 24 * cd + h /\ cm = 60 * ch + m
      /\ dh = 24 * dd + x /\ dm = 60 * dh + y
      /\ h \in 0 .. 23 /\ m \in 0 .. 59 /\ x \in 0 .. 23 /\ y \in 0 .. 59
      /\ cm = dm
  BY Zenon, Units
<1>2. ch = dh /\ m = y /\ cd = dd /\ h = x
  <2> HIDE DEF cd, ch, cm, dd, dh, dm, h, m, x, y
  <2>1. ~(ch < dh) /\ ~(dh < ch)
    BY SMT, <1>1
  <2>2. ch = dh /\ m = y
    BY SMT, <1>1, <2>1
  <2>3. ~(cd < dd) /\ ~(dd < cd)
    BY SMT, <1>1, <2>2
  <2>4. cd = dd /\ h = x
    BY SMT, <1>1, <2>2, <2>3
  <2>5. QED
    BY Zenon, <2>2, <2>4
<1>3. c.year = d.year /\ c.mon = d.mon /\ c.mday = d.mday
  BY Zenon, <1>2, SameDay
<1>4. QED
  BY Zenon, <1>2, <1>3 DEF Rest, RestHour, RestDay, DateMatches, Weekday

(* From the date a to the firing x no month is left out, and no clock is changed. *)
Span(e, a, x) == Calm(a, x) /\ InExpr(e, x) /\ e.mon = 0 .. 11

(* c is a date of that time. *)
Within(a, x, c) ==
  c \in Calendar /\ c.dst = x.dst /\ Stamp(a) <= Stamp(c) /\ Stamp(c) <= Stamp(x)

(* The second of c is a value of its set, is the first of the minute or of the set, *)
(* or needs no other field to move.                                                  *)
SecFits(e, c) ==
  \/ c.sec \in e.sec
  \/ c.sec = 0
  \/ \E s \in e.sec : \A t \in e.sec : t = s
  \/ Rest(e, c)

(* Then the search from c gets no further than x. *)
Exactly(e, a, x, c) == Span(e, a, x) /\ Within(a, x, c) /\ SecFits(e, c)

(* What a call promises *)
Answers(e, a, x, c, r) ==
  r.ok => InExpr(e, r.cal) /\ (Exactly(e, a, x, c) => Within(a, x, r.cal))

Good(e, a, x) == {g \in [Calendar -> Results] : \A c \in Calendar : Answers(e, a, x, c, g[c])}

(* A search from c has come to p. *)
Along(e, a, x, c, p) ==
  /\ p \in Results
  /\ p.ok /\ Exactly(e, a, x, c) => Within(a, x, p.cal)

Low(e, p) == "sec" \in p.resets \/ \A s \in e.sec : p.cal.sec <= s

AfterSec(e, a, x, c, p) ==
  /\ Along(e, a, x, c, p) /\ p.resets \in SUBSET {"sec"}
  /\ p.ok => /\ p.cal.sec \in e.sec
             /\ Exactly(e, a, x, c) => Low(e, p) \/ Rest(e, p.cal)

AfterMin(e, a, x, c, p) ==
  /\ Along(e, a, x, c, p) /\ p.resets \in SUBSET {"sec", "min"}
  /\ p.ok => /\ p.cal.sec \in e.sec /\ p.cal.min \in e.min
             /\ \/ RestHour(e, p.cal)
                \/ "min" \in p.resets /\ (Exactly(e, a, x, c) => Low(e, p))

AfterHour(e, a, x, c, p) ==
  /\ Along(e, a, x, c, p) /\ p.resets \in Clocks
  /\ p.ok => /\ p.cal.sec \in e.sec /\ p.cal.min \in e.min /\ p.cal.hour \in e.hour
             /\ \/ RestDay(e, p.cal)
                \/ "min" \in p.resets /\ "hour" \in p.resets /\ (Exactly(e, a, x, c) => Low(e, p))

AfterDay(e, a, x, c, p) ==
  /\ Along(e, a, x, c, p)
  /\ p.ok => /\ p.cal.sec \in e.sec /\ p.cal.min \in e.min /\ p.cal.hour \in e.hour
             /\ DateMatches(e, p.cal)

(* An expression allows a date by its second and by the rest. *)
LEMMA InExprParts ==
  ASSUME NEW e, NEW c
  PROVE  InExpr(e, c) <=> c.sec \in e.sec /\ Rest(e, c)
BY Zenon DEF InExpr, DayInExpr, Rest, RestHour, RestDay, DateMatches

(* A field that is kept is one more to reset by those after it. *)
LEMMA WhenKept ==
  ASSUME NEW e, NEW a, NEW x, NEW c \in Calendar, NEW p, Along(e, a, x, c, p), p.ok, NEW f \in FieldsVisited, NEW s, s.cal = p.cal,
         NEW q, Kept(p, s, f, q)
  PROVE  Along(e, a, x, c, q) /\ q.ok /\ q.cal = p.cal /\ q.resets = p.resets \cup {f}
<1>1. p.cal \in Calendar /\ p.resets \in SUBSET FieldsVisited
  BY SMT DEF Along, Results
<1>2. q.ok = TRUE /\ q.cal = p.cal /\ q.resets = p.resets \cup {f} /\ q \in Results
  <2> DEFINE k == p.cal
             b == p.resets \cup {f}
  <2>1. q = Stand(TRUE, k, b) /\ k \in Calendar /\ b \in SUBSET FieldsVisited
    BY Zenon, <1>1 DEF Kept
  <2> HIDE DEF k, b
  <2>2. q.ok = TRUE /\ q.cal = k /\ q.resets = b /\ q \in Results
    BY SMT, <2>1 DEF Stand, Results
  <2>3. QED
    BY Zenon, <2>2 DEF k, b
<1>3. QED
  BY Zenon, <1>2 DEF Along

(* A stuck search stays where it is. *)
LEMMA WhenStopped ==
  ASSUME NEW e, NEW a, NEW x, NEW c \in Calendar, NEW p, Along(e, a, x, c, p), NEW q, Stopped(p, q)
  PROVE  Along(e, a, x, c, q) /\ ~q.ok /\ q.resets = p.resets
<1>1. p.cal \in Calendar /\ p.resets \in SUBSET FieldsVisited
  BY SMT DEF Along, Results
<1>2. q.ok = FALSE /\ q.resets = p.resets /\ q \in Results
  <2> DEFINE k == p.cal
             b == p.resets
  <2>1. q = Stand(FALSE, k, b) /\ k \in Calendar /\ b \in SUBSET FieldsVisited
    BY Zenon, <1>1 DEF Stopped
  <2> HIDE DEF k, b
  <2>2. q.ok = FALSE /\ q.cal = k /\ q.resets = b /\ q \in Results
    BY SMT, <2>1 DEF Stand, Results
  <2>3. QED
    BY Zenon, <2>2 DEF k, b
<1>3. QED
  BY Zenon, <1>2 DEF Along

(* A deeper call goes on from another date, with what it promises. *)
LEMMA WhenAsked ==
  ASSUME NEW e, NEW a, NEW x, NEW c \in Calendar, NEW p, Along(e, a, x, c, p), p.ok,
         NEW deep \in Good(e, a, x), NEW s, s.cal \in Calendar,
         Exactly(e, a, x, c) => Exactly(e, a, x, s.cal),
         NEW q, Asked(p, s, deep, q)
  PROVE  Along(e, a, x, c, q) /\ (q.ok => InExpr(e, q.cal)) /\ q.resets = p.resets
<1> DEFINE d == s.cal
           r == deep[d]
<1>1. p.resets \in SUBSET FieldsVisited
  BY SMT DEF Along, Results
<1>2. r \in Results /\ Answers(e, a, x, d, r)
  BY Zenon DEF Good
<1>3. r.ok \in BOOLEAN /\ r.cal \in Calendar
  BY SMT, <1>2 DEF Results
<1>4. q.ok = r.ok /\ q.cal = r.cal /\ q.resets = p.resets /\ q \in Results
  <2> DEFINE o == r.ok
             k == r.cal
             b == p.resets
  <2>1. q = Stand(o, k, b) /\ o \in BOOLEAN /\ k \in Calendar /\ b \in SUBSET FieldsVisited
    BY Zenon, <1>1, <1>3 DEF Asked
  <2> HIDE DEF o, k, b
  <2>2. q.ok = o /\ q.cal = k /\ q.resets = b /\ q \in Results
    BY SMT, <2>1 DEF Stand, Results
  <2>3. QED
    BY Zenon, <2>2 DEF o, k, b
<1>5. Exactly(e, a, x, c) => Exactly(e, a, x, d)
  BY Zenon DEF d
<1> HIDE DEF d, r
<1>6. QED
  BY Zenon, <1>2, <1>4, <1>5 DEF Along, Answers

(* A search starts at the date it is asked at. *)
LEMMA StartedAlong ==
  ASSUME NEW e, NEW a, NEW x, NEW c \in Calendar
  PROVE  LET p == Started(c)
         IN Along(e, a, x, c, p) /\ p.ok /\ p.cal = c /\ p.resets = {}
<1> DEFINE p == Started(c)
<1>1. p \in Results /\ p.ok = TRUE /\ p.cal = c /\ p.resets = {}
  BY SMT DEF Started, Stand, Results
<1> HIDE DEF p
<1>2. Along(e, a, x, c, p)
  BY Zenon, <1>1 DEF Along, Exactly
<1>3. QED
  BY Zenon, <1>1, <1>2 DEF p

(* Dates up to x without a change of the clock *)
LEMMA WithinSteady ==
  ASSUME NEW a, NEW x, Calm(a, x), NEW c, Within(a, x, c)
  PROVE  Steady(a, x, c) /\ DayNumber(c) <= DayNumber(x) /\ c \in Calendar /\ x \in Calendar
<1>1. a \in Calendar /\ x \in Calendar /\ c \in Calendar /\ c.dst = x.dst
      /\ Stamp(a) <= Stamp(c) /\ Stamp(c) <= Stamp(x)
  BY Zenon DEF Within, Calm
<1>2. DayNumber(a) <= DayNumber(c) /\ DayNumber(c) <= DayNumber(x)
  BY Zenon, <1>1, UnitOrder
<1>3. DayNumber(c) <= DayNumber(x) + 1
  <2>1. DayNumber(c) \in Int /\ DayNumber(x) \in Int
    BY Zenon, <1>1, CalendarFields
  <2>2. QED
    BY SMT, <1>2, <2>1
<1>4. QED
  BY Zenon, <1>1, <1>2, <1>3 DEF Steady

(* A later one that is not after x *)
LEMMA WithinLater ==
  ASSUME NEW a, NEW x, Calm(a, x), NEW c, Within(a, x, c), NEW d, Steady(a, x, d),
         Stamp(c) < Stamp(d), Stamp(d) <= Stamp(x)
  PROVE  Within(a, x, d)
<1>1. a \in Calendar /\ c \in Calendar /\ d \in Calendar /\ d.dst = x.dst /\ Stamp(a) <= Stamp(c)
  BY Zenon DEF Within, Calm, Steady
<1>2. Stamp(a) \in Int /\ Stamp(c) \in Int /\ Stamp(d) \in Int
  BY Zenon, <1>1, CalendarFields
<1>3. Stamp(a) <= Stamp(d)
  BY SMT, <1>1, <1>2
<1>4. QED
  BY Zenon, <1>1, <1>3 DEF Within


(* In such a time seconds that move do not pass x, and are the first of their set, *)
(* or the minute stays.                                                             *)
LEMMA SecExact ==
  ASSUME NEW e, Job(e), NEW a, NEW x, NEW c, Exactly(e, a, x, c), NEW d,
         Steady(a, x, d), d.sec # c.sec, Carry(e.sec, c.sec, MinuteNo(c), d.sec, MinuteNo(d))
  PROVE  Within(a, x, d) /\ ((\A n \in e.sec : d.sec <= n) \/ Rest(e, d))
<1>1. Calm(a, x) /\ InExpr(e, x) /\ Within(a, x, c) /\ SecFits(e, c)
  BY Zenon DEF Exactly, Span
<1>2. c \in Calendar /\ x \in Calendar /\ d \in Calendar
  BY Zenon, <1>1, WithinSteady DEF Steady
<1>3. c.sec \in 0 .. (60 - 1) /\ MinuteNo(c) \in Int /\ MinuteNo(d) \in Int /\ Digits(e.sec, 60)
      /\ 60 \in {24, 60}
  BY SMT, <1>2, Units DEF Job
<1>4. Follows(60, e.sec, MinuteNo(c), c.sec, MinuteNo(d), d.sec)
  BY Zenon, <1>3, CarryOrder
<1>5. /\ Stamp(c) = 60 * MinuteNo(c) + c.sec /\ Stamp(d) = 60 * MinuteNo(d) + d.sec
      /\ Stamp(x) = 60 * MinuteNo(x) + x.sec /\ MinuteNo(x) \in Int /\ x.sec \in e.sec
  BY Zenon, <1>1, <1>2, Units DEF InExpr
<1>6. Stamp(c) < Stamp(d)
  BY Zenon, <1>4, <1>5 DEF Follows
<1>7. Stamp(d) <= Stamp(x)
  <2>1. Stamp(c) <= Stamp(x)
    BY Zenon, <1>1 DEF Within
  <2>2. QED
    BY Zenon, <1>4, <1>5, <2>1 DEF Follows
<1>8. Within(a, x, d)
  BY Zenon, <1>1, <1>6, <1>7, WithinLater
<1>9. d.sec \in e.sec /\ e.sec \in SUBSET (0 .. 59)
  <2>1. 60 - 1 = 59
    BY SMT
  <2>2. QED
    BY Zenon, <1>3, <2>1 DEF Carry, Digits
<1>10. CASE \A n \in e.sec : d.sec <= n
  BY Zenon, <1>8, <1>10
<1>11. CASE ~\A n \in e.sec : d.sec <= n
  <2>1. MinuteNo(d) = MinuteNo(c) /\ d.sec >= c.sec /\ \A n \in e.sec : n >= c.sec => d.sec <= n
    BY Zenon, <1>11 DEF Carry
  <2>2. c.sec # 0
    <3>1. c.sec = 0 => \A n \in e.sec : n >= c.sec
      BY SMT, <1>9
    <3>2. QED
      BY Zenon, <1>11, <2>1, <3>1
  <2>3. c.sec \notin e.sec
    <3>1. c.sec \in e.sec => c.sec >= c.sec
      BY SMT, <1>3
    <3>2. c.sec \in e.sec => d.sec <= c.sec
      BY Zenon, <2>1, <3>1
    <3>3. d.sec \in Int /\ c.sec \in Int
      BY SMT, <1>3, <1>9
    <3>4. QED
      BY SMT, <2>1, <3>2, <3>3
  <2>4. ~\E n \in e.sec : \A t \in e.sec : t = n
    <3>1. \A n \in e.sec : n <= n
      BY SMT, <1>9
    <3>2. QED
      BY Zenon, <1>9, <1>11, <3>1
  <2>5. Rest(e, c)
    BY Zenon, <1>1, <2>2, <2>3, <2>4 DEF SecFits
  <2>6. Rest(e, d)
    BY Zenon, <1>2, <2>1, <2>5, SameMinute
  <2>7. QED
    BY Zenon, <1>8, <2>6
<1>12. QED
  BY Zenon, <1>10, <1>11

(* A value that is allowed is not followed by another of the same turn. *)
LEMMA NotMoved ==
  ASSUME NEW B \in {24, 60}, NEW S, Digits(S, B), NEW k \in S, NEW v, NEW U \in Int, NEW V \in Int,
         Carry(S, k, U, v, V)
  PROVE  v = k
<1>1. S \in SUBSET Int /\ \A n \in S : n >= n /\ ~(n < n) /\ n <= n
  BY SMT DEF Digits
<1>2. U # U + 1
  BY SMT
<1>3. v \in S /\ v >= k /\ v <= k
  BY Zenon, <1>1, <1>2 DEF Carry
<1>4. v \in Int /\ k \in Int
  BY Zenon, <1>1, <1>3
<1>5. QED
  BY SMT, <1>3, <1>4

(* The second is reset or the least of its set. *)
Least(e, c, resets) == "sec" \in resets \/ \A s \in e.sec : c.sec <= s

(* d is c with the second reset or kept. *)
SecReset(c, d, resets) ==
  ("sec" \in resets => d.sec = 0) /\ ("sec" \notin resets => d.sec = c.sec)

(* Such a second is not after one of the expression. *)
LEMMA LeastReset ==
  ASSUME NEW e, Job(e), NEW c, NEW d, NEW resets, Least(e, c, resets), SecReset(c, d, resets),
         NEW x \in Calendar, InExpr(e, x)
  PROVE  d.sec <= x.sec
<1>1. x.sec \in e.sec /\ x.sec \in 0 .. 59
  BY Zenon, CalendarFields DEF InExpr
<1>2. 0 <= x.sec
  BY SMT, <1>1
<1>3. QED
  BY Zenon, <1>1, <1>2 DEF Least, SecReset

(* A minute that moves does not pass x. *)
LEMMA MinExact ==
  ASSUME NEW e, Job(e), NEW a, NEW x, Span(e, a, x), NEW c, Within(a, x, c),
         NEW resets \in SUBSET {"sec"}, c.min \in e.min \/ Least(e, c, resets)
  PROVE  LET r == find_next(e.min, 2, c, resets)
         IN r.value # c.min => Within(a, x, r.cal) /\ SecReset(c, r.cal, resets)
<1> DEFINE r == find_next(e.min, 2, c, resets)
           d == r.cal
<1>1. Calm(a, x) /\ InExpr(e, x)
  BY Zenon DEF Span
<1>2. c \in Calendar /\ x \in Calendar /\ Steady(a, x, c) /\ DayNumber(c) <= DayNumber(x)
  BY Zenon, <1>1, WithinSteady
<1>3. Digits(e.min, 60)
  BY Zenon DEF Job
<1>4. MinMoved(a, x, e.min, resets, c, r)
  BY Zenon, <1>1, <1>2, <1>3, MinSteady
<1> HIDE DEF r
<1>5. ASSUME r.value # c.min PROVE Within(a, x, d) /\ SecReset(c, d, resets)
  <2>1. /\ Steady(a, x, d) /\ d.min # c.min
        /\ Carry(e.min, c.min, HourNo(c), d.min, HourNo(d))
    BY Zenon, <1>4, <1>5 DEF MinMoved
  <2>2. SecReset(c, d, resets)
    BY Zenon, <1>4, <1>5 DEF MinMoved, SecReset
  <2>3. d \in Calendar
    BY Zenon, <2>1 DEF Steady
  <2>4. c.min \in 0 .. (60 - 1) /\ HourNo(c) \in Int /\ HourNo(d) \in Int /\ 60 \in {24, 60}
    BY SMT, <1>2, <2>3, Units
  <2>5. c.min \notin e.min
    BY Zenon, <1>3, <2>1, <2>4, NotMoved
  <2>6. d.sec <= x.sec
    BY Zenon, <1>1, <1>2, <2>2, <2>5, LeastReset
  <2>7. Follows(60, e.min, HourNo(c), c.min, HourNo(d), d.min)
    BY Zenon, <1>3, <2>1, <2>4, CarryOrder
  <2>8. /\ MinuteNo(c) = 60 * HourNo(c) + c.min /\ MinuteNo(d) = 60 * HourNo(d) + d.min
        /\ MinuteNo(x) = 60 * HourNo(x) + x.min /\ HourNo(x) \in Int /\ x.min \in e.min
    BY Zenon, <1>1, <1>2, <2>3, Units DEF InExpr
  <2>9. MinuteNo(c) < MinuteNo(d)
    BY Zenon, <2>7, <2>8 DEF Follows
  <2>10. Stamp(c) <= Stamp(x)
    BY Zenon DEF Within
  <2>11. MinuteNo(d) <= MinuteNo(x)
    <3>1. MinuteNo(c) <= MinuteNo(x)
      BY Zenon, <1>2, <2>10, UnitOrder
    <3>2. QED
      BY Zenon, <2>7, <2>8, <3>1 DEF Follows
  <2>12. Stamp(c) < Stamp(d) /\ Stamp(d) <= Stamp(x)
    BY Zenon, <1>2, <2>3, <2>6, <2>9, <2>11, UnitOrder
  <2>13. QED
    BY Zenon, <1>1, <2>1, <2>2, <2>12, WithinLater
<1>6. QED
  BY Zenon, <1>5 DEF r

(* An hour that moves does not. *)
LEMMA HourExact ==
  ASSUME NEW e, Job(e), NEW a, NEW x, Span(e, a, x), NEW c, Within(a, x, c),
         NEW resets \in SUBSET {"sec", "min"},
         c.hour \in e.hour \/ ("min" \in resets /\ Least(e, c, resets))
  PROVE  LET r == find_next(e.hour, 3, c, resets)
         IN r.value # c.hour => Within(a, x, r.cal) /\ SecReset(c, r.cal, resets)
<1> DEFINE r == find_next(e.hour, 3, c, resets)
           d == r.cal
<1>1. Calm(a, x) /\ InExpr(e, x)
  BY Zenon DEF Span
<1>2. c \in Calendar /\ x \in Calendar /\ Steady(a, x, c) /\ DayNumber(c) <= DayNumber(x)
  BY Zenon, <1>1, WithinSteady
<1>3. Digits(e.hour, 24)
  BY Zenon DEF Job
<1>4. HourMovedOn(a, x, e.hour, resets, c, r)
  BY Zenon, <1>1, <1>2, <1>3, HourSteady
<1> HIDE DEF r
<1>5. ASSUME r.value # c.hour PROVE Within(a, x, d) /\ SecReset(c, d, resets)
  <2>1. /\ Steady(a, x, d) /\ d.hour # c.hour
        /\ Carry(e.hour, c.hour, DayNumber(c), d.hour, DayNumber(d))
        /\ "min" \in resets => d.min = 0
    BY Zenon, <1>4, <1>5 DEF HourMovedOn
  <2>2. SecReset(c, d, resets)
    BY Zenon, <1>4, <1>5 DEF HourMovedOn, SecReset
  <2>3. d \in Calendar
    BY Zenon, <2>1 DEF Steady
  <2>4. c.hour \in 0 .. (24 - 1) /\ DayNumber(c) \in Int /\ DayNumber(d) \in Int /\ 24 \in {24, 60}
    BY SMT, <1>2, <2>3, Units
  <2>5. c.hour \notin e.hour
    BY Zenon, <1>3, <2>1, <2>4, NotMoved
  <2>6. d.sec <= x.sec /\ d.min = 0
    BY Zenon, <1>1, <1>2, <2>1, <2>2, <2>5, LeastReset
  <2>7. Follows(24, e.hour, DayNumber(c), c.hour, DayNumber(d), d.hour)
    BY Zenon, <1>3, <2>1, <2>4, CarryOrder
  <2>8. /\ HourNo(c) = 24 * DayNumber(c) + c.hour /\ HourNo(d) = 24 * DayNumber(d) + d.hour
        /\ HourNo(x) = 24 * DayNumber(x) + x.hour /\ DayNumber(x) \in Int /\ x.hour \in e.hour
    BY Zenon, <1>1, <1>2, <2>3, Units DEF InExpr
  <2>9. HourNo(c) < HourNo(d)
    BY Zenon, <2>7, <2>8 DEF Follows
  <2>10. Stamp(c) <= Stamp(x)
    BY Zenon DEF Within
  <2>11. HourNo(d) <= HourNo(x)
    <3>1. HourNo(c) <= HourNo(x)
      BY Zenon, <1>2, <2>10, UnitOrder
    <3>2. QED
      BY Zenon, <2>7, <2>8, <3>1 DEF Follows
  <2>12. Stamp(c) < Stamp(d) /\ Stamp(d) <= Stamp(x)
    BY Zenon, <1>2, <2>3, <2>6, <2>9, <2>11, UnitOrder
  <2>13. QED
    BY Zenon, <1>1, <2>1, <2>2, <2>12, WithinLater
<1>6. QED
  BY Zenon, <1>5 DEF r

(* Nor does a day. *)
LEMMA DayExact ==
  ASSUME NEW e, Job(e), NEW a, NEW x, Span(e, a, x), NEW c, Within(a, x, c), ~DateMatches(e, c),
         NEW resets \in Clocks, "min" \in resets, "hour" \in resets, Least(e, c, resets)
  PROVE  LET d == Reached(find_next_day(e, c, resets)).cal
         IN Within(a, x, d) /\ SecReset(c, d, resets)
<1> DEFINE s == find_next_day(e, c, resets)
           d == s.cal
<1>1. Calm(a, x) /\ InExpr(e, x) /\ DateMatches(e, x)
  BY Zenon DEF Span, InExpr, DayInExpr, DateMatches
<1>2. c \in Calendar /\ x \in Calendar /\ Steady(a, x, c) /\ DayNumber(c) <= DayNumber(x)
  BY Zenon, <1>1, WithinSteady
<1>3. Upon(a, x, resets, DayNumber(c), c.sec, s)
  BY Zenon, <1>1, <1>2, DaySteady
<1> HIDE DEF s
<1>4. /\ Steady(a, x, d) /\ DayNumber(c) < DayNumber(d) /\ DayNumber(d) <= DayNumber(x)
      /\ d.hour = 0 /\ d.min = 0 /\ SecReset(c, d, resets)
  BY Zenon, <1>3 DEF Upon, SecReset
<1>5. d \in Calendar
  BY Zenon, <1>4 DEF Steady
<1>6. d.sec <= x.sec
  BY Zenon, <1>1, <1>2, <1>4, LeastReset
<1>7. Stamp(c) < Stamp(d) /\ Stamp(d) <= Stamp(x)
  BY Zenon, <1>2, <1>4, <1>5, <1>6, UnitOrder
<1>8. Within(a, x, d)
  BY Zenon, <1>1, <1>4, <1>7, WithinLater
<1>9. QED
  BY Zenon, <1>4, <1>8 DEF Reached, s


(* The seconds are visited first. *)
LEMMA VisitSec ==
  ASSUME NEW e, Job(e), NEW a, NEW x, NEW c \in Calendar, NEW dot, NEW deep
  PROVE  AfterSec(e, a, x, c, VisitUp(e, dot, deep, 1, Started(c)))
<1> DEFINE p == Started(c)
           s == find_next(e.sec, 1, c, {})
           q == VisitUp(e, dot, deep, 1, p)
           d == s.cal
<1>1. Along(e, a, x, c, p) /\ p.ok /\ p.cal = c /\ p.resets = {}
  BY Zenon, StartedAlong
<1>2. /\ s.value = c.sec => d = c /\ c.sec \in e.sec
      /\ s.value # c.sec => d \in Calendar /\ d.sec \in e.sec
  BY Zenon, SecAny DEF Job
<1>3. ASSUME Exactly(e, a, x, c), s.value # c.sec
      PROVE  Within(a, x, d) /\ ((\A n \in e.sec : d.sec <= n) \/ Rest(e, d))
  <2>1. Calm(a, x) /\ Within(a, x, c) /\ Digits(e.sec, 60)
    BY Zenon, <1>3 DEF Exactly, Span, Job
  <2>2. Steady(a, x, c) /\ DayNumber(c) <= DayNumber(x)
    BY Zenon, <2>1, WithinSteady
  <2>3. Steady(a, x, d) /\ d.sec # c.sec /\ Carry(e.sec, c.sec, MinuteNo(c), d.sec, MinuteNo(d))
    BY Zenon, <1>3, <2>1, <2>2, SecSteady
  <2> HIDE DEF s
  <2>4. QED
    BY Zenon, <1>3, <2>3, SecExact
<1> HIDE DEF p, q, s
<1>4. s = SearchUp(e, 1, p.cal, p.resets)
  BY SMT, <1>1, SearchesUp DEF s
<1>5. /\ s.value = c.sec => Kept(p, s, "sec", q)
      /\ s.value # c.sec => Moved(p, s, q)
  BY Zenon, <1>1, <1>4, FieldNames, Visited DEF q
<1>6. CASE s.value = c.sec
  <2>1. Along(e, a, x, c, q) /\ q.ok /\ q.cal = c /\ q.resets = {"sec"}
    <3>1. "sec" \in FieldsVisited /\ d = p.cal /\ p.resets \cup {"sec"} = {"sec"}
      BY SMT, <1>1, <1>2, <1>6 DEF FieldsVisited
    <3>2. Along(e, a, x, c, q) /\ q.ok /\ q.cal = p.cal /\ q.resets = p.resets \cup {"sec"}
      <4>1. Along(e, a, x, c, p) /\ p.ok /\ Kept(p, s, "sec", q) /\ s.cal = p.cal
        BY Zenon, <1>1, <1>5, <1>6, <3>1 DEF d
      <4> HIDE DEF d
      <4>2. QED
        BY SMTT(30), <3>1, <4>1, WhenKept
    <3>3. QED
      BY Zenon, <1>1, <3>1, <3>2
  <2>2. "sec" \in q.resets /\ q.resets \in SUBSET {"sec"}
    BY Zenon, <2>1
  <2>3. QED
    BY Zenon, <1>2, <1>6, <2>1, <2>2 DEF AfterSec, Low, q, p
<1>7. CASE s.value # c.sec
  <2> HIDE DEF d
  <2>1. d \in Calendar /\ d.sec \in e.sec
    BY Zenon, <1>2, <1>7
  <2>2. q = Stand(TRUE, d, {})
    BY Zenon, <1>1, <1>5, <1>7 DEF Moved, d
  <2>3. q.ok /\ q.cal = d /\ q.resets = {} /\ q \in Results /\ q.resets \in SUBSET {"sec"}
    BY SMT, <2>1, <2>2 DEF Stand, Results
  <2>4. Along(e, a, x, c, q)
    BY Zenon, <1>3, <1>7, <2>3 DEF Along
  <2>5. Exactly(e, a, x, c) => Low(e, q) \/ Rest(e, q.cal)
    BY Zenon, <1>3, <1>7, <2>3 DEF Low
  <2>6. QED
    BY Zenon, <2>1, <2>3, <2>4, <2>5 DEF AfterSec, q, p
<1>8. QED
  BY Zenon, <1>6, <1>7

(* An exact search goes on from a date of the time in question with its second     *)
(* reset or in its set.                                                             *)
LEMMA ExactOn ==
  ASSUME NEW e, NEW a, NEW x, NEW c, Exactly(e, a, x, c), NEW b, b.sec \in e.sec,
         NEW d, NEW resets, Within(a, x, d) /\ SecReset(b, d, resets)
  PROVE  Exactly(e, a, x, d)
<1>1. d.sec = 0 \/ d.sec \in e.sec
  BY Zenon DEF SecReset
<1>2. QED
  BY Zenon, <1>1 DEF Exactly, SecFits

(* The minutes: kept, or left to a deeper call *)
LEMMA VisitMin ==
  ASSUME NEW e, Job(e), NEW a, NEW x, NEW c \in Calendar, NEW dot, NEW deep \in Good(e, a, x),
         NEW p, AfterSec(e, a, x, c, p)
  PROVE  AfterMin(e, a, x, c, VisitUp(e, dot, deep, 2, p))
<1> DEFINE b == p.cal
           s == find_next(e.min, 2, b, p.resets)
           q == VisitUp(e, dot, deep, 2, p)
           d == s.cal
<1>1. Along(e, a, x, c, p) /\ b \in Calendar /\ p.resets \in SUBSET {"sec"}
  BY SMT DEF AfterSec, Along, Results
<1>2. CASE ~p.ok
  <2>1. q = p
    BY Zenon, <1>2, NotVisited
  <2> HIDE DEF q
  <2>2. QED
    BY Zenon, <1>1, <1>2, <2>1 DEF AfterMin, q
<1>3. CASE p.ok
  <2>1. p.cal.sec \in e.sec /\ (Exactly(e, a, x, c) => Low(e, p) \/ Rest(e, p.cal))
    BY Zenon, <1>3 DEF AfterSec
  <2>2. /\ s.value = b.min => d = b /\ b.min \in e.min
        /\ s.value # b.min => d \in Calendar
    <3>1. Digits(e.min, 60)
      BY Zenon DEF Job
    <3> HIDE DEF b
    <3>2. QED
      BY Zenon, <1>1, <3>1, MinAny
  <2>3. ASSUME s.value # b.min, Exactly(e, a, x, c) PROVE Exactly(e, a, x, d)
    <3>1. Span(e, a, x) /\ Within(a, x, b)
      BY Zenon, <1>1, <1>3, <2>3 DEF Along, Exactly
    <3>2. b.min \in e.min \/ Least(e, b, p.resets)
      BY Zenon, <2>1, <2>3 DEF Low, Least, Rest
    <3>3. Within(a, x, d) /\ SecReset(b, d, p.resets)
      <4> DEFINE r == p.resets
      <4>1. r \in SUBSET {"sec"} /\ (b.min \in e.min \/ Least(e, b, r))
        BY Zenon, <1>1, <3>2
      <4> HIDE DEF b, r
      <4>2. find_next(e.min, 2, b, r).value # b.min
        BY Zenon, <2>3 DEF r
      <4>3. QED
        BY Zenon, <3>1, <4>1, <4>2, MinExact DEF r
    <3> HIDE DEF s
    <3>4. QED
      BY Zenon, <2>1, <2>3, <3>3, ExactOn
  <2>4. s = SearchUp(e, 2, p.cal, p.resets)
    BY Zenon, SearchesUp
  <2> HIDE DEF q, s
  <2>5. /\ s.value = b.min => Kept(p, s, "min", q)
        /\ s.value # b.min => Stopped(p, q) \/ Asked(p, s, deep, q)
    <3>1. "min" # "sec"
      OBVIOUS
    <3>2. QED
      BY Zenon, <1>3, <2>4, <3>1, FieldNames, Visited DEF q
  <2>6. CASE s.value = b.min
    <3>1. Along(e, a, x, c, q) /\ q.ok /\ q.cal = p.cal /\ q.resets = p.resets \cup {"min"}
      <4>1. "min" \in FieldsVisited /\ s.cal = p.cal
        BY SMT, <2>2, <2>6 DEF FieldsVisited
      <4>2. Along(e, a, x, c, p) /\ p.ok /\ Kept(p, s, "min", q)
        BY Zenon, <1>1, <1>3, <2>5, <2>6
      <4> HIDE DEF b, d
      <4>3. QED
        BY SMT, <4>1, <4>2, WhenKept
    <3>2. q.resets \in SUBSET {"sec", "min"} /\ "min" \in q.resets
      BY Zenon, <1>1, <3>1
    <3>3. b.min \in e.min
      BY Zenon, <2>2, <2>6
    <3>4. ASSUME ~RestHour(e, q.cal), Exactly(e, a, x, c) PROVE Low(e, q)
      BY Zenon, <2>1, <3>1, <3>4 DEF Low, Rest
    <3>5. QED
      BY Zenon, <2>1, <3>1, <3>2, <3>3, <3>4 DEF AfterMin, q
  <2>7. CASE s.value # b.min
    <3>1. d \in Calendar
      BY Zenon, <2>2, <2>7
    <3>2. CASE Stopped(p, q)
      <4>1. Along(e, a, x, c, q) /\ ~q.ok /\ q.resets = p.resets
        <5>1. Along(e, a, x, c, p)
          BY Zenon, <1>1
        <5> HIDE DEF b
        <5>2. QED
          BY SMTT(30), <3>2, <5>1, WhenStopped
      <4>2. q.resets \in SUBSET {"sec", "min"}
        BY Zenon, <1>1, <4>1
      <4>3. QED
        BY Zenon, <4>1, <4>2 DEF AfterMin, q
    <3>3. CASE Asked(p, s, deep, q)
      <4>1. Along(e, a, x, c, q) /\ (q.ok => InExpr(e, q.cal)) /\ q.resets = p.resets
        BY SMTT(60), <1>1, <1>3, <2>3, <2>7, <3>1, <3>3, WhenAsked
      <4>2. QED
        BY Zenon, <1>1, <4>1 DEF AfterMin, InExpr, DayInExpr, RestHour, RestDay, DateMatches, q
    <3>4. QED
      BY Zenon, <2>5, <2>7, <3>2, <3>3
  <2>8. QED
    BY Zenon, <2>6, <2>7
<1>4. QED
  BY Zenon, <1>2, <1>3

(* The hours *)
LEMMA VisitHour ==
  ASSUME NEW e, Job(e), NEW a, NEW x, NEW c \in Calendar, NEW dot, NEW deep \in Good(e, a, x),
         NEW p, AfterMin(e, a, x, c, p)
  PROVE  AfterHour(e, a, x, c, VisitUp(e, dot, deep, 3, p))
<1> DEFINE b == p.cal
           s == find_next(e.hour, 3, b, p.resets)
           q == VisitUp(e, dot, deep, 3, p)
           d == s.cal
<1>1. Along(e, a, x, c, p) /\ b \in Calendar /\ p.resets \in SUBSET {"sec", "min"}
      /\ p.resets \in Clocks
  BY SMT DEF AfterMin, Along, Results, Clocks
<1>2. CASE ~p.ok
  <2>1. q = p
    BY Zenon, <1>2, NotVisited
  <2> HIDE DEF q
  <2>2. QED
    BY Zenon, <1>1, <1>2, <2>1 DEF AfterHour, q
<1>3. CASE p.ok
  <2>1. /\ p.cal.sec \in e.sec /\ p.cal.min \in e.min
        /\ RestHour(e, p.cal) \/ ("min" \in p.resets /\ (Exactly(e, a, x, c) => Low(e, p)))
    BY Zenon, <1>3 DEF AfterMin
  <2>2. /\ s.value = b.hour => d = b /\ b.hour \in e.hour
        /\ s.value # b.hour => d \in Calendar
    <3>1. Digits(e.hour, 24)
      BY Zenon DEF Job
    <3> HIDE DEF b
    <3>2. QED
      BY Zenon, <1>1, <3>1, HourAny
  <2>3. ASSUME s.value # b.hour, Exactly(e, a, x, c) PROVE Exactly(e, a, x, d)
    <3>1. Span(e, a, x) /\ Within(a, x, b)
      BY Zenon, <1>1, <1>3, <2>3 DEF Along, Exactly
    <3>2. b.hour \in e.hour \/ ("min" \in p.resets /\ Least(e, b, p.resets))
      BY Zenon, <2>1, <2>3 DEF Low, Least, RestHour
    <3>3. Within(a, x, d) /\ SecReset(b, d, p.resets)
      <4> DEFINE r == p.resets
      <4>1. r \in SUBSET {"sec", "min"} /\ (b.hour \in e.hour \/ ("min" \in r /\ Least(e, b, r)))
        BY Zenon, <1>1, <3>2
      <4> HIDE DEF b, r
      <4>2. find_next(e.hour, 3, b, r).value # b.hour
        BY Zenon, <2>3 DEF r
      <4>3. QED
        BY Zenon, <3>1, <4>1, <4>2, HourExact DEF r
    <3> HIDE DEF s
    <3>4. QED
      BY Zenon, <2>1, <2>3, <3>3, ExactOn
  <2>4. s = SearchUp(e, 3, p.cal, p.resets)
    BY Zenon, SearchesUp
  <2> HIDE DEF q, s
  <2>5. /\ s.value = b.hour => Kept(p, s, "hour", q)
        /\ s.value # b.hour => Stopped(p, q) \/ Asked(p, s, deep, q)
    <3>1. "hour" # "sec"
      OBVIOUS
    <3>2. QED
      BY Zenon, <1>3, <2>4, <3>1, FieldNames, Visited DEF q
  <2>6. CASE s.value = b.hour
    <3>1. Along(e, a, x, c, q) /\ q.ok /\ q.cal = p.cal /\ q.resets = p.resets \cup {"hour"}
      <4>1. "hour" \in FieldsVisited /\ s.cal = p.cal
        BY SMT, <2>2, <2>6 DEF FieldsVisited
      <4>2. Along(e, a, x, c, p) /\ p.ok /\ Kept(p, s, "hour", q)
        BY Zenon, <1>1, <1>3, <2>5, <2>6
      <4> HIDE DEF b, d
      <4>3. QED
        BY SMT, <4>1, <4>2, WhenKept
    <3>2. q.resets \in Clocks /\ "hour" \in q.resets
          /\ ("min" \in p.resets => "min" \in q.resets) /\ ("sec" \in p.resets => "sec" \in q.resets)
      BY SMT, <1>1, <3>1 DEF Clocks
    <3>3. b.hour \in e.hour
      BY Zenon, <2>2, <2>6
    <3>4. ASSUME ~RestDay(e, q.cal) PROVE "min" \in q.resets /\ (Exactly(e, a, x, c) => Low(e, q))
      BY Zenon, <2>1, <3>1, <3>2, <3>4 DEF Low, RestHour
    <3>5. QED
      BY Zenon, <2>1, <3>1, <3>2, <3>3, <3>4 DEF AfterHour, q
  <2>7. CASE s.value # b.hour
    <3>1. d \in Calendar
      BY Zenon, <2>2, <2>7
    <3>2. CASE Stopped(p, q)
      <4>1. Along(e, a, x, c, q) /\ ~q.ok /\ q.resets = p.resets
        <5>1. Along(e, a, x, c, p)
          BY Zenon, <1>1
        <5> HIDE DEF b
        <5>2. QED
          BY SMTT(30), <3>2, <5>1, WhenStopped
      <4>2. q.resets \in Clocks
        BY Zenon, <1>1, <4>1
      <4>3. QED
        BY Zenon, <4>1, <4>2 DEF AfterHour, q
    <3>3. CASE Asked(p, s, deep, q)
      <4>1. Along(e, a, x, c, q) /\ (q.ok => InExpr(e, q.cal)) /\ q.resets = p.resets
        BY SMTT(60), <1>1, <1>3, <2>3, <2>7, <3>1, <3>3, WhenAsked
      <4>2. QED
        BY Zenon, <1>1, <4>1 DEF AfterHour, InExpr, DayInExpr, RestDay, DateMatches, q
    <3>4. QED
      BY Zenon, <2>5, <2>7, <3>2, <3>3
  <2>8. QED
    BY Zenon, <2>6, <2>7
<1>4. QED
  BY Zenon, <1>2, <1>3

(* The days *)
LEMMA VisitDay ==
  ASSUME NEW e, Job(e), NEW a, NEW x, NEW c \in Calendar, NEW dot, NEW deep \in Good(e, a, x),
         NEW p, AfterHour(e, a, x, c, p)
  PROVE  AfterDay(e, a, x, c, VisitUp(e, dot, deep, 4, p))
<1> DEFINE b == p.cal
           s == Reached(find_next_day(e, b, p.resets))
           q == VisitUp(e, dot, deep, 4, p)
           d == s.cal
<1>1. Along(e, a, x, c, p) /\ b \in Calendar /\ p.resets \in Clocks
  BY SMT DEF AfterHour, Along, Results
<1>2. CASE ~p.ok
  <2>1. q = p
    BY Zenon, <1>2, NotVisited
  <2> HIDE DEF q
  <2>2. QED
    BY Zenon, <1>1, <1>2, <2>1 DEF AfterDay, q
<1>3. CASE p.ok
  <2>1. /\ p.cal.sec \in e.sec /\ p.cal.min \in e.min /\ p.cal.hour \in e.hour
        /\ \/ RestDay(e, p.cal)
           \/ "min" \in p.resets /\ "hour" \in p.resets /\ (Exactly(e, a, x, c) => Low(e, p))
    BY Zenon, <1>3 DEF AfterHour
  <2>2. DateMatches(e, b) \/ ("min" \in p.resets /\ "hour" \in p.resets
                               /\ (Exactly(e, a, x, c) => Least(e, b, p.resets)))
    BY Zenon, <2>1 DEF RestDay, Low, Least
  <2>3. /\ s.value = b.mday => d = b /\ DateMatches(e, b)
        /\ s.value # b.mday => d \in Calendar
        /\ DateMatches(e, b) => s.value = b.mday
    <3> DEFINE r == p.resets
    <3>1. b \in Calendar /\ (DateMatches(e, b) \/ (r \in Clocks /\ "min" \in r /\ "hour" \in r))
      BY Zenon, <1>1, <2>2
    <3> HIDE DEF b, r
    <3>2. LET z == Reached(find_next_day(e, b, r))
          IN /\ z.value = b.mday => z.cal = b /\ DateMatches(e, b)
             /\ z.value # b.mday => z.cal \in Calendar
             /\ DateMatches(e, b) => z.value = b.mday
      BY Zenon, <3>1, DayAny
    <3>3. QED
      BY Zenon, <3>2 DEF r
  <2>4. ASSUME s.value # b.mday, Exactly(e, a, x, c) PROVE Exactly(e, a, x, d)
    <3>1. Span(e, a, x) /\ Within(a, x, b)
      BY Zenon, <1>1, <1>3, <2>4 DEF Along, Exactly
    <3>2. Within(a, x, d) /\ SecReset(b, d, p.resets)
      <4> DEFINE r == p.resets
      <4>1. ~DateMatches(e, b) /\ r \in Clocks /\ "min" \in r /\ "hour" \in r /\ Least(e, b, r)
        BY Zenon, <1>1, <2>2, <2>3, <2>4
      <4> HIDE DEF b, r
      <4>2. LET z == Reached(find_next_day(e, b, r)).cal IN Within(a, x, z) /\ SecReset(b, z, r)
        BY Zenon, <3>1, <4>1, DayExact
      <4>3. QED
        BY Zenon, <4>2 DEF r
    <3> HIDE DEF s
    <3>3. QED
      BY Zenon, <2>1, <2>4, <3>2, ExactOn
  <2>5. s = SearchUp(e, 4, p.cal, p.resets)
    BY Zenon, SearchesUp
  <2> HIDE DEF q, s
  <2>6. /\ s.value = b.mday => Kept(p, s, "mday", q)
        /\ s.value # b.mday => Stopped(p, q) \/ Asked(p, s, deep, q)
    <3>1. "mday" # "sec"
      OBVIOUS
    <3>2. QED
      BY Zenon, <1>3, <2>5, <3>1, FieldNames, Visited DEF q
  <2>7. CASE s.value = b.mday
    <3>1. Along(e, a, x, c, q) /\ q.ok /\ q.cal = p.cal /\ q.resets = p.resets \cup {"mday"}
      <4>1. "mday" \in FieldsVisited /\ s.cal = p.cal
        BY SMT, <2>3, <2>7 DEF FieldsVisited
      <4>2. Along(e, a, x, c, p) /\ p.ok /\ Kept(p, s, "mday", q)
        BY Zenon, <1>1, <1>3, <2>6, <2>7
      <4> HIDE DEF b, d
      <4>3. QED
        BY SMT, <4>1, <4>2, WhenKept
    <3>2. DateMatches(e, b)
      BY Zenon, <2>3, <2>7
    <3>3. QED
      BY Zenon, <2>1, <3>1, <3>2 DEF AfterDay, q
  <2>8. CASE s.value # b.mday
    <3>1. d \in Calendar
      BY Zenon, <2>3, <2>8
    <3>2. CASE Stopped(p, q)
      BY Zenon, <1>1, <3>2, WhenStopped DEF AfterDay, q
    <3>3. CASE Asked(p, s, deep, q)
      <4>1. Along(e, a, x, c, q) /\ (q.ok => InExpr(e, q.cal)) /\ q.resets = p.resets
        BY SMTT(60), <1>1, <1>3, <2>4, <2>8, <3>1, <3>3, WhenAsked
      <4>2. QED
        BY Zenon, <1>1, <4>1 DEF AfterDay, InExpr, DayInExpr, DateMatches, q
    <3>4. QED
      BY Zenon, <2>6, <2>8, <3>2, <3>3
  <2>9. QED
    BY Zenon, <2>7, <2>8
<1>4. QED
  BY Zenon, <1>2, <1>3

(* The months come last: then the answer is what a call promises. *)
LEMMA VisitMon ==
  ASSUME NEW e, Job(e), NEW a, NEW x, NEW c \in Calendar, NEW dot, NEW deep \in Good(e, a, x),
         NEW p, AfterDay(e, a, x, c, p)
  PROVE  VisitUp(e, dot, deep, 5, p) \in Results
         /\ Answers(e, a, x, c, VisitUp(e, dot, deep, 5, p))
<1> DEFINE b == p.cal
           s == find_next(e.mon, 5, b, p.resets)
           q == VisitUp(e, dot, deep, 5, p)
           d == s.cal
<1>1. Along(e, a, x, c, p) /\ b \in Calendar
  BY SMT DEF AfterDay, Along, Results
<1>2. CASE ~p.ok
  <2>1. q = p
    BY Zenon, <1>2, NotVisited
  <2> HIDE DEF q
  <2>2. QED
    BY Zenon, <1>1, <1>2, <2>1 DEF Along, Answers, q
<1>3. CASE p.ok
  <2>1. /\ p.cal.sec \in e.sec /\ p.cal.min \in e.min /\ p.cal.hour \in e.hour
        /\ DateMatches(e, p.cal)
    BY Zenon, <1>3 DEF AfterDay
  <2>2. /\ s.value = b.mon => d = b /\ b.mon \in e.mon
        /\ s.value # b.mon => d \in Calendar
        /\ e.mon = 0 .. 11 => s.value = b.mon
    <3> DEFINE S == e.mon
    <3>1. S \in SUBSET (0 .. 11) /\ S # {}
      BY Zenon DEF Job
    <3> HIDE DEF b, S
    <3>2. /\ s.value = b.mon => d = b /\ b.mon \in S
          /\ s.value # b.mon => d \in Calendar
          /\ S = 0 .. 11 => s.value = b.mon
      <4> DEFINE u == find_next(S, 5, b, p.resets)
      <4>1. /\ u.value = b.mon => u.cal = b /\ b.mon \in S
            /\ u.value # b.mon => u.cal \in Calendar
            /\ S = 0 .. 11 => u.value = b.mon
        BY SMT, <1>1, <3>1, MonAny
      <4>2. u = s
        BY Zenon DEF S
      <4> HIDE DEF u
      <4>3. QED
        BY Zenon, <4>1, <4>2
    <3>3. QED
      BY Zenon, <3>2 DEF S
  <2>3. s = SearchUp(e, 5, p.cal, p.resets)
    BY Zenon, SearchesUp
  <2> HIDE DEF q, s
  <2>4. /\ s.value = b.mon => Kept(p, s, "mon", q)
        /\ s.value # b.mon => Stopped(p, q) \/ Asked(p, s, deep, q)
    <3>1. "mon" # "sec"
      OBVIOUS
    <3>2. QED
      BY Zenon, <1>3, <2>3, <3>1, FieldNames, Visited DEF q
  <2>5. CASE s.value = b.mon
    <3>1. Along(e, a, x, c, q) /\ q.ok /\ q.cal = p.cal
      <4>1. "mon" \in FieldsVisited /\ s.cal = p.cal
        BY SMT, <2>2, <2>5 DEF FieldsVisited
      <4>2. Along(e, a, x, c, p) /\ p.ok /\ Kept(p, s, "mon", q)
        BY Zenon, <1>1, <1>3, <2>4, <2>5
      <4> HIDE DEF b, d
      <4>3. QED
        BY SMTT(30), <4>1, <4>2, WhenKept
    <3>2. InExpr(e, q.cal)
      BY Zenon, <2>1, <2>2, <2>5, <3>1 DEF InExpr, DayInExpr, DateMatches
    <3>3. QED
      BY Zenon, <3>1, <3>2 DEF Along, Answers, q
  <2>6. CASE s.value # b.mon
    <3>1. d \in Calendar /\ ~Exactly(e, a, x, c)
      BY Zenon, <2>2, <2>6 DEF Exactly, Span
    <3>2. CASE Stopped(p, q)
      <4>1. Along(e, a, x, c, q) /\ ~q.ok
        BY Zenon, <1>1, <3>2, WhenStopped
      <4>2. QED
        BY Zenon, <4>1 DEF Along, Answers, q
    <3>3. CASE Asked(p, s, deep, q)
      <4>1. Along(e, a, x, c, q) /\ (q.ok => InExpr(e, q.cal))
        BY SMTT(60), <1>1, <1>3, <3>1, <3>3, WhenAsked
      <4>2. QED
        BY Zenon, <4>1 DEF Along, Answers, q
    <3>4. QED
      BY Zenon, <2>4, <2>6, <3>2, <3>3
  <2>7. QED
    BY Zenon, <2>5, <2>6
<1>4. QED
  BY Zenon, <1>2, <1>3


(* One call keeps its promise if those it makes do. *)
LEMMA PassAnswers ==
  ASSUME NEW e, Job(e), NEW a, NEW x, NEW c \in Calendar, NEW dot, NEW deep \in Good(e, a, x)
  PROVE  Pass(TRUE, e, dot, deep, c) \in Results /\ Answers(e, a, x, c, Pass(TRUE, e, dot, deep, c))
<1> DEFINE p1 == VisitUp(e, dot, deep, 1, Started(c))
           p2 == VisitUp(e, dot, deep, 2, p1)
           p3 == VisitUp(e, dot, deep, 3, p2)
           p4 == VisitUp(e, dot, deep, 4, p3)
           p5 == VisitUp(e, dot, deep, 5, p4)
<1>1. Pass(TRUE, e, dot, deep, c) = p5
  BY Zenon DEF Pass, VisitUp
<1>2. AfterSec(e, a, x, c, p1)
  BY Zenon, VisitSec
<1> HIDE DEF p1
<1>3. AfterMin(e, a, x, c, p2)
  BY Zenon, <1>2, VisitMin
<1> HIDE DEF p2
<1>4. AfterHour(e, a, x, c, p3)
  BY Zenon, <1>3, VisitHour
<1> HIDE DEF p3
<1>5. AfterDay(e, a, x, c, p4)
  BY Zenon, <1>4, VisitDay
<1> HIDE DEF p4
<1>6. p5 \in Results /\ Answers(e, a, x, c, p5)
  BY Zenon, <1>5, VisitMon
<1> HIDE DEF p5
<1>7. QED
  BY Zenon, <1>1, <1>6

(* However many calls the stack holds, they keep their promise. *)
LEMMA CallsAnswer ==
  ASSUME NEW e, Job(e), NEW a, NEW x, NEW dot, NEW n \in Nat
  PROVE  Calls(TRUE, e, dot)[n] \in Good(e, a, x)
<1> DEFINE none == [c \in Calendar |-> Failed(c)]
           step(deep) == [c \in Calendar |-> Pass(TRUE, e, dot, deep, c)]
           F == [deep \in Good(e, a, x) |-> step(deep)]
           body(call) == [k \in Nat |-> IF k = 0 THEN none ELSE step(call[k - 1])]
           R == Calls(TRUE, e, dot)
<1>1. none \in Good(e, a, x)
  <2>1. ASSUME NEW c \in Calendar PROVE Failed(c) \in Results /\ Answers(e, a, x, c, Failed(c))
    <3>1. Failed(c) \in Results /\ Failed(c).ok = FALSE
      BY SMT DEF Failed, Stand, Results
    <3>2. QED
      BY Zenon, <3>1 DEF Answers
  <2>2. none \in [Calendar -> Results] /\ \A c \in Calendar : Answers(e, a, x, c, none[c])
    BY Zenon, <2>1
  <2> HIDE DEF none
  <2>3. QED
    BY Zenon, <2>2 DEF Good
<1>2. ASSUME NEW deep \in Good(e, a, x) PROVE step(deep) \in Good(e, a, x)
  <2>1. \A c \in Calendar :
          Pass(TRUE, e, dot, deep, c) \in Results /\ Answers(e, a, x, c, Pass(TRUE, e, dot, deep, c))
    BY Zenon, PassAnswers
  <2> DEFINE g == step(deep)
  <2>2. g \in [Calendar -> Results] /\ \A c \in Calendar : Answers(e, a, x, c, g[c])
    BY Zenon, <2>1
  <2> HIDE DEF g
  <2>3. g \in Good(e, a, x)
    BY Zenon, <2>2 DEF Good
  <2>4. QED
    BY Zenon, <2>3 DEF g
<1>3. R = CHOOSE call : call = body(call)
  BY Zenon DEF Calls
<1> HIDE DEF none, step
<1>4. F \in [Good(e, a, x) -> Good(e, a, x)] /\ \A deep \in Good(e, a, x) : F[deep] = step(deep)
  BY Zenon, <1>2
<1> HIDE DEF F
<1>5. PICK g \in [Nat -> Good(e, a, x)] : g[0] = none /\ \A k \in Nat : g[k + 1] = F[g[k]]
  <2> DEFINE G == Good(e, a, x)
  <2>1. none \in G /\ F \in [G -> G]
    BY Zenon, <1>1, <1>4
  <2> HIDE DEF body, R, G
  <2>2. \E g \in [Nat -> G] : g[0] = none /\ \A k \in Nat : g[k + 1] = F[g[k]]
    <3>1. Recurs(G, none, F)
      BY Zenon, <2>1, Recursion
    <3>2. QED
      BY Zenon, <3>1 DEF Recurs
  <2>3. QED
    BY Zenon, <2>2 DEF G
<1>6. g = body(g)
  <2>1. ASSUME NEW k \in Nat PROVE g[k] = IF k = 0 THEN none ELSE step(g[k - 1])
    <3>1. CASE k = 0
      BY Zenon, <1>5, <3>1
    <3>2. CASE k # 0
      <4>1. k - 1 \in Nat /\ (k - 1) + 1 = k
        BY SMT, <3>2
      <4>2. g[k - 1] \in Good(e, a, x) /\ g[k] = F[g[k - 1]]
        BY Zenon, <1>5, <4>1
      <4>3. QED
        BY Zenon, <1>4, <3>2, <4>2
    <3>3. QED
      BY Zenon, <3>1, <3>2
  <2>2. QED
    BY Zenon, <2>1
<1> HIDE DEF R
<1>7. R = body(R)
  <2>1. \E call : call = body(call)
    BY Zenon, <1>6
  <2> HIDE DEF body
  <2>2. QED
    BY Zenon, <1>3, <2>1
<1> DEFINE T == {k \in Nat : R[k] \in Good(e, a, x)}
<1>8. 0 \in T /\ \A k \in T : k + 1 \in T
  <2>1. \A k \in Nat : R[k] = IF k = 0 THEN none ELSE step(R[k - 1])
    BY Zenon, <1>7
  <2>2. 0 \in Nat /\ \A k \in Nat : k + 1 \in Nat /\ k + 1 # 0 /\ (k + 1) - 1 = k
    BY SMT
  <2>3. R[0] \in Good(e, a, x)
    BY Zenon, <1>1, <2>1, <2>2
  <2>4. ASSUME NEW k \in Nat, R[k] \in Good(e, a, x) PROVE R[k + 1] \in Good(e, a, x)
    <3>1. R[k + 1] = step(R[k])
      BY Zenon, <2>1, <2>2
    <3>2. QED
      BY Zenon, <1>2, <2>4, <3>1
  <2>5. QED
    BY Zenon, <2>2, <2>3, <2>4
<1>9. T = Nat
  <2>1. T \in SUBSET Nat
    BY Zenon
  <2> HIDE DEF T
  <2>2. QED
    BY Zenon, <1>8, <2>1, Counting
<1>10. QED
  BY Zenon, <1>9 DEF R

(***************************************************************************)
(* cron_next                                                                *)
(***************************************************************************)

(* r is no answer, or a date of the expression, and not after a firing the search is *)
(* exact up to.                                                                       *)
Answered(e, c, r) ==
  r.ok => \E d \in Calendar : /\ r = Found(d)
                              /\ InExpr(e, d)
                              /\ \A a, x : Exactly(e, a, x, c) => Within(a, x, d)

(* do_next answers so. *)
LEMMA DoNextAnswers ==
  ASSUME NEW e, Job(e), NEW c \in Calendar
  PROVE  Answered(e, c, do_next(e, c))
<1> DEFINE p == Calls(TRUE, e, c.year)[StackDepth][c]
           d == p.cal
<1>1. StackDepth \in Nat
  BY SMT, StackDepthAssumption
<1>2. \A a, x : Calls(TRUE, e, c.year)[StackDepth] \in Good(e, a, x)
  BY Zenon, <1>1, CallsAnswer
<1>3. p \in Results /\ \A a, x : Answers(e, a, x, c, p)
  BY Zenon, <1>2 DEF Good
<1>4. do_next(e, c) = Answer(p)
  BY Zenon DEF do_next
<1> HIDE DEF p
<1>5. CASE p.ok
  <2>1. d \in Calendar
    BY SMT, <1>3 DEF Results
  <2>2. do_next(e, c) = Found(d)
    BY Zenon, <1>4, <1>5 DEF Answer
  <2>3. InExpr(e, d) /\ \A a, x : Exactly(e, a, x, c) => Within(a, x, d)
    BY Zenon, <1>3, <1>5 DEF Answers
  <2>4. QED
    BY Zenon, <2>1, <2>2, <2>3 DEF Answered
<1>6. CASE ~p.ok
  <2>1. do_next(e, c) = [ok |-> FALSE]
    BY Zenon, <1>4, <1>6 DEF Answer
  <2>2. do_next(e, c).ok = FALSE
    BY SMT, <2>1
  <2>3. QED
    BY Zenon, <2>2 DEF Answered
<1>7. QED
  BY Zenon, <1>5, <1>6

(* The seconds hold one value or all of them. *)
OneOrAllSeconds(e) == e.sec = 0 .. 59 \/ \E s \in 0 .. 59 : e.sec = {s}

(* One second, or all of them, are never in the middle of a set; nor is that of a firing. *)
LEMMA SecondsFit ==
  ASSUME NEW e, NEW c \in Calendar, OneOrAllSeconds(e) \/ InExpr(e, c)
  PROVE  SecFits(e, c)
<1>1. c.sec \in 0 .. 59
  BY Zenon, CalendarFields
<1>2. QED
  BY Zenon, <1>1 DEF SecFits, OneOrAllSeconds, InExpr

(* y is a firing after c, with no change of the clock on the way. *)
Ahead(e, c, y) ==
  /\ Calm(c, y) /\ InExpr(e, y) /\ y.dst = c.dst /\ Stamp(c) < Stamp(y)
  /\ e.mon = 0 .. 11 /\ (OneOrAllSeconds(e) \/ InExpr(e, c))

(* d is after c and not after y. *)
Until(c, y, d) == d.dst = c.dst /\ Stamp(c) < Stamp(d) /\ Stamp(d) <= Stamp(y)

(* From c the search is exact up to y, *)
LEMMA AheadExactly ==
  ASSUME NEW e, NEW c, NEW y, Ahead(e, c, y)
  PROVE  Exactly(e, c, y, c) /\ c \in Calendar /\ y \in Calendar
<1>1. Calm(c, y) /\ c \in Calendar /\ y \in Calendar /\ c.dst = y.dst /\ Stamp(c) < Stamp(y)
  BY Zenon DEF Ahead, Calm
<1>2. Stamp(c) \in Int /\ Stamp(y) \in Int
  BY Zenon, <1>1, CalendarFields
<1>3. Stamp(c) <= Stamp(c) /\ Stamp(c) <= Stamp(y)
  BY SMT, <1>1, <1>2
<1>4. SecFits(e, c)
  BY Zenon, <1>1, SecondsFit DEF Ahead
<1>5. Span(e, c, y)
  BY Zenon DEF Ahead, Span
<1>6. Within(c, y, c)
  BY Zenon, <1>1, <1>3 DEF Within
<1>7. QED
  BY Zenon, <1>1, <1>4, <1>5, <1>6 DEF Exactly

(* and, if c is a firing, from the second after it. *)
LEMMA AheadSecond ==
  ASSUME NEW e, NEW c, NEW y, Ahead(e, c, y), InExpr(e, c)
  PROVE  LET b == add_to_field(c, "sec", 1)
         IN Exactly(e, b, y, b) /\ b \in Calendar /\ Stamp(b) = Stamp(c) + 1
<1> DEFINE b == add_to_field(c, "sec", 1)
<1>1. Calm(c, y) /\ c \in Calendar /\ y \in Calendar /\ c.dst = y.dst /\ Stamp(c) < Stamp(y)
  BY Zenon DEF Ahead, Calm
<1>2. /\ Stamp(c) \in Int /\ Stamp(y) \in Int /\ DayNumber(c) \in Int /\ DayNumber(y) \in Int
      /\ Clock(c) \in Int /\ 0 <= Clock(c) /\ Clock(c) < DaySeconds
      /\ Clock(y) \in Int /\ 0 <= Clock(y) /\ Clock(y) < DaySeconds
  BY Zenon, <1>1, CalendarFields
<1>3. DayNumber(c) <= DayNumber(y)
  <2>1. DaySeconds * DayNumber(c) + Clock(c) < DaySeconds * DayNumber(y) + Clock(y)
    BY Zenon, <1>1 DEF Stamp
  <2>2. QED
    BY SMT, <1>2, <2>1 DEF DaySeconds
<1>4. Steady(c, y, c)
  <2>1. DayNumber(c) <= DayNumber(c) /\ DayNumber(c) <= DayNumber(y) + 1
    BY SMT, <1>2, <1>3
  <2>2. QED
    BY Zenon, <1>1, <2>1 DEF Steady
<1>5. Steady(c, y, b) /\ Stamp(b) = Stamp(c) + 1
  BY Zenon, <1>1, <1>3, <1>4, SteadyAdded
<1> HIDE DEF b
<1>6. b \in Calendar /\ b.dst = y.dst /\ DayNumber(c) <= DayNumber(b)
  BY Zenon, <1>5 DEF Steady
<1>7. Stamp(b) \in Int /\ DayNumber(b) \in Int
  BY Zenon, <1>6, CalendarFields
<1>8. Stamp(b) <= Stamp(b) /\ Stamp(b) <= Stamp(y)
  BY SMT, <1>1, <1>2, <1>5, <1>7
<1>9. Calm(b, y)
  <2>1. ASSUME NEW s \in Calendar, DayNumber(b) - 1 <= DayNumber(s) PROVE DayNumber(c) - 1 <= DayNumber(s)
    <3>1. DayNumber(s) \in Int
      BY Zenon, CalendarFields
    <3>2. QED
      BY SMT, <1>2, <1>6, <1>7, <2>1, <3>1
  <2>2. QED
    BY Zenon, <1>1, <1>6, <2>1 DEF Calm
<1>10. SecFits(e, b)
  <2> DEFINE m == MinuteNo(c)
             n == MinuteNo(b)
             s == c.sec
             t == b.sec
             u == Stamp(c)
             v == Stamp(b)
  <2>1. /\ m \in Int /\ n \in Int /\ s \in 0 .. 59 /\ t \in 0 .. 59 /\ u = 60 * m + s /\ v = 60 * n + t
        /\ v = u + 1
    BY Zenon, <1>1, <1>5, <1>6, Units
  <2> HIDE DEF m, n, s, t, u, v
  <2>2. 60 * n + t = 60 * m + s + 1
    BY SMT, <2>1
  <2>3. n = m \/ t = 0
    BY SMT, <2>1, <2>2
  <2>4. QED
    BY Zenon, <1>1, <1>6, <2>3, SameMinute, InExprParts DEF SecFits, m, n, t
<1>11. Span(e, b, y)
  BY Zenon, <1>9 DEF Ahead, Span
<1>12. Within(b, y, b)
  BY Zenon, <1>6, <1>8 DEF Within
<1>13. Exactly(e, b, y, b)
  BY Zenon, <1>10, <1>11, <1>12 DEF Exactly
<1>14. QED
  BY Zenon, <1>5, <1>6, <1>13 DEF b

(* d is a date of the expression, and not after a firing ahead of c. *)
Awaits(e, c, d) ==
  /\ d \in Calendar /\ InExpr(e, d)
  /\ \A y : Ahead(e, c, y) => Until(c, y, d)

(* cron_next answers such a date. *)
LEMMA CronNextAnswers ==
  ASSUME NEW e, Job(e), NEW c \in Calendar, NEW r, r = cron_next(e, c), r.ok
  PROVE  \E d : r = Found(d) /\ Awaits(e, c, d)
<1> DEFINE first == do_next(e, c)
           b == add_to_field(c, "sec", 1)
           second == do_next(e, b)
<1>1. r = IF first = Found(c) THEN second ELSE first
  BY Zenon DEF cron_next, AgainNext
<1>2. b \in Calendar
  <2>1. 1 \in {-1, 1}
    BY SMT
  <2>2. QED
    BY Zenon, <2>1, FieldAdded
<1>3. Answered(e, c, first) /\ Answered(e, b, second)
  BY Zenon, <1>2, DoNextAnswers
<1>4. InExpr(e, c) => \A y : Ahead(e, c, y) => Exactly(e, b, y, b) /\ Stamp(b) = Stamp(c) + 1
  BY Zenon, AheadSecond
<1> HIDE DEF first, b, second
<1>5. CASE first = Found(c)
  <2>1. r = second
    BY Zenon, <1>1, <1>5
  <2>2. PICK d \in Calendar : /\ r = Found(d) /\ InExpr(e, d)
                              /\ \A a, x : Exactly(e, a, x, b) => Within(a, x, d)
    BY Zenon, <1>3, <2>1 DEF Answered
  <2>3. InExpr(e, c)
    <3>1. first.ok = TRUE /\ first.cal = c
      BY SMT, <1>5 DEF Found
    <3>2. PICK z \in Calendar : first = Found(z) /\ InExpr(e, z)
      BY Zenon, <1>3, <3>1 DEF Answered
    <3>3. first.cal = z
      BY SMT, <3>2 DEF Found
    <3>4. QED
      BY Zenon, <3>1, <3>2, <3>3
  <2>4. ASSUME NEW y, Ahead(e, c, y) PROVE Until(c, y, d)
    <3>1. Exactly(e, b, y, b) /\ Stamp(b) = Stamp(c) + 1
      BY Zenon, <1>4, <2>3, <2>4
    <3>2. Within(b, y, d)
      BY Zenon, <2>2, <3>1
    <3>3. d.dst = y.dst /\ y.dst = c.dst /\ Stamp(b) <= Stamp(d) /\ Stamp(d) <= Stamp(y)
      BY Zenon, <2>4, <3>2 DEF Within, Ahead
    <3>4. Stamp(c) \in Int /\ Stamp(b) \in Int /\ Stamp(d) \in Int
      BY Zenon, <1>2, CalendarFields
    <3>5. Stamp(c) < Stamp(d)
      BY SMT, <3>1, <3>3, <3>4
    <3>6. QED
      BY Zenon, <3>3, <3>5 DEF Until
  <2>5. QED
    BY Zenon, <2>2, <2>4 DEF Awaits
<1>6. CASE first # Found(c)
  <2>1. r = first
    BY Zenon, <1>1, <1>6
  <2>2. PICK d \in Calendar : /\ r = Found(d) /\ InExpr(e, d)
                              /\ \A a, x : Exactly(e, a, x, c) => Within(a, x, d)
    BY Zenon, <1>3, <2>1 DEF Answered
  <2>3. ASSUME NEW y, Ahead(e, c, y) PROVE Until(c, y, d)
    <3>1. Within(c, y, d)
      BY Zenon, <2>2, <2>3, AheadExactly
    <3>2. d.dst = y.dst /\ y.dst = c.dst /\ Stamp(c) <= Stamp(d) /\ Stamp(d) <= Stamp(y)
      BY Zenon, <2>3, <3>1 DEF Within, Ahead
    <3>3. Stamp(c) # Stamp(d)
      BY Zenon, <1>6, <2>1, <2>2, <3>2, SameStamp
    <3>4. Stamp(c) \in Int /\ Stamp(d) \in Int
      BY Zenon, CalendarFields
    <3>5. Stamp(c) < Stamp(d)
      BY SMT, <3>2, <3>3, <3>4
    <3>6. QED
      BY Zenon, <3>2, <3>5 DEF Until
  <2>4. QED
    BY Zenon, <2>2, <2>3 DEF Awaits
<1>7. QED
  BY Zenon, <1>5, <1>6


(***************************************************************************)
(* The days FiringDays names                                                *)
(***************************************************************************)

(* Times of day are ordered by hours, then minutes, then seconds. *)
LEMMA ClockOrder ==
  ASSUME NEW a \in 0 .. 23, NEW b \in 0 .. 59, NEW d \in 0 .. 59,
         NEW h \in 0 .. 23, NEW i \in 0 .. 59, NEW s \in 0 .. 59
  PROVE  /\ h > a => ClockOf(a, b, d) < ClockOf(h, i, s)
         /\ h = a /\ i > b => ClockOf(a, b, d) < ClockOf(h, i, s)
         /\ h = a /\ i = b /\ s > d => ClockOf(a, b, d) < ClockOf(h, i, s)
<1>1. h > a => ClockOf(a, b, d) < ClockOf(h, i, s)
  BY SMT DEF ClockOf
<1>2. h = a /\ i > b => ClockOf(a, b, d) < ClockOf(h, i, s)
  BY SMT DEF ClockOf
<1>3. h = a /\ i = b /\ s > d => ClockOf(a, b, d) < ClockOf(h, i, s)
  BY SMT DEF ClockOf
<1>4. QED
  BY Zenon, <1>1, <1>2, <1>3

(* The expression fires on the day of z at the time of day t of the clock of c. *)
Fires(e, z, c, t) ==
  \E y \in Calendar : /\ InExpr(e, y) /\ y.dst = c.dst
                      /\ DayNumber(y) = DayNumber(z) /\ Clock(y) = t

(* A time of day of the expression, on a day of the expression *)
LEMMA FiringOn ==
  ASSUME NEW e, Job(e), NEW c \in Calendar, NEW z \in Calendar, DayInExpr(e, z),
         NEW h \in e.hour, NEW i \in e.min, NEW s \in e.sec
  PROVE  Fires(e, z, c, ClockOf(h, i, s))
<1> DEFINE x == [year |-> z.year, mon |-> z.mon, mday |-> z.mday, hour |-> h, min |-> i, sec |-> s,
                 dst |-> c.dst]
<1>1. h \in 0 .. 23 /\ i \in 0 .. 59 /\ s \in 0 .. 59
  BY SMT DEF Job, Digits
<1>2. /\ z.year \in Int /\ z.mon \in 0 .. 11 /\ z.mday \in 1 .. 31 /\ z.mday <= DaysIn(z.year, z.mon)
      /\ c.dst \in 0 .. 1
  BY Zenon, CalendarFields, HourRange
<1>3. /\ x.year = z.year /\ x.mon = z.mon /\ x.mday = z.mday
      /\ x.hour = h /\ x.min = i /\ x.sec = s /\ x.dst = c.dst
  BY SMT
<1>4. x \in [year : Int, mon : 0 .. 11, mday : 1 .. 31, hour : 0 .. 23, min : 0 .. 59, sec : 0 .. 59,
             dst : 0 .. 1]
  BY SMT, <1>1, <1>2
<1> HIDE DEF x
<1>5. x \in Calendar
  BY Zenon, <1>2, <1>3, <1>4 DEF Calendar
<1>6. DayNumber(x) = DayNumber(z)
  BY Zenon, <1>3, <1>5, CalendarFields, SameUnits
<1>7. Clock(x) = ClockOf(h, i, s)
  BY Zenon, <1>3, ClockFields
<1>8. InExpr(e, x)
  BY Zenon, <1>3, <1>6 DEF InExpr, DayInExpr, Weekday
<1>9. QED
  BY Zenon, <1>3, <1>5, <1>6, <1>7, <1>8 DEF Fires

(* The first hour, minute and second *)
LEMMA FirstValues ==
  ASSUME NEW e, Job(e)
  PROVE  Min(e.hour) \in e.hour /\ Min(e.min) \in e.min /\ Min(e.sec) \in e.sec
<1>1. /\ e.hour \in SUBSET Nat /\ e.min \in SUBSET Nat /\ e.sec \in SUBSET Nat
      /\ e.hour # {} /\ e.min # {} /\ e.sec # {}
  BY SMT DEF Job, Digits
<1>2. QED
  BY Zenon, <1>1, MinIsFirst

(* The three kinds of time of day in ClocksAfter *)
LaterHour(e, c, t) ==
  \E h \in e.hour : h > c.hour /\ t = ClockOf(h, Min(e.min), Min(e.sec))
LaterMin(e, c, t) ==
  c.hour \in e.hour /\ \E m \in e.min : m > c.min /\ t = ClockOf(c.hour, m, Min(e.sec))
LaterSec(e, c, t) ==
  /\ c.hour \in e.hour /\ c.min \in e.min
  /\ \E s \in e.sec : s > c.sec /\ t = ClockOf(c.hour, c.min, s)

(* Each time of ClocksAfter is of one of the three kinds. *)
LEMMA ClocksAfterCases ==
  ASSUME NEW e, NEW c, NEW t \in ClocksAfter(e, c)
  PROVE  LaterHour(e, c, t) \/ LaterMin(e, c, t) \/ LaterSec(e, c, t)
BY SMT DEF ClocksAfter, ClockOf, LaterHour, LaterMin, LaterSec

(* On a day of the expression each of them is a firing, and after the clock of c. *)
LEMMA FiringAfter ==
  ASSUME NEW e, Job(e), NEW c \in Calendar, NEW z \in Calendar, DayInExpr(e, z),
         NEW t \in ClocksAfter(e, c)
  PROVE  Fires(e, z, c, t) /\ Clock(c) < t
<1>1. Min(e.hour) \in e.hour /\ Min(e.min) \in e.min /\ Min(e.sec) \in e.sec
  BY Zenon, FirstValues
<1>2. /\ e.hour \in SUBSET (0 .. 23) /\ e.min \in SUBSET (0 .. 59) /\ e.sec \in SUBSET (0 .. 59)
      /\ c.hour \in 0 .. 23 /\ c.min \in 0 .. 59 /\ c.sec \in 0 .. 59
  BY SMT, CalendarFields DEF Job, Digits
<1>3. Clock(c) = ClockOf(c.hour, c.min, c.sec)
  BY Zenon, ClockFields
<1>4. CASE LaterHour(e, c, t)
  <2>1. PICK h \in e.hour : h > c.hour /\ t = ClockOf(h, Min(e.min), Min(e.sec))
    BY Zenon, <1>4 DEF LaterHour
  <2>2. Fires(e, z, c, t)
    BY Zenon, <1>1, <2>1, FiringOn
  <2>3. h \in 0 .. 23 /\ Min(e.min) \in 0 .. 59 /\ Min(e.sec) \in 0 .. 59
    BY Zenon, <1>1, <1>2
  <2>4. ClockOf(c.hour, c.min, c.sec) < ClockOf(h, Min(e.min), Min(e.sec))
    BY Zenon, <1>2, <2>1, <2>3, ClockOrder
  <2>5. QED
    BY Zenon, <1>3, <2>1, <2>2, <2>4
<1>5. CASE LaterMin(e, c, t)
  <2>1. PICK m \in e.min : m > c.min /\ t = ClockOf(c.hour, m, Min(e.sec))
    BY Zenon, <1>5 DEF LaterMin
  <2>2. Fires(e, z, c, t)
    BY Zenon, <1>1, <1>5, <2>1, FiringOn DEF LaterMin
  <2>3. m \in 0 .. 59 /\ Min(e.sec) \in 0 .. 59
    BY Zenon, <1>1, <1>2
  <2>4. ClockOf(c.hour, c.min, c.sec) < ClockOf(c.hour, m, Min(e.sec))
    BY Zenon, <1>2, <2>1, <2>3, ClockOrder
  <2>5. QED
    BY Zenon, <1>3, <2>1, <2>2, <2>4
<1>6. CASE LaterSec(e, c, t)
  <2>1. PICK s \in e.sec : s > c.sec /\ t = ClockOf(c.hour, c.min, s)
    BY Zenon, <1>6 DEF LaterSec
  <2>2. Fires(e, z, c, t)
    BY Zenon, <1>6, <2>1, FiringOn DEF LaterSec
  <2>3. s \in 0 .. 59
    BY Zenon, <1>2
  <2>4. ClockOf(c.hour, c.min, c.sec) < ClockOf(c.hour, c.min, s)
    BY Zenon, <1>2, <2>1, <2>3, ClockOrder
  <2>5. QED
    BY Zenon, <1>3, <2>1, <2>2, <2>4
<1>7. QED
  BY Zenon, <1>4, <1>5, <1>6, ClocksAfterCases
(* The day of z has a firing after c, and before d if that is a date. *)
FiresBefore(e, c, z, d) ==
  \E y \in Calendar : /\ InExpr(e, y) /\ y.dst = c.dst /\ DayNumber(y) = DayNumber(z)
                      /\ Stamp(c) < Stamp(y)
                      /\ d \in Calendar => Stamp(y) < Stamp(d)

(* FiringDays names days of the expression, from the day of c to that of d. *)
LEMMA DayOfFirings ==
  ASSUME NEW e, Job(e), NEW c \in Calendar, NEW d, d.year \in Int, NEW z \in FiringDays(e, c, d)
  PROVE  /\ z \in Calendar /\ z.hour = 0 /\ z.min = 0 /\ z.sec = 0 /\ DayInExpr(e, z)
         /\ DayNumber(c) <= DayNumber(z) /\ DayNumber(z) <= DayNumber(d)
<1> DEFINE T == {Date(y, m, n, 0, 0, 0) : y \in c.year .. d.year, m \in e.mon, n \in e.mday}
           D == {x \in T : /\ x.mday <= DaysIn(x.year, x.mon)
                           /\ DayNumber(c) <= DayNumber(x) /\ DayNumber(x) <= DayNumber(d)
                           /\ Weekday(x) \in e.wday}
<1>1. D = DaysOf(e, c, d)
  BY DEF DaysOf
<1> HIDE DEF T
<1>2. /\ z \in T
      /\ z.mday <= DaysIn(z.year, z.mon) /\ Weekday(z) \in e.wday
      /\ DayNumber(c) <= DayNumber(z) /\ DayNumber(z) <= DayNumber(d)
  <2>1. z \in DaysOf(e, c, d)
    BY Zenon DEF FiringDays
  <2>2. z \in D
    BY Zenon, <1>1, <2>1
  <2>3. QED
    BY Zenon, <2>2
<1>3. PICK y \in c.year .. d.year, m \in e.mon, n \in e.mday : z = Date(y, m, n, 0, 0, 0)
  <2>1. z \in T
    BY Zenon, <1>2
  <2>2. QED
    BY SMT, <2>1 DEF T
<1>4. y \in Int /\ m \in 0 .. 11 /\ n \in 1 .. 31
  BY SMT, CalendarFields DEF Job
<1>5. /\ z \in [year : Int, mon : 0 .. 11, mday : 1 .. 31, hour : 0 .. 23, min : 0 .. 59, sec : 0 .. 59,
                dst : 0 .. 1]
      /\ z.mon = m /\ z.mday = n /\ z.hour = 0 /\ z.min = 0 /\ z.sec = 0
  BY SMT, <1>3, <1>4 DEF Date
<1>6. z \in Calendar
  BY Zenon, <1>2, <1>5 DEF Calendar
<1>7. DayInExpr(e, z)
  BY Zenon, <1>2, <1>5 DEF DayInExpr
<1>8. QED
  BY Zenon, <1>2, <1>5, <1>6, <1>7

(* Each has a firing after c and before d. *)
LEMMA FiringFound ==
  ASSUME NEW e, Job(e), NEW c \in Calendar, NEW d, d.year \in Int, NEW z \in FiringDays(e, c, d)
  PROVE  FiresBefore(e, c, z, d)
<1>1. /\ z \in Calendar /\ DayInExpr(e, z)
      /\ DayNumber(c) <= DayNumber(z) /\ DayNumber(z) <= DayNumber(d)
  BY Zenon, DayOfFirings
<1>2. DayNumber(c) \in Int /\ DayNumber(z) \in Int
  BY Zenon, <1>1, CalendarFields
<1>3. ASSUME NEW t, Fires(e, z, c, t), DayNumber(c) < DayNumber(z) \/ Clock(c) < t,
             DayNumber(z) = DayNumber(d) => t < Clock(d)
      PROVE  FiresBefore(e, c, z, d)
  <2>1. PICK y \in Calendar : /\ InExpr(e, y) /\ y.dst = c.dst
                              /\ DayNumber(y) = DayNumber(z) /\ Clock(y) = t
    BY Zenon, <1>3 DEF Fires
  <2>2. DayNumber(c) < DayNumber(y) \/ DayNumber(c) = DayNumber(y)
    BY SMT, <1>1, <1>2, <2>1
  <2>3. Sooner(c, y)
    <3>1. CASE DayNumber(c) < DayNumber(y)
      BY Zenon, <3>1 DEF Sooner
    <3>2. CASE ~(DayNumber(c) < DayNumber(y))
      <4>1. DayNumber(c) = DayNumber(y) /\ Clock(c) < Clock(y)
        BY Zenon, <1>3, <2>1, <2>2, <3>2
      <4>2. QED
        BY Zenon, <4>1 DEF Sooner
    <3>3. QED
      BY Zenon, <3>1, <3>2
  <2>4. ASSUME d \in Calendar PROVE Sooner(y, d)
    <3>1. DayNumber(d) \in Int
      BY Zenon, <2>4, CalendarFields
    <3>2. DayNumber(y) < DayNumber(d) \/ DayNumber(y) = DayNumber(d)
      BY SMT, <1>1, <1>2, <2>1, <3>1
    <3>3. CASE DayNumber(y) < DayNumber(d)
      BY Zenon, <3>3 DEF Sooner
    <3>4. CASE ~(DayNumber(y) < DayNumber(d))
      <4>1. DayNumber(y) = DayNumber(d) /\ Clock(y) < Clock(d)
        BY Zenon, <1>3, <2>1, <3>2, <3>4
      <4>2. QED
        BY Zenon, <4>1 DEF Sooner
    <3>5. QED
      BY Zenon, <3>3, <3>4
  <2>5. QED
    BY Zenon, <2>1, <2>3, <2>4, StampDays DEF FiresBefore
<1>4. CASE DayNumber(z) = DayNumber(c)
  <2>1. PICK t \in ClocksAfter(e, c) : DayNumber(z) = DayNumber(d) => t < Clock(d)
    BY Zenon, <1>4 DEF FiringDays
  <2>2. Fires(e, z, c, t) /\ Clock(c) < t
    BY Zenon, <1>1, FiringAfter
  <2>3. QED
    BY Zenon, <1>3, <2>1, <2>2
<1>5. CASE DayNumber(z) # DayNumber(c)
  <2>1. DayNumber(z) = DayNumber(d) => FirstClock(e) < Clock(d)
    BY Zenon, <1>5 DEF FiringDays
  <2>2. DayNumber(c) < DayNumber(z)
    BY SMT, <1>1, <1>2, <1>5
  <2>3. FirstClock(e) = ClockOf(Min(e.hour), Min(e.min), Min(e.sec))
    BY SMT DEF FirstClock, ClockOf
  <2>4. Fires(e, z, c, FirstClock(e))
    BY Zenon, <1>1, <2>3, FirstValues, FiringOn
  <2>5. QED
    BY Zenon, <1>3, <2>1, <2>2, <2>4
<1>6. QED
  BY Zenon, <1>4, <1>5

(* A day up to one before c's, or after x's, is of a year next to theirs at most. *)
LEMMA YearsAround ==
  ASSUME NEW c \in Calendar, NEW x \in Calendar, NEW s \in Calendar,
         DayNumber(c) - 1 <= DayNumber(s), DayNumber(s) <= DayNumber(x) + 1
  PROVE  s.year \in c.year - 1 .. x.year + 1
<1>1. ASSUME NEW u \in Calendar, NEW v \in Calendar, DayNumber(u) <= DayNumber(v) + 1
      PROVE  u.year <= v.year + 1
  <2> DEFINE y == u.year
             w == v.year
             p == MonthStart(y, u.mon)
             q == MonthStart(w, v.mon)
             l == DaysIn(w, v.mon)
  <2>1. /\ y \in Int /\ w \in Int /\ u.mon \in 0 .. 11 /\ v.mon \in 0 .. 11
        /\ u.mday \in 1 .. 31 /\ v.mday \in 1 .. 31 /\ v.mday <= l
        /\ u \in Raw /\ v \in Raw
    BY Zenon, CalendarFields
  <2>2. /\ DayNumber(u) = YearStart(y) + p + u.mday /\ p \in Nat
        /\ DayNumber(v) = YearStart(w) + q + v.mday /\ q \in Nat
        /\ YearStart(y) \in Int /\ YearStart(w) \in Int
    BY Zenon, <2>1, DayNumberSum
  <2>3. q + l <= 365 + (IF Leap(w) THEN 1 ELSE 0) /\ l \in 28 .. 31
    <3>1. q + l <= 365 + (IF Leap(w) THEN 1 ELSE 0)
      BY SMT, <2>1, MonthInYear
    <3>2. l \in 28 .. 31
      BY Zenon, <2>1, MonthLengths
    <3>3. QED
      BY Zenon, <3>1, <3>2
  <2>4. SUFFICES ASSUME ~(y <= w + 1) PROVE FALSE
    BY Zenon, <2>4
  <2>5. w + 1 \in Int /\ w < w + 1 /\ w + 1 < y
    BY SMT, <2>1, <2>4
  <2>6. /\ YearStart(w + 1) \in Int
        /\ YearStart(w) + 365 + (IF Leap(w) THEN 1 ELSE 0) <= YearStart(w + 1)
        /\ YearStart(w + 1) + 365 + (IF Leap(w + 1) THEN 1 ELSE 0) <= YearStart(y)
    BY ZenonT(60), <2>1, <2>5, YearOrder
  <2> HIDE DEF p, q, l
  <2> DEFINE k == IF Leap(w) THEN 1 ELSE 0
             i == IF Leap(w + 1) THEN 1 ELSE 0
  <2>7. k \in 0 .. 1 /\ i \in 0 .. 1
    BY SMT
  <2> HIDE DEF k, i
  <2>8. q + l <= 365 + k /\ YearStart(w) + 365 + k <= YearStart(w + 1) /\ YearStart(w + 1) + 365 + i <= YearStart(y)
    BY Zenon, <2>3, <2>6 DEF k, i
  <2>9. QED
    BY SMT, <1>1, <2>1, <2>2, <2>3, <2>6, <2>7, <2>8
<1>2. /\ c.year \in Int /\ x.year \in Int /\ s.year \in Int
      /\ DayNumber(c) \in Int /\ DayNumber(s) \in Int
  BY Zenon, CalendarFields
<1>3. DayNumber(c) <= DayNumber(s) + 1
  BY SMT, <1>2
<1>4. c.year <= s.year + 1 /\ s.year <= x.year + 1
  BY Zenon, <1>1, <1>3
<1>5. QED
  BY SMT, <1>2, <1>4

(* A quiet time is one without a change of the clock. *)
LEMMA QuietCalm ==
  ASSUME NEW c \in Calendar, NEW z \in Calendar, Quiet(c, z),
         NEW y \in Calendar, DayNumber(y) = DayNumber(z), y.dst = c.dst
  PROVE  Calm(c, y)
<1>1. ASSUME NEW s \in Calendar, DayNumber(c) - 1 <= DayNumber(s), DayNumber(s) <= DayNumber(y) + 1
      PROVE  Bit(HourNo(s)) = y.dst
  <2> DEFINE w == Date(s.year, s.mon, s.mday, 0, 0, 0)
  <2>1. /\ s.mon \in 0 .. 11 /\ s.mday \in 1 .. 31 /\ s.mday <= DaysIn(s.year, s.mon)
        /\ s.hour \in 0 .. 23 /\ s \in Raw /\ s.year \in Int
    BY Zenon, CalendarFields
  <2>2. s.year \in c.year - 1 .. z.year + 1
    BY Zenon, <1>1, YearsAround
  <2>3. w \in Raw /\ w.year = s.year /\ w.mon = s.mon /\ w.mday = s.mday
    BY SMT, <2>1 DEF Date, Raw
  <2> HIDE DEF w
  <2>4. DayNumber(w) = DayNumber(s)
    BY Zenon, <2>1, <2>3, SameUnits
  <2>5. \A h \in 0 .. 23 : Summer(s.year, s.mon, s.mday, h) <=> c.dst = 1
    BY Zenon, <1>1, <2>1, <2>2, <2>4 DEF Quiet, w
  <2>6. InSummer(s) <=> c.dst = 1
    BY Zenon, <2>1, <2>5 DEF InSummer
  <2>7. c.dst \in 0 .. 1 /\ Bit(HourNo(s)) = (IF InSummer(s) THEN 1 ELSE 0)
    BY Zenon, HourRange, BitOf
  <2>8. (c.dst = 1 /\ Bit(HourNo(s)) = 1) \/ (c.dst = 0 /\ Bit(HourNo(s)) = 0)
    <3> DEFINE k == c.dst
               n == Bit(HourNo(s))
               f == InSummer(s)
    <3>1. k \in 0 .. 1 /\ n = (IF f THEN 1 ELSE 0) /\ (f <=> k = 1)
      BY Zenon, <2>6, <2>7
    <3> HIDE DEF k, n, f
    <3>2. (k = 1 /\ n = 1) \/ (k = 0 /\ n = 0)
      BY SMT, <3>1
    <3>3. QED
      BY Zenon, <3>2 DEF k, n
  <2>9. QED
    BY Zenon, <2>8
<1>2. QED
  BY Zenon, <1>1 DEF Calm

(* By the clock on the wall and in time, while the same rule is in force *)
LEMMA SameRuleBefore ==
  ASSUME NEW c \in Calendar, NEW d \in Calendar, c.dst = d.dst, Stamp(c) < Stamp(d)
  PROVE  Before(c, d)
<1>1. c \in Wide /\ d \in Wide
  <2>1. ASSUME NEW u \in Calendar PROVE u \in Wide
    <3>1. u \in Raw /\ u.mday \in 1 .. 40 /\ u.hour \in -1 .. 24 /\ u.min \in -1 .. 60 /\ u.sec \in -1 .. 60
      BY SMT, CalendarFields
    <3>2. QED
      BY Zenon, <3>1, InWide
  <2>2. QED
    BY Zenon, <2>1
<1> DEFINE p == Standard(c)
           q == Standard(d)
<1>2. /\ p \in Calendar /\ Stamp(p) = Stamp(c) - c.dst * HourSeconds
      /\ q \in Calendar /\ Stamp(q) = Stamp(d) - d.dst * HourSeconds
  BY Zenon, <1>1, InStandard
<1> HIDE DEF p, q
<1> DEFINE k == c.dst * HourSeconds
<1>3. k \in Int
  BY SMT, HourRange DEF HourSeconds
<1>4. Stamp(p) = Stamp(c) - k /\ Stamp(q) = Stamp(d) - k
  BY Zenon, <1>2
<1> HIDE DEF k
<1>5. Stamp(c) \in Int /\ Stamp(d) \in Int
  BY Zenon, CalendarFields
<1>6. Stamp(p) < Stamp(q)
  BY SMT, <1>3, <1>4, <1>5
<1>7. QED
  BY Zenon, <1>2, <1>6, StampDays DEF Before, p, q

(* Of what cron_next answers no day with a firing is left out in a quiet time. *)
LEMMA NoneLeftOut ==
  ASSUME NEW e, Job(e), NEW c \in Calendar, NEW d, Awaits(e, c, d),
         e.mon = 0 .. 11, OneOrAllSeconds(e) \/ InExpr(e, c),
         NEW z \in FiringDays(e, c, IF Before(c, d) THEN d ELSE YearLater(c)), Quiet(c, z)
  PROVE  FALSE
<1> DEFINE D == IF Before(c, d) THEN d ELSE YearLater(c)
<1>1. d \in Calendar
  BY Zenon DEF Awaits
<1>2. D.year \in Int
  <2>1. YearLater(c).year \in Int /\ d.year \in Int
    BY SMT, <1>1 DEF YearLater, Calendar
  <2>2. QED
    BY Zenon, <2>1
<1>3. z \in FiringDays(e, c, D) /\ (Before(c, d) => D = d)
  BY Zenon
<1> HIDE DEF D
<1>4. z \in Calendar /\ FiresBefore(e, c, z, D)
  BY Zenon, <1>2, <1>3, DayOfFirings, FiringFound
<1>5. PICK y \in Calendar : /\ InExpr(e, y) /\ y.dst = c.dst /\ DayNumber(y) = DayNumber(z)
                            /\ Stamp(c) < Stamp(y)
                            /\ D \in Calendar => Stamp(y) < Stamp(D)
  BY Zenon, <1>4 DEF FiresBefore
<1>6. Ahead(e, c, y)
  BY Zenon, <1>4, <1>5, QuietCalm DEF Ahead
<1>7. d.dst = c.dst /\ Stamp(c) < Stamp(d) /\ Stamp(d) <= Stamp(y)
  BY Zenon, <1>6 DEF Awaits, Until
<1>8. D = d
  BY Zenon, <1>1, <1>3, <1>7, SameRuleBefore
<1>9. Stamp(y) < Stamp(d)
  BY Zenon, <1>1, <1>5, <1>8
<1>10. Stamp(y) \in Int /\ Stamp(d) \in Int
  BY Zenon, <1>1, CalendarFields
<1>11. QED
  BY SMT, <1>7, <1>9, <1>10


(***************************************************************************)
(* The parser                                                               *)
(***************************************************************************)

(* Division leaves no rest of the multiples alone. *)
LEMMA Multiples ==
  ASSUME NEW n \in Nat, NEW b \in Nat, b > 0
  PROVE  n % b = 0 <=> \E k \in 0 .. n : n = k * b
<1>1. ASSUME n % b = 0 PROVE \E k \in 0 .. n : n = k * b
  <2> DEFINE k == n \div b
  <2>1. k \in Nat /\ n = k * b
    BY SMT, <1>1
  <2> HIDE DEF k
  <2>2. k <= n
    <3>1. k * b >= k
      BY SMT, <2>1
    <3>2. QED
      BY SMT, <2>1, <3>1
  <2>3. k \in 0 .. n
    BY SMT, <2>1, <2>2
  <2>4. QED
    BY Zenon, <2>1, <2>3
<1>2. ASSUME NEW k \in 0 .. n, n = k * b PROVE n % b = 0
  BY SMT, <1>2
<1>3. QED
  BY Zenon, <1>1, <1>2

(* The numbers a part names, with its ends lo and hi and its step *)
Hits(lo, hi, by, min, max) ==
  {x \in min .. max - 1 : /\ min <= lo /\ hi < max /\ by > 0
                          /\ lo <= x /\ x <= hi /\ \E k \in 0 .. max : x = lo + k * by}

Stepped(lo, hi, by) == {x \in lo .. hi : (x - lo) % by = 0}

HitsFit(lo, hi, by, min, max) ==
  /\ min <= lo /\ hi < max /\ by > 0 => Hits(lo, hi, by, min, max) = Stepped(lo, hi, by)
  /\ ~(min <= lo /\ hi < max /\ by > 0) => Hits(lo, hi, by, min, max) = {}

(* Those numbers are the ones the loop of set_number_hits comes by. *)
LEMMA HitsAre ==
  ASSUME NEW min \in Nat, NEW max \in Nat, NEW lo \in Int, NEW hi \in Int, NEW by \in Int
  PROVE  HitsFit(lo, hi, by, min, max)
<1>1. CASE ~(min <= lo /\ hi < max /\ by > 0)
  BY Zenon, <1>1 DEF Hits, HitsFit
<1>2. CASE min <= lo /\ hi < max /\ by > 0
  <2> DEFINE In(x) == \E k \in 0 .. max : x = lo + k * by
             A == {x \in min .. max - 1 : lo <= x /\ x <= hi /\ In(x)}
             B == Stepped(lo, hi, by)
  <2>1. by \in Nat
    BY SMT, <1>2
  <2>2. ASSUME NEW x \in lo .. hi PROVE x - lo \in Nat /\ x \in min .. max - 1 /\ lo <= x /\ x <= hi
    BY SMT, <1>2, <2>2
  <2>3. ASSUME NEW x \in lo .. hi PROVE In(x) <=> (x - lo) % by = 0
    <3> DEFINE n == x - lo
    <3>1. n \in Nat
      BY Zenon, <2>2
    <3>2. n % by = 0 <=> \E k \in 0 .. n : n = k * by
      BY Zenon, <1>2, <2>1, <3>1, Multiples
    <3>3. ASSUME NEW k \in 0 .. n, n = k * by PROVE k \in 0 .. max /\ x = lo + k * by
      <4>1. n < max /\ k \in Nat
        BY SMT, <1>2, <2>2
      <4>2. k \in 0 .. max
        BY SMT, <4>1, <3>1
      <4> DEFINE m == k * by
      <4>3. m \in Int /\ n = m
        BY SMT, <2>1, <3>3, <4>1
      <4> HIDE DEF m
      <4>4. x = lo + m
        BY SMT, <4>3
      <4>5. QED
        BY Zenon, <4>2, <4>4 DEF m
    <3>4. ASSUME NEW k \in 0 .. max, x = lo + k * by PROVE k \in 0 .. n /\ n = k * by
      <4> DEFINE m == k * by
      <4>1. m \in Int /\ m >= k /\ x = lo + m
        BY SMT, <1>2, <2>1, <3>4
      <4> HIDE DEF m
      <4>2. n = m /\ k \in 0 .. n
        BY SMT, <4>1
      <4>3. QED
        BY Zenon, <4>2 DEF m
    <3> HIDE DEF n
    <3>5. QED
      BY Zenon, <3>2, <3>3, <3>4 DEF n
  <2>4. ASSUME NEW x \in min .. max - 1, lo <= x, x <= hi PROVE x \in lo .. hi
    BY SMT, <2>4
  <2> HIDE DEF In
  <2>5. A = B
    BY Zenon, <2>2, <2>3, <2>4 DEF Stepped
  <2>6. Hits(lo, hi, by, min, max) = A
    BY Zenon, <1>2 DEF Hits, In
  <2>7. QED
    BY Zenon, <1>2, <2>5, <2>6 DEF HitsFit
<1>3. QED
  BY Zenon, <1>1, <1>2

(* A number beyond INT_MAX is an error. *)
Capped(n) == IF n > IntMax THEN None ELSE n

(* parse_uint reads a token as the number written, unless it is an octal one or *)
(* beyond INT_MAX.                                                               *)
LEMMA TokenValues ==
  ASSUME NEW t, TokenIn(t, 1)
  PROVE  /\ parse_uint(t) \in Int /\ t # Star /\ t.n \in Nat
         /\ ~Octal(t) => parse_uint(t) = Capped(t.n)
<1>1. t.n \in Nat
  BY SMT DEF TokenIn
<1>2. CASE t = Num(t.n)
  <2>1. t.kind = "number"
    BY SMT, <1>2 DEF Num
  <2>2. Read0(t) = t.n
    BY SMT, <2>1 DEF Read0
  <2>3. QED
    BY SMT, <1>1, <2>1, <2>2, IntMaxAssumption DEF parse_uint, Capped, Star, None
<1>3. CASE t = Zero(t.n)
  <2>1. t.kind = "octal"
    BY SMT, <1>3 DEF Zero
  <2>2. Read0(t) = IF t.n < 8 THEN t.n ELSE octal[t.n]
    BY SMT, <2>1 DEF Read0
  <2>4. ~Octal(t) => Read0(t) = t.n
    BY SMT, <1>1, <2>1, <2>2 DEF Octal
  <2>5. t # Star
    BY SMT, <2>1 DEF Star
  <2>6. parse_uint(t) = IF Read0(t) \in 0 .. IntMax THEN Read0(t) ELSE None
    BY Zenon DEF parse_uint
  <2>7. parse_uint(t) \in Int
    BY SMT, <2>6 DEF None
  <2>8. ~Octal(t) => parse_uint(t) = Capped(t.n)
    BY SMT, <1>1, <2>4, <2>6, IntMaxAssumption DEF Capped
  <2>9. QED
    BY Zenon, <1>1, <2>5, <2>7, <2>8
<1>4. QED
  BY SMT, <1>2, <1>3 DEF TokenIn

(* A range from lo to hi, or an error *)
ReadAs(r, lo, hi, min, max) ==
  /\ min <= lo /\ hi < max /\ lo <= hi => get_range(r, min, max) = <<lo, hi>>
  /\ ~(min <= lo /\ hi < max /\ lo <= hi) => get_range(r, min, max) = <<>>

(* get_range of a single number *)
LEMMA OneRead ==
  ASSUME NEW min \in Nat, NEW max \in Nat, NEW t, TokenIn(t, 1)
  PROVE  ReadAs(<<t>>, parse_uint(t), parse_uint(t), min, max)
<1> DEFINE v == parse_uint(t)
<1>1. v \in Int /\ t # Star
  BY Zenon, TokenValues
<1>2. <<t>> # <<Star>> /\ Len(<<t>>) = 1
  BY SMT, <1>1
<1>3. [i \in DOMAIN <<t>> |-> parse_uint(<<t>>[i])] = <<v>>
  BY SMT
<1> HIDE DEF v
<1>4. get_range(<<t>>, min, max) =
        IF (\A i \in DOMAIN <<v>> : min <= <<v>>[i] /\ <<v>>[i] < max) /\ <<v>>[1] <= <<v>>[1]
        THEN <<<<v>>[1], <<v>>[1]>> ELSE <<>>
  BY SMT, <1>2, <1>3 DEF get_range
<1>5. ReadAs(<<t>>, v, v, min, max)
  BY SMT, <1>1, <1>4 DEF ReadAs
<1>6. QED
  BY Zenon, <1>5 DEF v

(* get_range of two numbers *)
LEMMA TwoRead ==
  ASSUME NEW min \in Nat, NEW max \in Nat, NEW t, TokenIn(t, 1), NEW u, TokenIn(u, 1)
  PROVE  ReadAs(<<t, u>>, parse_uint(t), parse_uint(u), min, max)
<1> DEFINE v == parse_uint(t)
           w == parse_uint(u)
<1>1. v \in Int /\ w \in Int
  BY Zenon, TokenValues
<1>2. <<t, u>> # <<Star>> /\ Len(<<t, u>>) = 2
  BY SMT
<1>3. [i \in DOMAIN <<t, u>> |-> parse_uint(<<t, u>>[i])] = <<v, w>>
  BY SMT
<1> HIDE DEF v, w
<1>4. get_range(<<t, u>>, min, max) =
        IF (\A i \in DOMAIN <<v, w>> : min <= <<v, w>>[i] /\ <<v, w>>[i] < max) /\ <<v, w>>[1] <= <<v, w>>[2]
        THEN <<<<v, w>>[1], <<v, w>>[2]>> ELSE <<>>
  BY SMT, <1>2, <1>3 DEF get_range
<1>5. ReadAs(<<t, u>>, v, w, min, max)
  BY SMT, <1>1, <1>4 DEF ReadAs
<1>6. QED
  BY Zenon, <1>5 DEF v, w

(* The three shapes of a range *)
OneToken(r, i)  == \E t : TokenIn(t, i) /\ r = <<t>>
TwoTokens(r, i) == \E t, u : TokenIn(t, i) /\ TokenIn(u, i) /\ r = <<t, u>>

(* A range is a star, a token or two tokens. *)
LEMMA RangeShapes ==
  ASSUME NEW r, NEW i, RangeIn(r, i)
  PROVE  r = <<Star>> \/ OneToken(r, i) \/ TwoTokens(r, i)
BY Zenon DEF RangeIn, OneToken, TwoTokens

(* The ends of a range as the parser reads them *)
FirstOf(r, min)      == IF r = <<Star>> THEN min ELSE parse_uint(r[1])
LastOf(r, min, max)  == IF Len(r) = 2 THEN parse_uint(r[2])
                        ELSE IF r = <<Star>> THEN max - 1 ELSE FirstOf(r, min)

EndsFit(r, min, max) ==
  /\ FirstOf(r, min) \in Int /\ LastOf(r, min, max) \in Int
  /\ Len(r) = 2 \/ (Len(r) = 1 /\ LastOf(r, min, max) \in {FirstOf(r, min), max - 1})
  /\ ReadAs(r, FirstOf(r, min), LastOf(r, min, max), min, max)

(* get_range answers the ends of the range, or an error if they are not in order. *)
LEMMA RangeEnds ==
  ASSUME NEW min \in Nat, NEW max \in Nat, min < max, NEW r, RangeIn(r, 1)
  PROVE  EndsFit(r, min, max)
<1>1. CASE r = <<Star>>
  <2>1. Len(r) = 1 /\ FirstOf(r, min) = min /\ LastOf(r, min, max) = max - 1
    BY SMT, <1>1 DEF FirstOf, LastOf
  <2>2. min <= min /\ max - 1 < max /\ min <= max - 1 /\ max - 1 \in Int /\ min \in Int
    BY SMT
  <2>3. get_range(r, min, max) = <<min, max - 1>>
    BY Zenon, <1>1 DEF get_range
  <2>4. QED
    BY Zenon, <2>1, <2>2, <2>3 DEF EndsFit, ReadAs
<1>2. CASE OneToken(r, 1)
  <2>1. PICK t : TokenIn(t, 1) /\ r = <<t>>
    BY Zenon, <1>2 DEF OneToken
  <2> DEFINE v == parse_uint(t)
  <2>2. v \in Int /\ t # Star
    BY Zenon, <2>1, TokenValues
  <2>3. Len(r) = 1 /\ FirstOf(r, min) = v /\ LastOf(r, min, max) = v
    BY SMT, <2>1, <2>2 DEF FirstOf, LastOf
  <2>4. ReadAs(r, v, v, min, max)
    BY Zenon, <2>1, OneRead
  <2> HIDE DEF v
  <2>5. QED
    BY Zenon, <2>2, <2>3, <2>4 DEF EndsFit
<1>3. CASE TwoTokens(r, 1)
  <2>1. PICK t, u : TokenIn(t, 1) /\ TokenIn(u, 1) /\ r = <<t, u>>
    BY Zenon, <1>3 DEF TwoTokens
  <2> DEFINE v == parse_uint(t)
             w == parse_uint(u)
  <2>2. v \in Int /\ w \in Int
    BY Zenon, <2>1, TokenValues
  <2>3. Len(r) = 2 /\ FirstOf(r, min) = v /\ LastOf(r, min, max) = w
    BY SMT, <2>1 DEF FirstOf, LastOf
  <2>4. ReadAs(r, v, w, min, max)
    BY Zenon, <2>1, TwoRead
  <2> HIDE DEF v, w
  <2>5. QED
    BY Zenon, <2>2, <2>3, <2>4 DEF EndsFit
<1>4. QED
  BY Zenon, <1>1, <1>2, <1>3, RangeShapes

(* A part as the parser reads it *)
ReadPart(p, min, max) ==
  LET lo == FirstOf(p[1], min)
      hi == IF Len(p[1]) = 1 /\ Len(p) = 2 THEN max - 1 ELSE LastOf(p[1], min, max)
      by == IF Len(p) = 2 THEN parse_uint(p[2][1]) ELSE 1
  IN Hits(lo, hi, by, min, max)

(* PartHits reads a part as ReadPart says. *)
LEMMA PartRead ==
  ASSUME NEW min \in Nat, NEW max \in Nat, min < max, NEW p, PartIn(p, 1)
  PROVE  PartHits(p, min, max) = ReadPart(p, min, max)
<1> DEFINE r  == p[1]
           g  == get_range(r, min, max)
           lo == FirstOf(r, min)
           hi == LastOf(r, min, max)
<1>1. RangeIn(r, 1)
  BY Zenon DEF PartIn
<1>2. /\ lo \in Int /\ hi \in Int /\ (Len(r) = 2 \/ (Len(r) = 1 /\ hi \in {lo, max - 1}))
      /\ min <= lo /\ hi < max /\ lo <= hi => g = <<lo, hi>>
      /\ ~(min <= lo /\ hi < max /\ lo <= hi) => g = <<>>
  BY Zenon, <1>1, RangeEnds DEF EndsFit, ReadAs
<1>3. CASE Len(p) = 1
  <2>1. PartHits(p, min, max) = IF g = <<>> THEN {} ELSE g[1] .. g[2]
    BY Zenon, <1>3 DEF PartHits
  <2>2. ReadPart(p, min, max) = Hits(lo, hi, 1, min, max)
    <3>1. 1 # 2
      BY SMT
    <3>2. QED
      BY Zenon, <1>3, <3>1 DEF ReadPart
  <2> HIDE DEF lo, hi, g, r
  <2>3. HitsFit(lo, hi, 1, min, max) /\ 1 > 0
    <3>1. 1 \in Int /\ 1 > 0
      BY SMT
    <3>2. QED
      BY Zenon, <1>2, <3>1, HitsAre
  <2>4. Stepped(lo, hi, 1) = lo .. hi
    BY SMT, <1>2 DEF Stepped
  <2>5. CASE min <= lo /\ hi < max /\ lo <= hi
    <3>1. g = <<lo, hi>>
      BY Zenon, <1>2, <2>5
    <3>2. g # <<>> /\ g[1] = lo /\ g[2] = hi
      BY SMT, <3>1
    <3>3. QED
      BY Zenon, <2>1, <2>2, <2>3, <2>4, <2>5, <3>2 DEF HitsFit
  <2>6. CASE ~(min <= lo /\ hi < max /\ lo <= hi)
    <3>1. g = <<>>
      BY Zenon, <1>2, <2>6
    <3>2. ~(lo <= hi) => lo .. hi = {}
      BY SMT, <1>2
    <3>3. QED
      BY Zenon, <2>1, <2>2, <2>3, <2>4, <2>6, <3>1, <3>2 DEF HitsFit
  <2>7. QED
    BY Zenon, <2>5, <2>6
<1>4. CASE Len(p) = 2
  <2> DEFINE by == parse_uint(p[2][1])
             last == IF Len(r) = 1 THEN max - 1 ELSE g[2]
             end == IF Len(r) = 1 THEN max - 1 ELSE hi
  <2>1. TokenIn(p[2][1], 1) /\ Len(p[2]) = 1 /\ Len(p) # 1
    BY SMT, <1>4 DEF PartIn
  <2>2. by \in Int
    BY Zenon, <2>1, TokenValues
  <2>3. PartHits(p, min, max) =
          IF g = <<>> THEN {} ELSE IF by > 0 THEN Stepped(g[1], last, by) ELSE {}
    BY Zenon, <1>4, <2>1 DEF PartHits, Stepped
  <2>4. ReadPart(p, min, max) = Hits(lo, end, by, min, max)
    BY Zenon, <1>4 DEF ReadPart
  <2> HIDE DEF lo, hi, g, r, by
  <2>5. end \in Int
    BY SMT, <1>2
  <2>6. HitsFit(lo, end, by, min, max)
    <3> HIDE DEF end
    <3>1. QED
      BY Zenon, <1>2, <2>2, <2>5, HitsAre
  <2>7. ~(lo <= end) => Stepped(lo, end, by) = {}
    <3>1. ~(lo <= end) => lo .. end = {}
      BY SMT, <1>2, <2>5
    <3>2. QED
      BY Zenon, <3>1 DEF Stepped
  <2>8. CASE min <= lo /\ hi < max /\ lo <= hi
    <3>1. g = <<lo, hi>>
      BY Zenon, <1>2, <2>8
    <3>2. g # <<>> /\ g[1] = lo /\ last = end /\ end < max
      BY SMT, <1>2, <2>8, <3>1
    <3> HIDE DEF last, end
    <3>3. QED
      BY Zenon, <2>3, <2>4, <2>6, <2>8, <3>2 DEF HitsFit
  <2>9. CASE ~(min <= lo /\ hi < max /\ lo <= hi)
    <3>1. g = <<>>
      BY Zenon, <1>2, <2>9
    <3>2. ~(min <= lo /\ end < max /\ lo <= end)
      BY SMT, <1>2, <2>9
    <3> HIDE DEF end
    <3>3. QED
      BY Zenon, <2>3, <2>4, <2>6, <2>7, <3>1, <3>2 DEF HitsFit
  <2>10. QED
    BY Zenon, <2>8, <2>9
<1>5. QED
  BY Zenon, <1>3, <1>4 DEF PartIn

OctalIn(r)     == \E t \in ToSet(r) : Octal(t)
OctalInPart(p) == \E r \in ToSet(p) : OctalIn(r)

(* The numbers a part names as Named has it: its step is at most INT_MAX *)
NamedHits(lo, hi, by, min, max) ==
  {x \in min .. max - 1 : /\ min <= lo /\ hi < max /\ by \in 1 .. IntMax
                          /\ lo <= x /\ x <= hi /\ \E k \in 0 .. max : x = lo + k * by}

(* A number beyond INT_MAX names nothing, whether it is read or not. *)
LEMMA CappedHits ==
  ASSUME NEW min \in Nat, NEW max \in Nat, max - 1 <= IntMax,
         NEW lo \in Nat, NEW hi \in Nat, NEW by \in Nat
  PROVE  Hits(Capped(lo), Capped(hi), Capped(by), min, max) = NamedHits(lo, hi, by, min, max)
<1>1. IntMax \in Nat
  BY Zenon, IntMaxAssumption
<1>2. CASE lo <= IntMax /\ hi <= IntMax /\ by <= IntMax
  <2>1. Capped(lo) = lo /\ Capped(hi) = hi /\ Capped(by) = by /\ (by > 0 <=> by \in 1 .. IntMax)
    BY SMT, <1>1, <1>2 DEF Capped
  <2>2. QED
    BY Zenon, <2>1 DEF Hits, NamedHits
<1>3. CASE ~(lo <= IntMax /\ hi <= IntMax /\ by <= IntMax)
  <2>1. ASSUME NEW x \in min .. max - 1
        PROVE  /\ ~(min <= lo /\ hi < max /\ by \in 1 .. IntMax /\ lo <= x /\ x <= hi)
               /\ ~(/\ min <= Capped(lo) /\ Capped(hi) < max /\ Capped(by) > 0
                    /\ Capped(lo) <= x /\ x <= Capped(hi))
    BY SMT, <1>1, <1>3 DEF Capped, None
  <2>2. Hits(Capped(lo), Capped(hi), Capped(by), min, max) = {}
    BY Zenon, <2>1 DEF Hits
  <2>3. NamedHits(lo, hi, by, min, max) = {}
    BY Zenon, <2>1 DEF NamedHits
  <2>4. QED
    BY Zenon, <2>2, <2>3
<1>4. QED
  BY Zenon, <1>2, <1>3

(* Without an octal number a part is read as it is written. *)
LEMMA ReadAsNamed ==
  ASSUME NEW min \in Nat, NEW max \in Nat, min < max, max - 1 <= IntMax,
         NEW p, PartIn(p, 1), ~OctalInPart(p)
  PROVE  ReadPart(p, min, max) = Named(p, min, max)
<1> DEFINE r == p[1]
<1>1. RangeIn(r, 1) /\ Len(p) \in {1, 2}
  BY Zenon DEF PartIn
<1>2. ~OctalIn(r) /\ (Len(p) = 2 => TokenIn(p[2][1], 1) /\ ~Octal(p[2][1]))
  BY SMT DEF PartIn, OctalInPart, OctalIn, ToSet
<1>3. Len(p) = 2 => parse_uint(p[2][1]) = Capped(p[2][1].n) /\ p[2][1].n \in Nat
  BY Zenon, <1>2, TokenValues
<1> HIDE DEF r
<1>4. /\ Len(r) \in {1, 2} /\ (r = <<Star>> => Len(r) = 1)
      /\ r # <<Star>> => parse_uint(r[1]) = Capped(r[1].n) /\ r[1].n \in Nat
      /\ Len(r) = 2 => parse_uint(r[2]) = Capped(r[2].n) /\ r[2].n \in Nat
  <2>1. CASE r = <<Star>>
    BY SMT, <2>1
  <2>2. CASE OneToken(r, 1)
    <3>1. PICK t : TokenIn(t, 1) /\ r = <<t>>
      BY Zenon, <2>2 DEF OneToken
    <3>2. Len(r) = 1 /\ r[1] = t /\ ~Octal(t)
      BY SMT, <1>2, <3>1 DEF OctalIn, ToSet
    <3>3. parse_uint(r[1]) = Capped(r[1].n) /\ r[1].n \in Nat
      BY Zenon, <3>1, <3>2, TokenValues
    <3>4. QED
      BY SMT, <3>2, <3>3
  <2>3. CASE TwoTokens(r, 1)
    <3>1. PICK t, u : TokenIn(t, 1) /\ TokenIn(u, 1) /\ r = <<t, u>>
      BY Zenon, <2>3 DEF TwoTokens
    <3>2. Len(r) = 2 /\ r[1] = t /\ r[2] = u /\ ~Octal(t) /\ ~Octal(u) /\ r # <<Star>>
      BY SMT, <1>2, <3>1 DEF OctalIn, ToSet
    <3>3. parse_uint(r[1]) = Capped(r[1].n) /\ r[1].n \in Nat /\ parse_uint(r[2]) = Capped(r[2].n) /\ r[2].n \in Nat
      BY Zenon, <3>1, <3>2, TokenValues
    <3>4. QED
      BY Zenon, <3>2, <3>3
  <2>4. QED
    BY Zenon, <1>1, <2>1, <2>2, <2>3, RangeShapes
<1> DEFINE lo == IF r = <<Star>> THEN min ELSE r[1].n
           hi == IF Len(r) = 2 THEN r[2].n
                 ELSE IF r = <<Star>> \/ Len(p) = 2 THEN max - 1 ELSE lo
           by == IF Len(p) = 2 THEN p[2][1].n ELSE 1
<1>5. Named(p, min, max) = NamedHits(lo, hi, by, min, max)
  BY Zenon DEF Named, NamedHits, r
<1>6. /\ 1 \in Nat /\ min \in Nat /\ max - 1 \in Nat
      /\ Capped(1) = 1 /\ Capped(min) = min /\ Capped(max - 1) = max - 1
  BY SMT, IntMaxAssumption DEF Capped
<1>7. lo \in Nat /\ Capped(lo) = FirstOf(r, min)
  BY Zenon, <1>4, <1>6 DEF FirstOf
<1>8. hi \in Nat /\ Capped(hi) = IF Len(r) = 1 /\ Len(p) = 2 THEN max - 1 ELSE LastOf(r, min, max)
  <2>1. 1 # 2
    BY SMT
  <2> HIDE DEF lo
  <2>2. CASE Len(r) = 2
    BY Zenon, <1>4, <2>1, <2>2 DEF LastOf
  <2>3. CASE Len(r) = 1
    BY Zenon, <1>6, <1>7, <2>1, <2>3 DEF LastOf
  <2>4. QED
    BY Zenon, <1>4, <2>2, <2>3
<1>9. by \in Nat /\ Capped(by) = IF Len(p) = 2 THEN parse_uint(p[2][1]) ELSE 1
  BY Zenon, <1>3, <1>6
<1> HIDE DEF lo, hi, by
<1>10. Hits(Capped(lo), Capped(hi), Capped(by), min, max) = NamedHits(lo, hi, by, min, max)
  <2>1. lo \in Nat /\ hi \in Nat /\ by \in Nat
    BY Zenon, <1>7, <1>8, <1>9
  <2>2. min \in Nat /\ max \in Nat /\ max - 1 <= IntMax
    OBVIOUS
  <2>3. QED
    BY ONLY <2>1, <2>2, CappedHits, SMT
<1>11. QED
  BY Zenon, <1>5, <1>7, <1>8, <1>9, <1>10 DEF ReadPart, r

(***************************************************************************)
(* Names are replaced by their numbers.                                     *)
(***************************************************************************)
ReplacedRange(r) == [k \in DOMAIN r |-> Ordinal(r[k])]
ReplacedPart(p)  == [j \in DOMAIN p |-> ReplacedRange(p[j])]

(* A number in place of a name is read as the same number. *)
LEMMA TokenReplaced ==
  ASSUME NEW i, NEW t, TokenIn(t, i)
  PROVE  /\ TokenIn(Ordinal(t), 1) /\ Ordinal(t).n = t.n /\ (Octal(Ordinal(t)) => Octal(t))
         /\ t # Star /\ t # AnyDay /\ Ordinal(t) # Star
<1>1. t.n \in Nat /\ (t = Num(t.n) \/ t = Zero(t.n) \/ t = Name(t.n))
  BY Zenon DEF TokenIn
<1> DEFINE n == t.n
<1>2. n \in Nat /\ (t = Num(n) \/ t = Zero(n) \/ t = Name(n))
  BY Zenon, <1>1
<1> HIDE DEF n
<1>3. CASE t = Num(n)
  BY SMT, <1>2, <1>3 DEF Num, Ordinal, TokenIn, Octal, Star, AnyDay
<1>4. CASE t = Zero(n)
  BY SMT, <1>2, <1>4 DEF Num, Zero, Ordinal, TokenIn, Octal, Star, AnyDay
<1>5. CASE t = Name(n)
  BY SMT, <1>2, <1>5 DEF Num, Name, Ordinal, TokenIn, Octal, Star, AnyDay
<1>6. QED
  BY Zenon, <1>2, <1>3, <1>4, <1>5

(* q names what r names. *)
SameRange(q, r) ==
  /\ RangeIn(q, 1) /\ Len(q) = Len(r)
  /\ q = <<Star>> <=> r = <<Star>>
  /\ r # <<Star>> => q[1].n = r[1].n
  /\ Len(r) = 2 => q[2].n = r[2].n
  /\ OctalIn(q) => OctalIn(r)

(* So is a range with numbers in place of names, *)
LEMMA RangeReplaced ==
  ASSUME NEW i, NEW r, RangeIn(r, i)
  PROVE  SameRange(ReplacedRange(r), r)
<1> DEFINE q == ReplacedRange(r)
<1>1. CASE r = <<Star>>
  <2>1. Ordinal(Star) = Star
    BY SMT DEF Star, Ordinal
  <2>2. q = r /\ Len(r) = 1
    BY SMT, <1>1, <2>1 DEF ReplacedRange
  <2>3. 1 # 2
    BY SMT
  <2> HIDE DEF q
  <2>4. SameRange(q, r)
    BY Zenon, <1>1, <2>2, <2>3 DEF SameRange, RangeIn
  <2>5. QED
    BY Zenon, <2>4 DEF q
<1>2. CASE OneToken(r, i)
  <2>1. PICK t : TokenIn(t, i) /\ r = <<t>>
    BY Zenon, <1>2 DEF OneToken
  <2> DEFINE u == Ordinal(t)
  <2>2. TokenIn(u, 1) /\ u.n = t.n /\ (Octal(u) => Octal(t)) /\ t # Star /\ u # Star
    BY Zenon, <2>1, TokenReplaced
  <2>3. q = <<u>>
    BY SMT, <2>1 DEF ReplacedRange
  <2> HIDE DEF q, u
  <2>4. Len(q) = 1 /\ Len(r) = 1 /\ q # <<Star>> /\ r # <<Star>> /\ q[1] = u /\ r[1] = t
        /\ q = <<q[1]>> /\ (OctalIn(q) => OctalIn(r)) /\ 1 # 2
    BY SMT, <2>1, <2>2, <2>3 DEF OctalIn, ToSet
  <2>5. SameRange(q, r)
    BY Zenon, <2>2, <2>4 DEF SameRange, RangeIn
  <2>6. QED
    BY Zenon, <2>5 DEF q
<1>3. CASE TwoTokens(r, i)
  <2>1. PICK t, u : TokenIn(t, i) /\ TokenIn(u, i) /\ r = <<t, u>>
    BY Zenon, <1>3 DEF TwoTokens
  <2> DEFINE v == Ordinal(t)
             w == Ordinal(u)
  <2>2. /\ TokenIn(v, 1) /\ v.n = t.n /\ (Octal(v) => Octal(t))
        /\ TokenIn(w, 1) /\ w.n = u.n /\ (Octal(w) => Octal(u))
    BY Zenon, <2>1, TokenReplaced
  <2>3. q = <<v, w>>
    BY SMT, <2>1 DEF ReplacedRange
  <2> HIDE DEF q, v, w
  <2>4. /\ Len(q) = 2 /\ Len(r) = 2 /\ q # <<Star>> /\ r # <<Star>>
        /\ q[1] = v /\ r[1] = t /\ q[2] = w /\ r[2] = u /\ q = <<q[1], q[2]>>
    BY SMT, <2>1, <2>2, <2>3
  <2>5. OctalIn(q) => OctalIn(r)
    <3>1. OctalIn(q) <=> Octal(v) \/ Octal(w)
      BY SMT, <2>3 DEF OctalIn, ToSet
    <3>2. OctalIn(r) <=> Octal(t) \/ Octal(u)
      BY SMT, <2>1 DEF OctalIn, ToSet
    <3>3. QED
      BY Zenon, <2>2, <3>1, <3>2
  <2>6. SameRange(q, r)
    BY Zenon, <2>2, <2>4, <2>5 DEF SameRange, RangeIn
  <2>7. QED
    BY Zenon, <2>6 DEF q
<1>4. QED
  BY Zenon, <1>1, <1>2, <1>3, RangeShapes

SameShape(q, p) ==
  /\ Len(p) \in {1, 2} /\ Len(q) = Len(p) /\ SameRange(q[1], p[1])
  /\ Len(p) = 2 => q[2][1].n = p[2][1].n

SameNumbers(q, p) == \A min, max : Named(q, min, max) = Named(p, min, max)

SamePart(q, p) ==
  /\ PartIn(q, 1)
  /\ SameNumbers(q, p)
  /\ OctalInPart(q) => OctalInPart(p)

(* a part with such a range, *)
LEMMA SameRangeSamePart ==
  ASSUME NEW p, NEW q, SameShape(q, p)
  PROVE  SameNumbers(q, p)
<1> SUFFICES ASSUME NEW min, NEW max PROVE Named(q, min, max) = Named(p, min, max)
  BY Zenon DEF SameNumbers
<1> DEFINE lo(r) == IF r = <<Star>> THEN min ELSE r[1].n
           hi(r) == IF Len(r) = 2 THEN r[2].n
                    ELSE IF r = <<Star>> \/ Len(p) = 2 THEN max - 1 ELSE lo(r)
           by(s) == IF Len(p) = 2 THEN s[2][1].n ELSE 1
<1>1. Named(q, min, max) = NamedHits(lo(q[1]), hi(q[1]), by(q), min, max)
  BY Zenon DEF Named, NamedHits, SameShape
<1>2. Named(p, min, max) = NamedHits(lo(p[1]), hi(p[1]), by(p), min, max)
  BY Zenon DEF Named, NamedHits, SameShape
<1>3. lo(q[1]) = lo(p[1])
  BY Zenon DEF SameRange, SameShape
<1>4. hi(q[1]) = hi(p[1])
  <2> HIDE DEF lo
  <2>1. QED
    BY Zenon, <1>3 DEF SameRange, SameShape
<1>5. by(q) = by(p)
  BY Zenon DEF SameShape
<1> HIDE DEF lo, hi, by
<1>6. QED
  BY Zenon, <1>1, <1>2, <1>3, <1>4, <1>5

(* and every part of a field of months or of weekdays. *)
LEMMA PartReplaced ==
  ASSUME NEW i, NEW p, PartIn(p, i)
  PROVE  SamePart(ReplacedPart(p), p) /\ p # <<<<AnyDay>>>>
<1> DEFINE q == ReplacedPart(p)
           r == p[1]
           s == ReplacedRange(r)
<1>1. RangeIn(r, i) /\ SameRange(s, r)
  BY Zenon, RangeReplaced DEF PartIn
<1>2. p # <<<<AnyDay>>>>
  <2>1. r # <<AnyDay>>
    <3>1. r = <<AnyDay>> => r # <<Star>> /\ r[1] = AnyDay /\ Len(r) # 2
      BY SMT DEF AnyDay, Star
    <3>2. QED
      BY Zenon, <1>1, <3>1, TokenReplaced DEF RangeIn
  <2>2. p = <<<<AnyDay>>>> => p[1] = <<AnyDay>>
    BY SMT
  <2>3. QED
    BY Zenon, <2>1, <2>2
<1>3. CASE Len(p) = 1
  <2>1. p = <<r>>
    <3>1. 1 # 2
      BY SMT
    <3>2. QED
      BY Zenon, <1>3, <3>1 DEF PartIn
  <2>2. q = <<s>>
    <3> HIDE DEF r
    <3>1. QED
      BY SMT, <2>1 DEF ReplacedPart
  <2> HIDE DEF q, r, s
  <2>3. Len(q) = 1 /\ q[1] = s /\ q = <<q[1]>> /\ p[1] = r /\ 1 # 2
    BY SMT, <2>1, <2>2
  <2>4. PartIn(q, 1)
    BY Zenon, <1>1, <2>3 DEF PartIn, SameRange
  <2>5. OctalInPart(q) <=> OctalIn(s)
    BY SMT, <2>2 DEF OctalInPart, ToSet
  <2>6. OctalInPart(p) <=> OctalIn(r)
    BY SMT, <2>1 DEF OctalInPart, ToSet
  <2>7. SameNumbers(q, p)
    <3>1. SameShape(q, p)
      BY Zenon, <1>1, <1>3, <2>3 DEF SameShape
    <3>2. QED
      BY Zenon, <3>1, SameRangeSamePart
  <2>8. SamePart(q, p)
    BY Zenon, <1>1, <2>4, <2>5, <2>6, <2>7 DEF SamePart, SameRange
  <2>9. QED
    BY Zenon, <1>2, <2>8 DEF q
<1>4. CASE Len(p) = 2
  <2> DEFINE t == p[2][1]
             u == Ordinal(t)
  <2>1. p = <<r, <<t>>>> /\ TokenIn(t, i)
    <3>1. 1 # 2
      BY SMT
    <3>2. QED
      BY Zenon, <1>4, <3>1 DEF PartIn
  <2>2. TokenIn(u, 1) /\ u.n = t.n /\ (Octal(u) => Octal(t))
    BY Zenon, <2>1, TokenReplaced
  <2>3. q = <<s, <<u>>>>
    <3> HIDE DEF r, t
    <3>1. QED
      BY SMT, <2>1 DEF ReplacedPart, ReplacedRange, s
  <2> HIDE DEF q, r, s, t, u
  <2>4. Len(q) = 2 /\ q[1] = s /\ q[2] = <<u>> /\ q[2][1] = u /\ q = <<q[1], <<q[2][1]>>>>
        /\ p[1] = r /\ p[2][1] = t
    BY SMT, <2>1, <2>3
  <2>5. PartIn(q, 1)
    BY Zenon, <1>1, <2>2, <2>4 DEF PartIn, SameRange
  <2>6. OctalInPart(q) <=> OctalIn(s) \/ Octal(u)
    BY SMT, <2>3 DEF OctalInPart, OctalIn, ToSet
  <2>7. OctalInPart(p) <=> OctalIn(r) \/ Octal(t)
    BY SMT, <2>1 DEF OctalInPart, OctalIn, ToSet
  <2>8. SameNumbers(q, p)
    <3>1. SameShape(q, p)
      BY Zenon, <1>1, <1>4, <2>2, <2>4 DEF SameShape
    <3>2. QED
      BY Zenon, <3>1, SameRangeSamePart
  <2>9. SamePart(q, p)
    BY Zenon, <1>1, <2>2, <2>5, <2>6, <2>7, <2>8 DEF SamePart, SameRange
  <2>10. QED
    BY Zenon, <1>2, <2>9 DEF q
<1>5. QED
  BY Zenon, <1>3, <1>4 DEF PartIn

(***************************************************************************)
(* The fields                                                               *)
(***************************************************************************)

(* What set_number_hits is given for the i-th field f, and what it is meant to say *)
Heard(f, i) ==
  IF i = 6 THEN AnyIsStar(replace_ordinals(f))
  ELSE IF i = 5 THEN replace_ordinals(f)
  ELSE IF i = 4 THEN AnyIsStar(f) ELSE f
Meant(f, i) == IF i \in {4, 6} THEN AnyIsStar(f) ELSE f

FieldKept(g, h, f) ==
  /\ DOMAIN g # {} /\ DOMAIN g = DOMAIN h
  /\ \A k \in DOMAIN g : PartIn(g[k], 1) /\ SameNumbers(g[k], h[k])
                         /\ (OctalInPart(g[k]) => k \in DOMAIN f /\ OctalInPart(f[k]))

(* The other fields have no names. *)
LEMMA NoNames ==
  ASSUME NEW i \in {1, 2, 3, 4}, NEW p, PartIn(p, i)
  PROVE  PartIn(p, 1)
<1>1. i \notin {5, 6} /\ 1 \notin {5, 6}
  BY SMT
<1>2. \A t : TokenIn(t, i) => TokenIn(t, 1)
  BY Zenon, <1>1 DEF TokenIn
<1>3. \A r : RangeIn(r, i) => RangeIn(r, 1)
  BY Zenon, <1>2 DEF RangeIn
<1>4. QED
  BY Zenon, <1>2, <1>3 DEF PartIn

(* What set_number_hits is given names what the field names. *)
LEMMA FieldHeard ==
  ASSUME NEW i \in 1 .. 6, NEW f, FieldIn(f, i)
  PROVE  FieldKept(Heard(f, i), Meant(f, i), f)
<1> DEFINE any == <<<<<<AnyDay>>>>>>
           all == <<<<<<Star>>>>>>
           n == replace_ordinals(f)
<1>1. CASE i \in {4, 6} /\ f = any
  <2>1. n = f
    <3>1. Ordinal(AnyDay) = AnyDay
      BY SMT DEF AnyDay, Ordinal
    <3>2. QED
      BY SMT, <1>1, <3>1 DEF replace_ordinals
  <2>2. Heard(f, i) = all /\ Meant(f, i) = all
    <3>1. 4 # 5 /\ 4 # 6
      BY SMT
    <3>2. QED
      BY Zenon, <1>1, <2>1, <3>1 DEF Heard, Meant, AnyIsStar
  <2>3. PartIn(<<<<Star>>>>, 1) /\ ~OctalInPart(<<<<Star>>>>)
    <3>1. RangeIn(<<Star>>, 1)
      BY Zenon DEF RangeIn
    <3>2. Len(<<<<Star>>>>) = 1 /\ <<<<Star>>>>[1] = <<Star>> /\ ~Octal(Star)
      BY SMT DEF Octal, Star
    <3>3. ~OctalInPart(<<<<Star>>>>)
      BY SMT, <3>2 DEF OctalInPart, OctalIn, ToSet
    <3>4. QED
      BY Zenon, <3>1, <3>2, <3>3 DEF PartIn
  <2>4. DOMAIN all # {} /\ \A k \in DOMAIN all : all[k] = <<<<Star>>>>
    BY SMT
  <2> HIDE DEF all
  <2>5. QED
    BY Zenon, <2>2, <2>3, <2>4 DEF FieldKept, SameNumbers
<1>2. CASE ~(i \in {4, 6} /\ f = any)
  <2>1. DOMAIN f # {} /\ \A k \in DOMAIN f : PartIn(f[k], i)
    BY Zenon, <1>2 DEF FieldIn
  <2>2. DOMAIN n = DOMAIN f /\ \A k \in DOMAIN f : n[k] = ReplacedPart(f[k])
    BY Zenon DEF replace_ordinals, ReplacedPart, ReplacedRange
  <2>3. \A k \in DOMAIN f : SamePart(n[k], f[k]) /\ f[k] # <<<<AnyDay>>>> /\ PartIn(n[k], 1)
    BY Zenon, <2>1, <2>2, PartReplaced DEF SamePart
  <2>4. \A k \in DOMAIN f : n[k] # <<<<AnyDay>>>>
    BY Zenon, <2>3, PartReplaced
  <2> HIDE DEF n
  <2>5. \A g : g = any => 1 \in DOMAIN g /\ g[1] = <<<<AnyDay>>>>
    BY SMT
  <2>6. AnyIsStar(f) = f /\ AnyIsStar(n) = n
    BY Zenon, <2>2, <2>3, <2>4, <2>5 DEF AnyIsStar
  <2>7. Meant(f, i) = f
    BY Zenon, <2>6 DEF Meant
  <2>8. CASE i \in {5, 6}
    <3>1. Heard(f, i) = n
      BY Zenon, <2>6, <2>8 DEF Heard, n
    <3>2. QED
      BY Zenon, <2>1, <2>2, <2>3, <2>7, <3>1 DEF FieldKept, SamePart
  <2>9. CASE i \notin {5, 6}
    <3>1. i \in {1, 2, 3, 4} /\ i # 5 /\ i # 6
      BY SMT, <2>9
    <3>2. Heard(f, i) = f
      BY Zenon, <2>6, <3>1 DEF Heard
    <3>3. \A k \in DOMAIN f : PartIn(f[k], 1)
      BY Zenon, <2>1, <3>1, NoNames
    <3>4. QED
      BY Zenon, <2>1, <2>7, <3>2, <3>3 DEF FieldKept, SameNumbers
  <2>10. QED
    BY Zenon, <2>8, <2>9
<1>3. QED
  BY Zenon, <1>1, <1>2

(* S is in range; it is what the parts N name, empty if one of them names nothing. *)
Understood(S, N, min, max, plain) ==
  /\ S \in SUBSET (min .. max - 1)
  /\ plain => (S = {} <=> {} \in N) /\ (S # {} => S = UNION N)

OctalInField(f) == \E k \in DOMAIN f : OctalInPart(f[k])

(* set_number_hits collects what the parts name, or nothing if one names nothing. *)
LEMMA FieldRead ==
  ASSUME NEW min \in Nat, NEW max \in Nat, min < max, max - 1 <= IntMax,
         NEW g, NEW h, NEW f, FieldKept(g, h, f)
  PROVE  Understood(set_number_hits(g, min, max), {Named(h[k], min, max) : k \in DOMAIN h},
                    min, max, ~OctalInField(f))
<1> DEFINE S == set_number_hits(g, min, max)
           hits == [k \in DOMAIN g |-> PartHits(g[k], min, max)]
           N == {Named(h[k], min, max) : k \in DOMAIN h}
<1>1. /\ DOMAIN g # {} /\ DOMAIN g = DOMAIN h
      /\ \A k \in DOMAIN g : PartIn(g[k], 1) /\ SameNumbers(g[k], h[k])
                             /\ (OctalInPart(g[k]) => k \in DOMAIN f /\ OctalInPart(f[k]))
  BY Zenon DEF FieldKept
<1>2. \A k \in DOMAIN g : hits[k] = ReadPart(g[k], min, max)
  BY Zenon, <1>1, PartRead
<1>3. DOMAIN hits = DOMAIN g
  BY Zenon
<1>4. g # <<>>
  <2>1. DOMAIN <<>> = {}
    BY SMT
  <2>2. QED
    BY Zenon, <1>1, <2>1
<1>5. S = IF \E k \in DOMAIN hits : hits[k] = {} THEN {} ELSE UNION {hits[k] : k \in DOMAIN hits}
  BY Zenon, <1>4 DEF set_number_hits
<1> HIDE DEF hits, S
<1>6. S \in SUBSET (min .. max - 1)
  <2>1. \A k \in DOMAIN g : hits[k] \in SUBSET (min .. max - 1)
    BY Zenon, <1>2 DEF ReadPart, Hits
  <2>2. QED
    BY Zenon, <1>3, <1>5, <2>1
<1>7. ASSUME ~OctalInField(f) PROVE (S = {} <=> {} \in N) /\ (S # {} => S = UNION N)
  <2>1. \A k \in DOMAIN g : hits[k] = Named(h[k], min, max)
    <3> SUFFICES ASSUME NEW k \in DOMAIN g PROVE hits[k] = Named(h[k], min, max)
      BY Zenon
    <3>1. PartIn(g[k], 1) /\ ~OctalInPart(g[k]) /\ Named(g[k], min, max) = Named(h[k], min, max)
      BY Zenon, <1>1, <1>7 DEF OctalInField, SameNumbers
    <3>2. ReadPart(g[k], min, max) = Named(g[k], min, max)
      BY Zenon, <3>1, ReadAsNamed
    <3>3. QED
      BY Zenon, <1>2, <3>1, <3>2
  <2>2. N = {hits[k] : k \in DOMAIN hits}
    BY Zenon, <1>1, <1>3, <2>1
  <2>3. {} \in N <=> \E k \in DOMAIN hits : hits[k] = {}
    BY Zenon, <2>2
  <2> HIDE DEF N
  <2>4. CASE {} \in N
    BY Zenon, <1>5, <2>3, <2>4
  <2>5. CASE {} \notin N
    <3>1. S = UNION N
      BY Zenon, <1>5, <2>2, <2>3, <2>5
    <3>2. PICK k \in DOMAIN hits : TRUE
      BY Zenon, <1>1, <1>3
    <3>3. S # {}
      BY Zenon, <1>5, <2>3, <2>5, <3>2
    <3>4. QED
      BY Zenon, <2>5, <3>1, <3>3
  <2>6. QED
    BY Zenon, <2>4, <2>5
<1>8. QED
  BY Zenon, <1>6, <1>7 DEF Understood, S

(***************************************************************************)
(* The expression                                                           *)
(***************************************************************************)
Months(S)   == {m - 1 : m \in S}
Weekdays(S) == (S \ {7}) \union (IF 7 \in S THEN {0} ELSE {})

(* x is the expression of the six sets, or an error if one is empty. *)
Made(x, s, m, h, d, n, w) ==
  /\ x.ok \in BOOLEAN
  /\ x.ok <=> s # {} /\ m # {} /\ h # {} /\ d # {} /\ n # {} /\ w # {}
  /\ x.ok => /\ x.expr.sec = s /\ x.expr.min = m /\ x.expr.hour = h
             /\ x.expr.mday = d /\ x.expr.mon = Months(n) /\ x.expr.wday = Weekdays(w)

(* cron_parse_expr makes the expression of the six sets. *)
LEMMA ExpressionMade ==
  ASSUME NEW t, Len(t) = 6
  PROVE  Made(cron_parse_expr(t),
              set_number_hits(Heard(t[1], 1), 0, 60), set_number_hits(Heard(t[2], 2), 0, 60),
              set_number_hits(Heard(t[3], 3), 0, 24), set_number_hits(Heard(t[4], 4), 1, 32),
              set_number_hits(Heard(t[5], 5), 1, 13), set_number_hits(Heard(t[6], 6), 0, 8))
<1> DEFINE s == set_number_hits(Heard(t[1], 1), 0, 60)
           m == set_number_hits(Heard(t[2], 2), 0, 60)
           h == set_number_hits(Heard(t[3], 3), 0, 24)
           d == set_number_hits(Heard(t[4], 4), 1, 32)
           n == set_number_hits(Heard(t[5], 5), 1, 13)
           w == set_number_hits(Heard(t[6], 6), 0, 8)
           x == cron_parse_expr(t)
           e == [sec |-> s, min |-> m, hour |-> h, wday |-> Weekdays(w), mday |-> d, mon |-> Months(n)]
<1>1. /\ s = set_number_hits(t[1], 0, 60) /\ m = set_number_hits(t[2], 0, 60)
      /\ h = set_number_hits(t[3], 0, 24) /\ d = set_days_of_month(t[4])
      /\ Months(n) = set_months(t[5]) /\ w = set_days(t[6])
  <2>1. 12 + 1 = 13 /\ 1 # 6 /\ 1 # 5 /\ 1 # 4 /\ 2 # 6 /\ 2 # 5 /\ 2 # 4 /\ 3 # 6 /\ 3 # 5 /\ 3 # 4
        /\ 4 # 6 /\ 4 # 5 /\ 5 # 6
    BY SMT
  <2>2. /\ Heard(t[1], 1) = t[1] /\ Heard(t[2], 2) = t[2] /\ Heard(t[3], 3) = t[3]
        /\ Heard(t[4], 4) = AnyIsStar(t[4]) /\ Heard(t[5], 5) = replace_ordinals(t[5])
        /\ Heard(t[6], 6) = AnyIsStar(replace_ordinals(t[6]))
    BY Zenon, <2>1 DEF Heard
  <2>3. s = set_number_hits(t[1], 0, 60) /\ m = set_number_hits(t[2], 0, 60)
        /\ h = set_number_hits(t[3], 0, 24)
    BY Zenon, <2>2
  <2>4. d = set_days_of_month(t[4]) /\ w = set_days(t[6])
    BY Zenon, <2>2 DEF set_days_of_month, set_days
  <2>5. n = set_number_hits(replace_ordinals(t[5]), 1, 12 + 1)
    BY Zenon, <2>1, <2>2
  <2> HIDE DEF n
  <2>6. Months(n) = set_months(t[5])
    BY Zenon, <2>5 DEF Months, set_months
  <2>7. QED
    BY Zenon, <2>3, <2>4, <2>6
<1> HIDE DEF s, m, h, d, n, w
<1>2. x = IF \E f \in DOMAIN e : e[f] = {} THEN [ok |-> FALSE] ELSE [ok |-> TRUE, expr |-> e]
  <2> DEFINE y == [sec  |-> set_number_hits(t[1], 0, 60),
                   min  |-> set_number_hits(t[2], 0, 60),
                   hour |-> set_number_hits(t[3], 0, 24),
                   wday |-> Weekdays(set_days(t[6])),
                   mday |-> set_days_of_month(t[4]),
                   mon  |-> set_months(t[5])]
  <2>1. x = IF \E f \in DOMAIN y : y[f] = {} THEN [ok |-> FALSE] ELSE [ok |-> TRUE, expr |-> y]
    BY Zenon DEF cron_parse_expr, Weekdays
  <2>2. y = e
    BY SMT, <1>1
  <2> HIDE DEF x, y, e
  <2>3. QED
    BY Zenon, <2>1, <2>2
<1>3. /\ DOMAIN e = {"sec", "min", "hour", "wday", "mday", "mon"}
      /\ e.sec = s /\ e.min = m /\ e.hour = h /\ e.wday = Weekdays(w) /\ e.mday = d /\ e.mon = Months(n)
  BY SMT
<1>4. (Months(n) = {} <=> n = {}) /\ (Weekdays(w) = {} <=> w = {})
  <2>1. Months(n) = {} <=> n = {}
    BY Zenon DEF Months
  <2>2. Weekdays(w) = {} <=> w = {}
    BY SMT DEF Weekdays
  <2>3. QED
    BY Zenon, <2>1, <2>2
<1> HIDE DEF e, x
<1>5. (\E f \in DOMAIN e : e[f] = {}) <=>
        s = {} \/ m = {} \/ h = {} \/ d = {} \/ n = {} \/ w = {}
  BY Zenon, <1>3, <1>4
<1>6. CASE s = {} \/ m = {} \/ h = {} \/ d = {} \/ n = {} \/ w = {}
  <2>1. x = [ok |-> FALSE]
    BY Zenon, <1>2, <1>5, <1>6
  <2>2. x.ok = FALSE
    BY SMT, <2>1
  <2>3. QED
    BY Zenon, <1>6, <2>2 DEF Made, s, m, h, d, n, w, x
<1>7. CASE ~(s = {} \/ m = {} \/ h = {} \/ d = {} \/ n = {} \/ w = {})
  <2>1. x = [ok |-> TRUE, expr |-> e]
    BY Zenon, <1>2, <1>5, <1>7
  <2>2. x.ok = TRUE /\ x.expr = e
    BY SMT, <2>1
  <2>3. Made(x, s, m, h, d, n, w)
    BY Zenon, <1>3, <1>7, <2>2 DEF Made
  <2>4. QED
    BY Zenon, <2>3 DEF s, m, h, d, n, w, x
<1>8. QED
  BY Zenon, <1>6, <1>7

(* The parts the i-th field names *)
Parts(t, i, min, max) ==
  {Named(Meant(t[i], i)[k], min, max) : k \in DOMAIN Meant(t[i], i)}

Understands(t, i, min, max) ==
  Understood(set_number_hits(Heard(t[i], i), min, max), Parts(t, i, min, max), min, max,
             ~OctalInField(t[i]))

(* Each field is understood, *)
LEMMA FieldUnderstood ==
  ASSUME NEW t, NEW i \in 1 .. 6, FieldIn(t[i], i), NEW min \in Nat, NEW max \in Nat,
         min < max, max - 1 <= IntMax
  PROVE  Understands(t, i, min, max)
BY Zenon, FieldHeard, FieldRead DEF Understands, Parts

(* and so is the whole text. *)
LEMMA TextUnderstood ==
  ASSUME NEW t \in Texts
  PROVE  /\ Understands(t, 1, 0, 60) /\ Understands(t, 2, 0, 60) /\ Understands(t, 3, 0, 24)
         /\ Understands(t, 4, 1, 32) /\ Understands(t, 5, 1, 13) /\ Understands(t, 6, 0, 8)
<1>1. /\ 0 \in Nat /\ 1 \in Nat /\ 60 \in Nat /\ 24 \in Nat /\ 32 \in Nat /\ 13 \in Nat /\ 8 \in Nat
      /\ 0 < 60 /\ 0 < 24 /\ 1 < 32 /\ 1 < 13 /\ 0 < 8
      /\ 60 - 1 <= IntMax /\ 24 - 1 <= IntMax /\ 32 - 1 <= IntMax /\ 13 - 1 <= IntMax /\ 8 - 1 <= IntMax
      /\ 1 \in 1 .. 6 /\ 2 \in 1 .. 6 /\ 3 \in 1 .. 6 /\ 4 \in 1 .. 6 /\ 5 \in 1 .. 6 /\ 6 \in 1 .. 6
  BY SMT, IntMaxAssumption
<1>2. \A i \in 1 .. 6 : FieldIn(t[i], i)
  BY Zenon, TextsAssumption
<1>3. Understands(t, 1, 0, 60) /\ Understands(t, 2, 0, 60) /\ Understands(t, 3, 0, 24)
  BY Zenon, <1>1, <1>2, FieldUnderstood
<1>4. Understands(t, 4, 1, 32) /\ Understands(t, 5, 1, 13) /\ Understands(t, 6, 0, 8)
  BY Zenon, <1>1, <1>2, FieldUnderstood
<1>5. QED
  BY Zenon, <1>3, <1>4

(* An accepted text with one kind of day makes an expression the search is right for. *)
LEMMA ParsedJob ==
  ASSUME NEW t \in Texts, NEW e, cron_parse_expr(t).ok, e = cron_parse_expr(t).expr,
         e.mday = 1 .. 31 \/ e.wday = 0 .. 6
  PROVE  Job(e)
<1> DEFINE s == set_number_hits(Heard(t[1], 1), 0, 60)
           m == set_number_hits(Heard(t[2], 2), 0, 60)
           h == set_number_hits(Heard(t[3], 3), 0, 24)
           d == set_number_hits(Heard(t[4], 4), 1, 32)
           n == set_number_hits(Heard(t[5], 5), 1, 13)
           w == set_number_hits(Heard(t[6], 6), 0, 8)
<1>1. Made(cron_parse_expr(t), s, m, h, d, n, w)
  BY Zenon, TextsAssumption, ExpressionMade
<1>2. /\ s \in SUBSET (0 .. 60 - 1) /\ m \in SUBSET (0 .. 60 - 1) /\ h \in SUBSET (0 .. 24 - 1)
      /\ d \in SUBSET (1 .. 32 - 1) /\ n \in SUBSET (1 .. 13 - 1) /\ w \in SUBSET (0 .. 8 - 1)
  <2>1. s \in SUBSET (0 .. 60 - 1)
    BY Zenon, TextUnderstood DEF Understands, Understood
  <2>2. m \in SUBSET (0 .. 60 - 1)
    BY Zenon, TextUnderstood DEF Understands, Understood
  <2>3. h \in SUBSET (0 .. 24 - 1)
    BY Zenon, TextUnderstood DEF Understands, Understood
  <2>4. d \in SUBSET (1 .. 32 - 1)
    BY Zenon, TextUnderstood DEF Understands, Understood
  <2>5. n \in SUBSET (1 .. 13 - 1)
    BY Zenon, TextUnderstood DEF Understands, Understood
  <2>6. w \in SUBSET (0 .. 8 - 1)
    BY Zenon, TextUnderstood DEF Understands, Understood
  <2> HIDE DEF s, m, h, d, n, w
  <2>7. QED
    BY Zenon, <2>1, <2>2, <2>3, <2>4, <2>5, <2>6
<1> HIDE DEF s, m, h, d, n, w
<1>3. /\ s # {} /\ m # {} /\ h # {} /\ d # {} /\ n # {} /\ w # {}
      /\ e.sec = s /\ e.min = m /\ e.hour = h /\ e.mday = d /\ e.mon = Months(n) /\ e.wday = Weekdays(w)
  BY Zenon, <1>1 DEF Made
<1>4. 32 - 1 = 31
  BY SMT
<1>5. Months(n) \in SUBSET (0 .. 11) /\ Months(n) # {}
  <2>1. \A x \in 1 .. 13 - 1 : x - 1 \in 0 .. 11
    BY SMT
  <2>2. QED
    <3>1. Months(n) # {}
      BY Zenon, <1>3 DEF Months
    <3>2. \A y \in Months(n) : \E z \in 1 .. 13 - 1 : y = z - 1
      BY Zenon, <1>2 DEF Months
    <3>3. \A y \in Months(n) : y \in 0 .. 11
      BY Zenon, <2>1, <3>2
    <3> DEFINE N == Months(n)
    <3> HIDE DEF N
    <3>4. N \in SUBSET (0 .. 11)
      BY Zenon, <3>3 DEF N
    <3>5. QED
      BY Zenon, <3>1, <3>4 DEF N
<1>6. Weekdays(w) \in SUBSET (0 .. 6) /\ Weekdays(w) # {}
  BY SMT, <1>2, <1>3 DEF Weekdays
<1>7. QED
  BY Zenon, <1>2, <1>3, <1>4, <1>5, <1>6 DEF Job, Digits

(***************************************************************************)
(* The life of a job                                                        *)
(***************************************************************************)

(* The text never changes, and the expression is what the parser made of it. *)
TextKept ==
  /\ text \in Texts
  /\ state \in {"new", "rejected", "waiting", "never"}
  /\ state # "new" => expr = cron_parse_expr(text)
  /\ state = "rejected" => ~expr.ok
  /\ Accepted => expr.ok

(* At the start nothing is parsed yet. *)
LEMMA TextKeptInit ==
  ASSUME Init
  PROVE  TextKept
BY Zenon DEF Init, TextKept, Accepted

(* A scheduled job waits, or never fires. *)
LEMMA ScheduleStates ==
  ASSUME NEW e, NEW d, Schedule(e, d)
  PROVE  state' \in {"waiting", "never"}
BY Zenon DEF Schedule, SetNext

(* Only Create changes the expression. *)
LEMMA TextKeptNext ==
  ASSUME TextKept, [Next]_vars
  PROVE  TextKept'
<1>1. CASE Create
  <2>1. text' = text /\ text \in Texts /\ expr' = cron_parse_expr(text)
    BY Zenon, <1>1 DEF Create, TextKept
  <2>2. CASE expr'.ok
    <3>1. state' \in {"waiting", "never"}
      BY Zenon, <1>1, <2>2, ScheduleStates DEF Create
    <3>2. state' # "new" /\ state' # "rejected" /\ state' \in {"new", "rejected", "waiting", "never"}
      BY SMT, <3>1
    <3>3. QED
      BY Zenon, <2>1, <2>2, <3>2 DEF TextKept, Accepted
  <2>3. CASE ~expr'.ok
    <3>1. state' = "rejected"
      BY Zenon, <1>1, <2>3 DEF Create
    <3>2. state' \notin {"waiting", "never"} /\ state' # "new"
      BY SMT, <3>1
    <3>3. QED
      BY Zenon, <2>1, <2>3, <3>1, <3>2 DEF TextKept, Accepted
  <2>4. QED
    BY Zenon, <2>2, <2>3
<1>2. CASE Fire
  <2>1. state' \in {"waiting", "never"}
    BY Zenon, <1>2, ScheduleStates DEF Fire
  <2>2. state' # "new" /\ state' # "rejected" /\ state' \in {"new", "rejected", "waiting", "never"}
    BY SMT, <2>1
  <2>3. text' = text /\ expr' = expr /\ state = "waiting"
    BY Zenon, <1>2 DEF Fire
  <2>4. state # "new" /\ Accepted
    BY SMT, <2>3 DEF Accepted
  <2>5. QED
    BY Zenon, <2>2, <2>3, <2>4 DEF TextKept, Accepted
<1>3. CASE UNCHANGED vars
  BY Zenon, <1>3 DEF vars, TextKept, Accepted
<1>4. QED
  BY Zenon, <1>1, <1>2, <1>3 DEF Next

(* S is what the parts with the values N stand for together. *)
Fits(S, N) == (S = {} <=> {} \in N) /\ (S # {} => S = UNION N)

(* A field without octal numbers is what its parts name together. *)
LEMMA FieldFits ==
  ASSUME NEW t, NEW i, NEW min, NEW max, Understands(t, i, min, max), ~OctalInField(t[i]),
         NEW N, N = Parts(t, i, min, max)
  PROVE  Fits(set_number_hits(Heard(t[i], i), min, max), N)
BY Zenon DEF Understands, Understood, Fits

(* The bounds of the six fields *)
FieldBounds == <<<<0, 60>>, <<0, 60>>, <<0, 24>>, <<1, 32>>, <<1, 13>>, <<0, 8>>>>

(* NamedParts is what a field is understood as, *)
LEMMA NamedPartsAt ==
  ASSUME NEW i \in 1 .. 6, NEW min, NEW max, FieldBounds[i] = <<min, max>>
  PROVE  NamedParts[i] = Parts(text, i, min, max)
<1> DEFINE bounds == <<<<0, 60>>, <<0, 60>>, <<0, 24>>, <<1, 32>>, <<1, 13>>, <<0, 8>>>>
<1>1. bounds[i][1] = min /\ bounds[i][2] = max
  BY SMT DEF FieldBounds
<1> DEFINE plain(j) == IF j \in {4, 6} THEN AnyIsStar(text[j]) ELSE text[j]
           F == [j \in 1 .. 6 |-> {Named(plain(j)[k], bounds[j][1], bounds[j][2]) : k \in DOMAIN plain(j)}]
<1>2. NamedParts = F
  BY Zenon DEF NamedParts
<1> DEFINE A == plain(i)
<1>3. A = Meant(text[i], i)
  BY Zenon DEF Meant
<1> HIDE DEF bounds
<1>4. F[i] = {Named(plain(i)[k], bounds[i][1], bounds[i][2]) : k \in DOMAIN plain(i)}
  BY Zenon
<1>5. F[i] = {Named(A[k], min, max) : k \in DOMAIN A}
  BY Zenon, <1>4, <1>1
<1> HIDE DEF F, A
<1>6. QED
  BY Zenon, <1>2, <1>3, <1>5 DEF Parts

(* for all six of them. *)
LEMMA NamedPartsAre ==
  /\ NamedParts[1] = Parts(text, 1, 0, 60) /\ NamedParts[2] = Parts(text, 2, 0, 60)
  /\ NamedParts[3] = Parts(text, 3, 0, 24) /\ NamedParts[4] = Parts(text, 4, 1, 32)
  /\ NamedParts[5] = Parts(text, 5, 1, 13) /\ NamedParts[6] = Parts(text, 6, 0, 8)
<1>1. NamedParts[1] = Parts(text, 1, 0, 60)
  <2>1. 1 \in 1 .. 6 /\ FieldBounds[1] = <<0, 60>>
    BY SMT DEF FieldBounds
  <2>2. QED
    BY SMT, <2>1, NamedPartsAt
<1>2. NamedParts[2] = Parts(text, 2, 0, 60)
  <2>1. 2 \in 1 .. 6 /\ FieldBounds[2] = <<0, 60>>
    BY SMT DEF FieldBounds
  <2>2. QED
    BY SMT, <2>1, NamedPartsAt
<1>3. NamedParts[3] = Parts(text, 3, 0, 24)
  <2>1. 3 \in 1 .. 6 /\ FieldBounds[3] = <<0, 24>>
    BY SMT DEF FieldBounds
  <2>2. QED
    BY SMT, <2>1, NamedPartsAt
<1>4. NamedParts[4] = Parts(text, 4, 1, 32)
  <2>1. 4 \in 1 .. 6 /\ FieldBounds[4] = <<1, 32>>
    BY SMT DEF FieldBounds
  <2>2. QED
    BY SMT, <2>1, NamedPartsAt
<1>5. NamedParts[5] = Parts(text, 5, 1, 13)
  <2>1. 5 \in 1 .. 6 /\ FieldBounds[5] = <<1, 13>>
    BY SMT DEF FieldBounds
  <2>2. QED
    BY SMT, <2>1, NamedPartsAt
<1>6. NamedParts[6] = Parts(text, 6, 0, 8)
  <2>1. 6 \in 1 .. 6 /\ FieldBounds[6] = <<0, 8>>
    BY SMT DEF FieldBounds
  <2>2. QED
    BY SMT, <2>1, NamedPartsAt
<1>7. QED
  BY Zenon, <1>1, <1>2, <1>3, <1>4, <1>5, <1>6

(* Counting the months from 0 loses none. *)
LEMMA MonthsBack ==
  ASSUME NEW n \in SUBSET Int
  PROVE  {k + 1 : k \in Months(n)} = n
<1>1. ASSUME NEW y \in n
      PROVE  y \in {k + 1 : k \in Months(n)}
  <2>1. y - 1 \in Months(n) /\ y = (y - 1) + 1
    BY SMT DEF Months
  <2>2. QED
    BY Zenon, <2>1
<1>2. ASSUME NEW y \in {k + 1 : k \in Months(n)}
      PROVE  y \in n
  <2>1. PICK k \in Months(n) : y = k + 1
    BY Zenon, <1>2
  <2>2. PICK j \in n : k = j - 1
    BY Zenon, <2>1 DEF Months
  <2>3. y = j
    BY SMT, <2>1, <2>2
  <2>4. QED
    BY Zenon, <2>2, <2>3
<1>3. QED
  BY Zenon, <1>1, <1>2

(* Sunday is 0 and 7. *)
LEMMA WeekdaysAre ==
  ASSUME NEW w \in SUBSET (0 .. 7)
  PROVE  Weekdays(w) = {k \in 0 .. 6 : k \in w \/ (k = 0 /\ 7 \in w)}
<1> DEFINE R == {k \in 0 .. 6 : k \in w \/ (k = 0 /\ 7 \in w)}
<1>1. ASSUME NEW y
      PROVE  y \in Weekdays(w) <=> y \in R
  <2>1. y \in Weekdays(w) <=> (y \in w /\ y # 7) \/ (7 \in w /\ y = 0)
    BY Zenon DEF Weekdays
  <2>2. y \in w => y \in 0 .. 7
    OBVIOUS
  <2>3. y \in 0 .. 7 => (y \in 0 .. 6 <=> y # 7)
    BY SMT
  <2>4. 0 \in 0 .. 6 /\ (y \in 0 .. 6 => y # 7)
    BY SMT
  <2>5. QED
    BY Zenon, <2>1, <2>2, <2>3, <2>4
<1> HIDE DEF R
<1>2. Weekdays(w) = R
  BY Zenon, <1>1
<1>3. QED
  BY Zenon, <1>2 DEF R

(* So an expression allows what the text names. *)
LEMMA TextKeptWritten ==
  ASSUME TextKept
  PROVE  ParsedAsWritten
<1> DEFINE t == text
           x == cron_parse_expr(t)
           s == set_number_hits(Heard(t[1], 1), 0, 60)
           m == set_number_hits(Heard(t[2], 2), 0, 60)
           h == set_number_hits(Heard(t[3], 3), 0, 24)
           d == set_number_hits(Heard(t[4], 4), 1, 32)
           n == set_number_hits(Heard(t[5], 5), 1, 13)
           w == set_number_hits(Heard(t[6], 6), 0, 8)
<1>1. CASE \E i \in 1 .. 6 : OctalInField(t[i])
  <2>1. \E i \in 1 .. 6 : \E part \in ToSet(text[i]) :
          \E range \in ToSet(part) : \E u \in ToSet(range) : Octal(u)
    BY Zenon, <1>1 DEF OctalInField, OctalInPart, OctalIn, ToSet
  <2>2. QED
    BY Zenon, <2>1 DEF ParsedAsWritten
<1>2. CASE ~\E i \in 1 .. 6 : OctalInField(t[i])
  <2> DEFINE P == NamedParts
  <2>1. /\ P[1] = Parts(t, 1, 0, 60) /\ P[2] = Parts(t, 2, 0, 60) /\ P[3] = Parts(t, 3, 0, 24)
        /\ P[4] = Parts(t, 4, 1, 32) /\ P[5] = Parts(t, 5, 1, 13) /\ P[6] = Parts(t, 6, 0, 8)
    BY Zenon, NamedPartsAre
  <2> HIDE DEF P
  <2>2. Made(x, s, m, h, d, n, w) /\ t \in Texts
    BY Zenon, TextsAssumption, ExpressionMade DEF TextKept
  <2>3. \A i \in 1 .. 6 : ~OctalInField(t[i])
    BY Zenon, <1>2
  <2>4. /\ Fits(s, P[1]) /\ Fits(m, P[2]) /\ Fits(h, P[3])
        /\ Fits(d, P[4]) /\ Fits(n, P[5]) /\ Fits(w, P[6])
    <3>1. 1 \in 1 .. 6 /\ 2 \in 1 .. 6 /\ 3 \in 1 .. 6 /\ 4 \in 1 .. 6 /\ 5 \in 1 .. 6 /\ 6 \in 1 .. 6
      BY SMT
    <3>2. /\ ~OctalInField(t[1]) /\ ~OctalInField(t[2]) /\ ~OctalInField(t[3])
          /\ ~OctalInField(t[4]) /\ ~OctalInField(t[5]) /\ ~OctalInField(t[6])
      BY Zenon, <2>3, <3>1
    <3>3. /\ Understands(t, 1, 0, 60) /\ Understands(t, 2, 0, 60) /\ Understands(t, 3, 0, 24)
          /\ Understands(t, 4, 1, 32) /\ Understands(t, 5, 1, 13) /\ Understands(t, 6, 0, 8)
      BY Zenon, <2>2, TextUnderstood
    <3>4. Fits(s, P[1])
      BY Zenon, <2>1, <3>2, <3>3, FieldFits
    <3>5. Fits(m, P[2])
      BY Zenon, <2>1, <3>2, <3>3, FieldFits
    <3>6. Fits(h, P[3])
      BY Zenon, <2>1, <3>2, <3>3, FieldFits
    <3>7. Fits(d, P[4])
      BY Zenon, <2>1, <3>2, <3>3, FieldFits
    <3>8. Fits(n, P[5])
      BY Zenon, <2>1, <3>2, <3>3, FieldFits
    <3>9. Fits(w, P[6])
      BY Zenon, <2>1, <3>2, <3>3, FieldFits
    <3> HIDE DEF s, m, h, d, n, w
    <3>10. QED
      BY Zenon, <3>4, <3>5, <3>6, <3>7, <3>8, <3>9
  <2>5. n \in SUBSET Int /\ w \in SUBSET (0 .. 7)
    <3>1. n \in SUBSET (1 .. 13 - 1) /\ w \in SUBSET (0 .. 8 - 1)
      BY Zenon, <2>2, TextUnderstood DEF Understands, Understood
    <3> HIDE DEF n, w
    <3>2. QED
      BY SMT, <3>1
  <2> HIDE DEF s, m, h, d, n, w, x
  <2>6. x.ok <=> ~\E i \in 1 .. 6 : {} \in P[i]
    <3>1. \A i \in 1 .. 6 : i = 1 \/ i = 2 \/ i = 3 \/ i = 4 \/ i = 5 \/ i = 6
      BY SMT
    <3>2. 1 \in 1 .. 6 /\ 2 \in 1 .. 6 /\ 3 \in 1 .. 6 /\ 4 \in 1 .. 6 /\ 5 \in 1 .. 6 /\ 6 \in 1 .. 6
      BY SMT
    <3>3. (\E i \in 1 .. 6 : {} \in P[i]) <=>
            {} \in P[1] \/ {} \in P[2] \/ {} \in P[3] \/ {} \in P[4] \/ {} \in P[5] \/ {} \in P[6]
      BY Zenon, <3>1, <3>2
    <3>4. QED
      BY Zenon, <2>2, <2>4, <3>3 DEF Made, Fits
  <2>7. ASSUME Accepted
        PROVE  LET e == expr.expr
                   days == UNION P[6]
               IN /\ e.sec = UNION P[1] /\ e.min = UNION P[2] /\ e.hour = UNION P[3] /\ e.mday = UNION P[4]
                  /\ {k + 1 : k \in e.mon} = UNION P[5]
                  /\ e.wday = {k \in 0 .. 6 : k \in days \/ (k = 0 /\ 7 \in days)}
    <3>1. expr = x /\ expr.ok
      <4>1. state # "new"
        BY SMT, <2>7 DEF Accepted
      <4>2. QED
        BY Zenon, <2>7, <4>1 DEF TextKept, x
    <3>2. /\ s # {} /\ m # {} /\ h # {} /\ d # {} /\ n # {} /\ w # {}
          /\ expr.expr.sec = s /\ expr.expr.min = m /\ expr.expr.hour = h
          /\ expr.expr.mday = d /\ expr.expr.mon = Months(n) /\ expr.expr.wday = Weekdays(w)
      BY Zenon, <2>2, <3>1 DEF Made
    <3>3. {k + 1 : k \in Months(n)} = n
      BY Zenon, <2>5, MonthsBack
    <3>4. Weekdays(w) = {k \in 0 .. 6 : k \in w \/ (k = 0 /\ 7 \in w)}
      BY Zenon, <2>5, WeekdaysAre
    <3>5. QED
      BY Zenon, <2>4, <3>2, <3>3, <3>4 DEF Fits
  <2>8. state = "rejected" <=> state # "new" /\ \E i \in 1 .. 6 : {} \in P[i]
    <3>1. CASE state = "rejected"
      <4>1. state # "new"
        BY SMT, <3>1
      <4>2. QED
        BY Zenon, <2>6, <3>1, <4>1 DEF TextKept, x
    <3>2. CASE state # "rejected"
      <4>1. state = "new" \/ Accepted
        BY SMT, <3>2 DEF TextKept, Accepted
      <4>2. Accepted => state # "new"
        BY SMT DEF Accepted
      <4>3. QED
        BY Zenon, <2>6, <3>2, <4>1, <4>2 DEF TextKept, x
    <3>3. QED
      BY Zenon, <3>1, <3>2
  <2>9. QED
    BY Zenon, <2>7, <2>8 DEF ParsedAsWritten, AsWritten, P
<1>3. QED
  BY Zenon, <1>1, <1>2

(* A text is parsed into what its fields name, months and weekdays by their names *)
(* too, and rejected only for a part that names nothing - a number beyond INT_MAX  *)
(* never names anything -, if none of its numbers is taken for an octal one.       *)
(* (cron_parse_expr, parse_uint)                                                   *)
THEOREM Parsed == Spec => []ParsedAsWritten
<1>1. Spec => []TextKept
  BY PTL, TextKeptInit, TextKeptNext DEF Spec
<1>2. QED
  BY PTL, <1>1, TextKeptWritten
(***************************************************************************)
(* The dates of a job                                                       *)
(***************************************************************************)

(* The dates of a job are dates; from its first firing on it asks at firings, and *)
(* what it waits for is what cron_next promises.                                  *)
FiringKept ==
  /\ TextKept
  /\ fires \in Nat
  /\ state = "new" => now \in Calendar /\ fires = 0
  /\ Accepted /\ OneKindOfDay =>
       /\ now \in Calendar
       /\ fires > 0 => InExpr(expr.expr, now)
       /\ state = "waiting" => Awaits(expr.expr, now, next)

(* A job asked at a date is given one it allows, or none. *)
LEMMA ScheduleAwaits ==
  ASSUME NEW e, Job(e), NEW c \in Calendar, Schedule(e, c)
  PROVE  now' = c /\ (state' = "waiting" => Awaits(e, c, next'))
<1> DEFINE r == cron_next(e, c)
<1>1. now' = c /\ next' = (IF r.ok THEN r.cal ELSE c) /\ state' = (IF r.ok THEN "waiting" ELSE "never")
  BY Zenon DEF Schedule, SetNext
<1>2. CASE r.ok
  <2>1. PICK d : r = Found(d) /\ Awaits(e, c, d)
    BY Zenon, <1>2, CronNextAnswers
  <2> HIDE DEF r
  <2>2. r.cal = d
    BY SMT, <2>1 DEF Found
  <2>3. next' = d
    BY Zenon, <1>1, <1>2, <2>2
  <2>4. QED
    BY Zenon, <1>1, <2>1, <2>3
<1>3. CASE ~r.ok
  <2> HIDE DEF r
  <2>1. state' = "never"
    BY Zenon, <1>1, <1>3
  <2>2. state' # "waiting"
    BY SMT, <2>1
  <2>3. QED
    BY Zenon, <1>1, <2>2
<1>4. QED
  BY Zenon, <1>2, <1>3

(* A job is created at a date. *)
LEMMA FiringKeptInit ==
  ASSUME Init
  PROVE  FiringKept
<1>1. TextKept /\ now \in Calendar /\ fires = 0 /\ state = "new"
  BY Zenon, TextKeptInit, StartsAssumption DEF Init
<1>2. fires \in Nat /\ ~Accepted
  BY SMT, <1>1 DEF Accepted
<1>3. QED
  BY Zenon, <1>1, <1>2 DEF FiringKept

(* Create asks at a date, *)
LEMMA FiringKeptCreate ==
  ASSUME FiringKept, Create, TextKept'
  PROVE  FiringKept'
<1>1. /\ now \in Calendar /\ fires = 0 /\ fires' = fires /\ fires \in Nat
      /\ text' = text /\ text \in Texts /\ expr' = cron_parse_expr(text)
  BY Zenon DEF FiringKept, Create, TextKept
<1>2. state' # "new"
  <2>1. CASE expr'.ok
    <3>1. state' \in {"waiting", "never"}
      BY Zenon, <2>1, ScheduleStates DEF Create
    <3>2. QED
      BY SMT, <3>1
  <2>2. CASE ~expr'.ok
    <3>1. state' = "rejected"
      BY Zenon, <2>2 DEF Create
    <3>2. QED
      BY SMT, <3>1
  <2>3. QED
    BY Zenon, <2>1, <2>2
<1>3. ASSUME Accepted', OneKindOfDay'
      PROVE  /\ now' \in Calendar /\ ~(fires' > 0)
             /\ state' = "waiting" => Awaits(expr'.expr, now', next')
  <2>1. expr'.ok
    BY Zenon, <1>3 DEF TextKept
  <2>2. Job(expr'.expr)
    <3>1. expr'.expr.mday = 1 .. 31 \/ expr'.expr.wday = 0 .. 6
      BY Zenon, <1>3 DEF OneKindOfDay
    <3>2. QED
      BY Zenon, <1>1, <2>1, <3>1, ParsedJob
  <2>3. Schedule(expr'.expr, now)
    BY Zenon, <2>1 DEF Create
  <2>4. now' = now /\ (state' = "waiting" => Awaits(expr'.expr, now, next'))
    BY Zenon, <1>1, <2>2, <2>3, ScheduleAwaits
  <2>5. ~(fires' > 0)
    BY SMT, <1>1
  <2>6. QED
    BY Zenon, <1>1, <2>4, <2>5
<1>4. QED
  BY Zenon, <1>1, <1>2, <1>3 DEF FiringKept

(* and Fire at the date the job waited for, which is a firing. *)
LEMMA FiringKeptFire ==
  ASSUME FiringKept, Fire, TextKept'
  PROVE  FiringKept'
<1>1. /\ fires \in Nat /\ fires' = fires + 1 /\ state = "waiting" /\ expr' = expr
      /\ Schedule(expr.expr, next) /\ TextKept
  BY Zenon DEF FiringKept, Fire
<1>2. fires' \in Nat
  BY SMT, <1>1
<1>3. state' # "new"
  <2>1. state' \in {"waiting", "never"}
    BY Zenon, <1>1, ScheduleStates
  <2>2. QED
    BY SMT, <2>1
<1>4. ASSUME OneKindOfDay'
      PROVE  /\ now' \in Calendar /\ InExpr(expr'.expr, now')
             /\ state' = "waiting" => Awaits(expr'.expr, now', next')
  <2>1. Accepted /\ state # "new"
    BY SMT, <1>1 DEF Accepted
  <2>2. OneKindOfDay
    BY Zenon, <1>1, <1>4 DEF OneKindOfDay
  <2>3. next \in Calendar /\ InExpr(expr.expr, next)
    BY Zenon, <1>1, <2>1, <2>2 DEF FiringKept, Awaits
  <2>4. Job(expr.expr)
    <3>1. expr = cron_parse_expr(text) /\ expr.ok /\ text \in Texts
      BY Zenon, <1>1, <2>1 DEF TextKept
    <3>2. expr.expr.mday = 1 .. 31 \/ expr.expr.wday = 0 .. 6
      BY Zenon, <2>2 DEF OneKindOfDay
    <3>3. QED
      BY Zenon, <3>1, <3>2, ParsedJob
  <2>5. now' = next /\ (state' = "waiting" => Awaits(expr.expr, next, next'))
    BY Zenon, <1>1, <2>3, <2>4, ScheduleAwaits
  <2>6. QED
    BY Zenon, <1>1, <2>3, <2>5
<1>5. QED
  BY Zenon, <1>2, <1>3, <1>4 DEF FiringKept

(* So the invariant is kept by every step. *)
LEMMA FiringKeptNext ==
  ASSUME FiringKept, [Next]_vars
  PROVE  FiringKept'
<1>1. TextKept'
  BY Zenon, TextKeptNext DEF FiringKept
<1>2. CASE Create
  BY Zenon, <1>1, <1>2, FiringKeptCreate
<1>3. CASE Fire
  BY Zenon, <1>1, <1>3, FiringKeptFire
<1>4. CASE UNCHANGED vars
  BY Zenon, <1>1, <1>4 DEF vars, FiringKept, Accepted, OneKindOfDay
<1>5. QED
  BY Zenon, <1>2, <1>3, <1>4 DEF Next

(* It says of the date waited for that it is allowed, *)
LEMMA FiringKeptMatches ==
  ASSUME FiringKept
  PROVE  NextMatchesOneKind
<1>1. ASSUME Accepted, OneKindOfDay, state = "waiting"
      PROVE  InExpr(expr.expr, next)
  BY Zenon, <1>1 DEF FiringKept, Awaits
<1>2. QED
  BY Zenon, <1>1 DEF NextMatchesOneKind, NextMatches

(* and that no day with a firing is left out in a quiet time. *)
LEMMA FiringKeptExact ==
  ASSUME FiringKept
  PROVE  NothingSkippedExact
<1>1. ASSUME Exact, state = "waiting", NEW z \in Skipped, Quiet(now, z)
      PROVE  FALSE
  <2> DEFINE e == expr.expr
  <2>1. /\ Accepted /\ OneKindOfDay /\ e.mon = 0 .. 11 /\ (fires > 0 \/ OneOrAllSeconds(e))
        /\ now \in Calendar /\ Awaits(e, now, next)
        /\ fires > 0 => InExpr(e, now)
    BY Zenon, <1>1 DEF FiringKept, Exact, SecondsOneOrAll, OneOrAllSeconds
  <2>2. Job(e)
    <3>1. state # "new"
      BY SMT, <1>1
    <3>2. expr = cron_parse_expr(text) /\ expr.ok /\ text \in Texts
      BY Zenon, <2>1, <3>1 DEF FiringKept, TextKept
    <3>3. e.mday = 1 .. 31 \/ e.wday = 0 .. 6
      BY Zenon, <2>1 DEF OneKindOfDay
    <3>4. QED
      BY Zenon, <3>2, <3>3, ParsedJob
  <2>3. z \in FiringDays(e, now, IF Before(now, next) THEN next ELSE YearLater(now))
    BY Zenon, <1>1 DEF Skipped
  <2> HIDE DEF e
  <2>4. QED
    BY Zenon, <1>1, <2>1, <2>2, <2>3, NoneLeftOut
<1>2. QED
  BY Zenon, <1>1 DEF NothingSkippedExact

(* The date a job waits for is one its expression allows, whatever the text and  *)
(* the rule of the time zone, if only one kind of day is bounded. (cron_next)    *)
THEOREM NextAllowed == Spec => []NextMatchesOneKind
<1>1. Spec => []FiringKept
  BY PTL, FiringKeptInit, FiringKeptNext DEF Spec
<1>2. QED
  BY PTL, <1>1, FiringKeptMatches

(* No firing of the expression is left out between the date a job asks at and    *)
(* the one it waits for, nor is that one earlier, as long as the clock is not    *)
(* changed between them: if no month is left out, asked at a firing or with one  *)
(* second or all of them. (cron_next)                                            *)
THEOREM NothingMissed == Spec => []NothingSkippedExact
<1>1. Spec => []FiringKept
  BY PTL, FiringKeptInit, FiringKeptNext DEF Spec
<1>2. QED
  BY PTL, <1>1, FiringKeptExact

=============================================================================
