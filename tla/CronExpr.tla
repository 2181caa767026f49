------------------------------ MODULE CronExpr ------------------------------
(***************************************************************************)
(* ccronexpr.c: a cron expression is parsed into the values its six fields  *)
(* allow (cron_parse_expr), and cron_next and cron_prev search the firing   *)
(* after and before a date. The search works on a struct tm, field by field *)
(* from the seconds up, and starts again from the seconds whenever a field  *)
(* had to move.                                                             *)
(***************************************************************************)
EXTENDS CronCalendar, Sequences, FiniteSets, FiniteSetsExt, SequencesExt

CONSTANTS
  StackDepth,   \* nested calls of do_next or do_prev the task's stack holds
  IntMax        \* INT_MAX
ASSUME StackDepthAssumption == StackDepth \in Nat \ {0}
ASSUME IntMaxAssumption == IntMax \in Nat /\ IntMax >= 59

(* The fields in the order do_next visits them, the field each carries into *)
(* (CRON_CF_DAY_OF_WEEK is carried like a day of the month) and the size of *)
(* its bit set.                                                             *)
Fields == <<[f |-> "sec",  carry |-> "min",  max |-> 60],
            [f |-> "min",  carry |-> "hour", max |-> 60],
            [f |-> "hour", carry |-> "mday", max |-> 24],
            [f |-> "mday", carry |-> "mon",  max |-> 32],
            [f |-> "mon",  carry |-> "year", max |-> 12]>>

MaxYearsDiff == 4

None == -1

next_set_bit(bits, from) ==
  LET after == {b \in bits : b >= from} IN IF after = {} THEN None ELSE Min(after)

prev_set_bit(bits, from, to) ==
  LET within == {b \in bits : to <= b /\ b <= from} IN IF within = {} THEN None ELSE Max(within)

(* Each writes one field and normalises the whole calendar. *)
add_to_field(c, f, val) == cron_mktime([c EXCEPT ![f] = @ + val])
set_field(c, f, val)    == cron_mktime([c EXCEPT ![f] = val])

(* A mutation: the days of the month counted from 0 *)
LowestZero(f) == 0
Lowest(f) == IF f = "mday" THEN 1 ELSE 0
(* A mutation: the hours of a clock of twelve *)
HighestTwelve(c, f) == CASE f \in {"sec", "min"} -> 59
                         [] f = "hour"          -> 11
                         [] f = "mday"          -> DaysIn(c.year, c.mon)
                         [] f = "mon"           -> 11
Highest(c, f) == CASE f \in {"sec", "min"} -> 59
                   [] f = "hour"           -> 23
                   [] f = "mday"           -> DaysIn(c.year, c.mon)
                   [] f = "mon"            -> 11

reset_min(c, f) == set_field(c, f, Lowest(f))
reset_max(c, f) == set_field(c, f, Highest(c, f))

(* The fields in resets, one after the other in the order they were pushed: each *)
(* is normalised for itself.                                                     *)
Zeroed(c, f, resets) == IF f \in resets THEN reset_min(c, f) ELSE c
Filled(c, f, resets) == IF f \in resets THEN reset_max(c, f) ELSE c

(* A mutation: no resets *)
reset_none(c, resets) == c

reset_all_min(c, resets) ==
  Zeroed(Zeroed(Zeroed(Zeroed(c, "sec", resets), "min", resets), "hour", resets), "mday", resets)

reset_all_max(c, resets) ==
  Filled(Filled(Filled(Filled(c, "sec", resets), "min", resets), "hour", resets), "mday", resets)

push_to_fields_arr(resets, f) == resets \union {f}

(* The calendar c rolled over (d) or not: the value chosen is written, unless it *)
(* is the one c has, and the resets made.                                        *)
MovedUp(c, d, f, value, resets) ==
  [value |-> value,
   cal   |-> IF value = c[f] THEN d ELSE reset_all_min(set_field(d, f, value), resets)]
MovedDown(c, d, f, value, resets) ==
  [value |-> value,
   cal   |-> IF value = c[f] THEN d ELSE reset_all_max(set_field(d, f, value), resets)]

find_next(bits, k, c, resets) ==
  LET f     == Fields[k].f
      found == next_set_bit(bits, c[f])
  IN MovedUp(c, IF found # None THEN c
                ELSE reset_min(add_to_field(c, Fields[k].carry, 1), f),
             f, IF found # None THEN found ELSE Min(bits), resets)

find_prev(bits, k, c, resets) ==
  LET f     == Fields[k].f
      found == prev_set_bit(bits, c[f], 0)
  IN MovedDown(c, IF found # None THEN c
                  ELSE reset_max(add_to_field(c, Fields[k].carry, -1), f),
               f, IF found # None THEN found ELSE prev_set_bit(bits, Fields[k].max - 1, c[f]), resets)

(* A mutation: either field of the day will do *)
DayMatchesEither(e, s) == s.mday \in e.mday \/ s.wday \in e.wday

DayMatches(e, s) == s.mday \in e.mday /\ s.wday \in e.wday

(* A search for a day: the calendar, and the day last read from it *)
Read(c, d)     == [cal |-> c, mday |-> d.mday, wday |-> Weekday(d)]
DayReadings    == [cal : Calendar, mday : 1 .. 31, wday : 0 .. 6]
FirstReading(c) == Read(c, c)

(* The day d is read before the clock is reset. *)
ReadUp(d, resets)   == Read(reset_all_min(d, resets), d)
ReadDown(d, resets) == Read(reset_all_max(d, resets), d)

(* A step of the loop *)
DayAfter(e, s, resets) ==
  IF DayMatches(e, s) THEN s ELSE ReadUp(add_to_field(s.cal, "mday", 1), resets)
DayBefore(e, s, resets) ==
  IF DayMatches(e, s) THEN s ELSE ReadDown(add_to_field(s.cal, "mday", -1), resets)

DayStep(up, e, s, resets) == IF up THEN DayAfter(e, s, resets) ELSE DayBefore(e, s, resets)

(* n steps, which are half of them and half of them again and, of an odd number, *)
(* one more                                                                       *)
Walk(up, e, resets) ==
  LET walk[n \in Nat] ==
        IF n = 0 THEN [s \in DayReadings |-> s]
        ELSE [s \in DayReadings |->
               IF n % 2 = 0 THEN walk[n \div 2][walk[n \div 2][s]]
               ELSE walk[n \div 2][walk[n \div 2][DayStep(up, e, s, resets)]]]
  IN walk

DaySteps == 366

(* A day that matches, or the one reached after DaySteps steps *)
find_next_day(e, c, resets) == Walk(TRUE, e, resets)[DaySteps][FirstReading(c)]
find_prev_day(e, c, resets) == Walk(FALSE, e, resets)[DaySteps][FirstReading(c)]

Reached(s) == [value |-> s.mday, cal |-> s.cal]

Search(up, e, k, c, resets) ==
  LET f == Fields[k].f
  IN IF f = "mday"
     THEN Reached(IF up THEN find_next_day(e, c, resets) ELSE find_prev_day(e, c, resets))
     ELSE IF up THEN find_next(e[f], k, c, resets) ELSE find_prev(e[f], k, c, resets)

(* Between two visits of a call of do_next (up) or do_prev: whether the search  *)
(* goes on, the calendar, and the fields that kept their value, which are reset *)
(* when a later one moves.                                                      *)
Stand(ok, cal, resets) == [ok |-> ok, cal |-> cal, resets |-> resets]
Started(c) == Stand(TRUE, c, {})
Failed(c)  == Stand(FALSE, c, {})

(* What the search s of the field f makes of p. A field that moved, except the  *)
(* seconds, is searched again from the first by a call of its own (deeper       *)
(* answers it), and is not reset any more. dot is the year the search began in. *)
Outcome(up, dot, deeper, f, p, s) ==
  LET years == IF up THEN s.cal.year - dot ELSE dot - s.cal.year
      there == deeper[s.cal]
  IN IF s.value = p.cal[f] THEN Stand(TRUE, s.cal, push_to_fields_arr(p.resets, f))
     ELSE IF f = "sec" THEN Stand(TRUE, s.cal, p.resets)
     ELSE IF f = "mon" /\ years > MaxYearsDiff THEN Stand(FALSE, p.cal, p.resets)
     ELSE Stand(there.ok, there.cal, p.resets)

(* The k-th field visited *)
Visit(up, e, dot, deeper, k, p) ==
  IF p.ok THEN Outcome(up, dot, deeper, Fields[k].f, p, Search(up, e, k, p.cal, p.resets)) ELSE p

(* The visits of one call, the first innermost *)
Pass(up, e, dot, deeper, c) ==
  Visit(up, e, dot, deeper, 5,
    Visit(up, e, dot, deeper, 4,
      Visit(up, e, dot, deeper, 3,
        Visit(up, e, dot, deeper, 2,
          Visit(up, e, dot, deeper, 1, Started(c))))))

(* What a call answers for each date when the stack holds n calls, this one *)
(* included                                                                 *)
Calls(up, e, dot) ==
  LET call[n \in Nat] ==
        IF n = 0 THEN [c \in Calendar |-> Failed(c)]
        ELSE [c \in Calendar |-> Pass(up, e, dot, call[n - 1], c)]
  IN call

Found(c) == [ok |-> TRUE, cal |-> c]
Answer(p) == IF p.ok THEN Found(p.cal) ELSE [ok |-> FALSE]

do_next(e, c) == Answer(Calls(TRUE, e, c.year)[StackDepth][c])
do_prev(e, c) == Answer(Calls(FALSE, e, c.year)[StackDepth][c])

(* A search that ends where it began is repeated from the next second. *)
AgainNext(e, date, first) ==
  IF first = Found(date) THEN do_next(e, add_to_field(date, "sec", 1)) ELSE first
cron_next(e, date) == AgainNext(e, date, do_next(e, date))

AgainPrev(e, date, first) ==
  IF first = Found(date) THEN do_prev(e, add_to_field(date, "sec", -1)) ELSE first
cron_prev(e, date) == AgainPrev(e, date, do_prev(e, date))

(***************************************************************************)
(* The parser. A field is its text split at the commas, a part of it split  *)
(* at the slashes and those at the dashes: a sequence of sequences of       *)
(* sequences of tokens.                                                     *)
(***************************************************************************)
Star    == [kind |-> "star", n |-> 0]
AnyDay  == [kind |-> "any", n |-> 0]        \* '?'
Num(n)  == [kind |-> "number", n |-> n]
Zero(n) == [kind |-> "octal", n |-> n]      \* a number written with a leading zero
Name(n) == [kind |-> "name", n |-> n]       \* the n-th of DAYS_ARR or MONTHS_ARR

(* What strtol with base 0 reads: a leading zero makes a number octal, and it *)
(* does not get past a digit from 8 on.                                      *)
octal[n \in Nat] ==
  IF n = 0 THEN 0
  ELSE LET front == octal[n \div 10]
       IN IF n % 10 >= 8 \/ front = None THEN None ELSE 8 * front + (n % 10)

Read0(t) == CASE t.kind = "number" -> t.n
              [] t.kind = "octal"  -> IF t.n < 8 THEN t.n ELSE octal[t.n]
              [] OTHER             -> None

parse_uint(t) == IF Read0(t) \in 0 .. IntMax THEN Read0(t) ELSE None

Ordinal(t) == IF t.kind = "name" THEN Num(t.n) ELSE t

replace_ordinals(field) ==
  [i \in DOMAIN field |-> [j \in DOMAIN field[i] |->
     [k \in DOMAIN field[i][j] |-> Ordinal(field[i][j][k])]]]

(* The first and the last value of a range, or <<>> for an error. *)
get_range(range, min, max) ==
  LET ends == [i \in DOMAIN range |-> parse_uint(range[i])]
      last == ends[Len(range)]
  IN IF range = <<Star>> THEN <<min, max - 1>>
     ELSE IF /\ Len(range) \in 1 .. 2
             /\ \A i \in DOMAIN ends : min <= ends[i] /\ ends[i] < max
             /\ ends[1] <= last
     THEN <<ends[1], last>>
     ELSE <<>>

(* The bits one part of a field sets, {} for an error. *)
PartHits(part, min, max) ==
  LET r     == get_range(part[1], min, max)
      delta == IF Len(part) = 2 /\ Len(part[2]) = 1 THEN parse_uint(part[2][1]) ELSE None
      last  == IF Len(part[1]) = 1 THEN max - 1 ELSE r[2]
  IN IF r = <<>> THEN {}
     ELSE IF Len(part) = 1 THEN r[1] .. r[2]
     ELSE IF delta > 0 THEN {i \in r[1] .. last : (i - r[1]) % delta = 0}
     ELSE {}

set_number_hits(field, min, max) ==
  LET hits == [i \in DOMAIN field |-> PartHits(field[i], min, max)]
  IN IF field = <<>> \/ \E i \in DOMAIN hits : hits[i] = {} THEN {}
     ELSE UNION {hits[i] : i \in DOMAIN hits}

(* A mutation: not rotated *)
set_months_unrotated(field) == set_number_hits(replace_ordinals(field), 1, 12 + 1)

(* ... and then rotate it to the front of the months *)
set_months(field) == {m - 1 : m \in set_number_hits(replace_ordinals(field), 1, 12 + 1)}

AnyIsStar(field) == IF field = <<<<<<AnyDay>>>>>> THEN <<<<<<Star>>>>>> ELSE field

set_days(field) == set_number_hits(AnyIsStar(replace_ordinals(field)), 0, 8)

set_days_of_month(field) == set_number_hits(AnyIsStar(field), 1, 32)

(* The parsed expression; ok is FALSE where the code returns an error. Sunday *)
(* can be written as 0 or 7.                                                  *)
cron_parse_expr(fields) ==
  IF Len(fields) # 6 THEN [ok |-> FALSE]
  ELSE LET days == set_days(fields[6])
           e == [sec  |-> set_number_hits(fields[1], 0, 60),
                 min  |-> set_number_hits(fields[2], 0, 60),
                 hour |-> set_number_hits(fields[3], 0, 24),
                 wday |-> (days \ {7}) \union (IF 7 \in days THEN {0} ELSE {}),
                 mday |-> set_days_of_month(fields[4]),
                 mon  |-> set_months(fields[5])]
       IN IF \E f \in DOMAIN e : e[f] = {} THEN [ok |-> FALSE] ELSE [ok |-> TRUE, expr |-> e]
=============================================================================
