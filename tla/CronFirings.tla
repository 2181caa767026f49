---------------------------- MODULE CronFirings -----------------------------
(***************************************************************************)
(* The life of a job as its expression decides it: cron_job_create parses   *)
(* the text and asks for the first date, and every time it fires the         *)
(* scheduler asks for the next one.                                         *)
(***************************************************************************)
EXTENDS CronExpr

CONSTANTS
  Texts,     \* the texts of the expression
  Starts,    \* the dates a job may be created at
  MaxFires   \* bound: firings followed

(* The texts followed: six fields of lists, ranges and steps, of numbers or, in *)
(* the fields of the months and of the days of the week, of names; ? stands     *)
(* alone, in the two fields of days.                                            *)
TokenIn(t, i) ==
  t.n \in Nat /\ (t = Num(t.n) \/ t = Zero(t.n) \/ (i \in {5, 6} /\ t = Name(t.n)))

RangeIn(r, i) ==
  \/ r = <<Star>>
  \/ Len(r) = 1 /\ r = <<r[1]>> /\ TokenIn(r[1], i)
  \/ Len(r) = 2 /\ r = <<r[1], r[2]>> /\ TokenIn(r[1], i) /\ TokenIn(r[2], i)

PartIn(p, i) ==
  \/ Len(p) = 1 /\ p = <<p[1]>> /\ RangeIn(p[1], i)
  \/ Len(p) = 2 /\ p = <<p[1], <<p[2][1]>>>> /\ RangeIn(p[1], i) /\ TokenIn(p[2][1], i)

FieldIn(f, i) ==
  \/ i \in {4, 6} /\ f = <<<<<<AnyDay>>>>>>
  \/ DOMAIN f # {} /\ \A k \in DOMAIN f : PartIn(f[k], i)

ASSUME TextsAssumption ==
  \A t \in Texts : Len(t) = 6 /\ \A i \in 1 .. 6 : FieldIn(t[i], i)

ASSUME StartsAssumption == Starts \subseteq Calendar

VARIABLES
  text,
  state,     \* "new", "rejected", "waiting", "never": next_execution is (time_t)-1
  expr,      \* the parsed expression
  now,       \* the date cron_next was asked at
  next,      \* what it answered
  fires

vars == <<text, state, expr, now, next, fires>>

Init ==
  /\ text \in Texts
  /\ now \in Starts
  /\ next = now
  /\ state = "new"
  /\ expr = [ok |-> FALSE]
  /\ fires = 0

(* cron_job_schedule at date d, to which cron_next answers n *)
SetNext(d, n) ==
  /\ now' = d
  /\ next' = IF n.ok THEN n.cal ELSE d
  /\ state' = IF n.ok THEN "waiting" ELSE "never"

Schedule(e, d) == SetNext(d, cron_next(e, d))

Create ==
  /\ state = "new"
  /\ expr' = cron_parse_expr(text)
  /\ IF expr'.ok
     THEN Schedule(expr'.expr, now)
     ELSE state' = "rejected" /\ UNCHANGED <<now, next>>
  /\ UNCHANGED <<text, fires>>

Fire ==
  /\ state = "waiting"
  /\ fires < MaxFires
  /\ fires' = fires + 1
  /\ Schedule(expr.expr, next)
  /\ UNCHANGED <<text, expr>>

Next == Create \/ Fire

Spec == Init /\ [][Next]_vars

(***************************************************************************)
(* What an expression means, independently of the search                    *)
(***************************************************************************)
DayInExpr(e, d) == d.mon \in e.mon /\ d.mday \in e.mday /\ Weekday(d) \in e.wday
InExpr(e, d) == DayInExpr(e, d) /\ d.hour \in e.hour /\ d.min \in e.min /\ d.sec \in e.sec

(* The firing times of a day after, and before, a time of day: enough of them *)
(* to hold the nearest one                                                    *)
ClocksAfter(e, d) ==
  {h * 3600 + Min(e.min) * 60 + Min(e.sec) : h \in {x \in e.hour : x > d.hour}}
  \union (IF d.hour \notin e.hour THEN {}
          ELSE {d.hour * 3600 + m * 60 + Min(e.sec) : m \in {x \in e.min : x > d.min}}
               \union (IF d.min \notin e.min THEN {}
                       ELSE {d.hour * 3600 + d.min * 60 + s : s \in {x \in e.sec : x > d.sec}}))

FirstClock(e) == Min(e.hour) * 3600 + Min(e.min) * 60 + Min(e.sec)

(* The days of the expression from that of c to that of d *)
DaysOf(e, c, d) ==
  {x \in {Date(y, m, n, 0, 0, 0) : y \in c.year .. d.year, m \in e.mon, n \in e.mday} :
     /\ x.mday <= DaysIn(x.year, x.mon)
     /\ DayNumber(c) <= DayNumber(x) /\ DayNumber(x) <= DayNumber(d)
     /\ Weekday(x) \in e.wday}

(* Those with a firing after c and before d *)
FiringDays(e, c, d) ==
  {x \in DaysOf(e, c, d) :
     IF DayNumber(x) = DayNumber(c)
     THEN \E t \in ClocksAfter(e, c) : DayNumber(x) = DayNumber(d) => t < Clock(d)
     ELSE DayNumber(x) = DayNumber(d) => FirstClock(e) < Clock(d)}

(* No change to or from summer time from the day before c to the day after d *)
Quiet(c, d) ==
  \A y \in c.year - 1 .. d.year + 1, m \in 0 .. 11, n \in 1 .. 31 :
    LET x == Date(y, m, n, 0, 0, 0)
    IN /\ n <= DaysIn(y, m)
       /\ DayNumber(c) - 1 <= DayNumber(x) /\ DayNumber(x) <= DayNumber(d) + 1
       => \A h \in 0 .. 23 : Summer(y, m, n, h) <=> c.dst = 1

(* The numbers from min to max-1 a part names; none if it reaches beyond them or *)
(* its step is 0                                                                 *)
Named(part, min, max) ==
  LET range == part[1]
      lo    == IF range = <<Star>> THEN min ELSE range[1].n
      hi    == IF Len(range) = 2 THEN range[2].n
               ELSE IF range = <<Star>> \/ Len(part) = 2 THEN max - 1 ELSE lo
      by    == IF Len(part) = 2 THEN part[2][1].n ELSE 1
  IN {x \in min .. max - 1 : /\ min <= lo /\ hi < max /\ by \in 1 .. IntMax
                           /\ lo <= x /\ x <= hi /\ \E k \in 0 .. max : x = lo + k * by}

(* For each field of the text, the set of numbers each of its parts names *)
NamedParts ==
  LET bounds == <<<<0, 60>>, <<0, 60>>, <<0, 24>>, <<1, 32>>, <<1, 13>>, <<0, 8>>>>
      plain(i) == IF i \in {4, 6} THEN AnyIsStar(text[i]) ELSE text[i]
  IN [i \in 1 .. 6 |-> {Named(plain(i)[k], bounds[i][1], bounds[i][2]) : k \in DOMAIN plain(i)}]

(***************************************************************************)
(* Properties                                                               *)
(***************************************************************************)
Accepted == state \in {"waiting", "never"}

(* An accepted expression allows in each field what its text names, with Sunday *)
(* both 0 and 7 and the months counted from 0; a text is rejected only for a    *)
(* part that names nothing. (cron_parse_expr; ccronexpr_test.c:322-355)         *)
AsWritten ==
  LET e    == expr.expr
      days == UNION NamedParts[6]
  IN /\ Accepted =>
          /\ e.sec = UNION NamedParts[1]
          /\ e.min = UNION NamedParts[2]
          /\ e.hour = UNION NamedParts[3]
          /\ e.mday = UNION NamedParts[4]
          /\ {m + 1 : m \in e.mon} = UNION NamedParts[5]
          /\ e.wday = {d \in 0 .. 6 : d \in days \/ (d = 0 /\ 7 \in days)}
     /\ state = "rejected" <=> state # "new" /\ \E i \in 1 .. 6 : {} \in NamedParts[i]

(* The same, but for the texts in which a number from 8 on is written with a    *)
(* leading zero: strtol reads those as octal numbers, and 08 and 09 not at all. *)
Octal(t) == t.kind = "octal" /\ t.n >= 8

ParsedAsWritten ==
  AsWritten \/ \E i \in 1 .. 6 : \E part \in ToSet(text[i]) :
                  \E range \in ToSet(part) : \E t \in ToSet(range) : Octal(t)

(* The date a job waits for is one the expression allows. (cron_next,           *)
(* ccronexpr.h:64-76)                                                            *)
NextMatches == state = "waiting" => InExpr(expr.expr, next)

(* It is later than the date it was asked at. *)
NextIsLater == state = "waiting" => Before(now, next)

(* No date the expression allows lies between a date and the one cron_next      *)
(* answers; in the year that follows, if that one is not later.                 *)
YearLater(d) == [d EXCEPT !.year = @ + 1, !.mday = IF d.mon = 1 /\ @ = 29 THEN 28 ELSE @]

Skipped ==
  FiringDays(expr.expr, now, IF Before(now, next) THEN next ELSE YearLater(now))

NothingSkipped == state = "waiting" => Skipped = {}

(* Without what the search gets wrong: with the day bounded both by the week    *)
(* and by the month it may answer a date the expression does not allow; with    *)
(* months left out, or asked at a date that is no firing and whose second moves *)
(* to a value in the middle of its set, it may skip dates, and so it may when   *)
(* the clock changes on the way.                                                *)
OneKindOfDay == expr.expr.mday = 1 .. 31 \/ expr.expr.wday = 0 .. 6

SecondsOneOrAll == expr.expr.sec = 0 .. 59 \/ \E s \in 0 .. 59 : expr.expr.sec = {s}

Exact == Accepted /\ OneKindOfDay /\ expr.expr.mon = 0 .. 11 /\ (fires > 0 \/ SecondsOneOrAll)

NextMatchesOneKind == Accepted /\ OneKindOfDay => NextMatches
NothingSkippedExact == Exact /\ state = "waiting" => \A x \in Skipped : ~Quiet(now, x)

(* cron_prev leads back from a firing to the one before it. *)
PrevUndoesNext ==
  Exact /\ fires > 0 /\ state = "waiting"
    => cron_prev(expr.expr, next) = Found(now) \/ ~Quiet(now, next)

(* A job that will never fire allows no date of the next four years. *)
NeverMeansNever ==
  LET last == [now EXCEPT !.year = @ + MaxYearsDiff]
  IN state = "never" => \A x \in DaysOf(expr.expr, now, last) :
                           DayNumber(x) \in {DayNumber(now), DayNumber(last)}
=============================================================================
