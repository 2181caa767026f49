----------------------------- MODULE MCCronExpr -----------------------------
(***************************************************************************)
(* Instances of CronFirings: a choice of texts for each field, and dates at  *)
(* the ends of minutes, months, years and leap years.                       *)
(***************************************************************************)
EXTENDS CronFirings

LOCAL One(t)       == <<<<<<t>>>>>>
LOCAL Span(a, b)   == <<<<<<Num(a), Num(b)>>>>>>
LOCAL Two(a, b)    == <<<<<<Num(a)>>>>, <<<<Num(b)>>>>>>
LOCAL From(t, d)   == <<<<<<t>>, <<Num(d)>>>>>>

LOCAL Days  == {One(AnyDay), One(Num(31)), Span(13, 14)}
LOCAL Weeks == {One(Star), One(Num(7)), <<<<<<Name(1), Name(5)>>>>>>}

(* Every month; some months, February among them; the ends of the ranges *)
MCTexts ==
  {<<s, m, h, d, One(Star), w>> :
     s \in {One(Star), One(Num(0)), Two(5, 30)},
     m \in {One(Star), One(Num(30)), From(Num(57), 2)},
     h \in {One(Star), From(Star, 12)}, d \in Days, w \in Weeks}
  \union
  {<<One(Num(0)), One(Star), One(Star), d, n, w>> :
     d \in Days, n \in {One(Name(2)), From(Num(1), 3)}, w \in Weeks}
  \union
  {<<One(t), One(Star), One(Star), One(Star), One(u), One(v)>> :
     t \in {Num(60), Star}, u \in {Num(0), Name(12), Num(13)}, v \in {Num(8), Star}}
  \union
  {<<One(Num(0)), m, One(Star), One(AnyDay), One(Star), One(Star)>> :
     m \in {One(Zero(n)) : n \in {5, 8, 10}} \union {<<<<<<Zero(0), Zero(7)>>, <<Num(3)>>>>>>}}
  \union
  {<<One(Num(0)), One(Num(30)), One(Num(h)), One(AnyDay), One(Star), One(Star)>> : h \in {1, 2, 5}}
  \union
  {<<One(Num(0)), <<<<<<Num(7)>>, <<t>>>>>>, One(Star), One(AnyDay), One(Star), One(Star)>> :
     t \in {Num(1000), Num(1001), Zero(60), Zero(100), Zero(190), Zero(10000)}}
  \union
  {<<One(Num(0)), m, Two(3, 15), d, n, One(Star)>> :
     m \in {One(Num(0)), From(Star, 0)}, d \in {Span(0, 5), One(Num(1))}, n \in {Span(0, 5), Span(2, 6)}}

MCStarts ==
  {Date(2027, 0, 31, 10, 57, 10), Date(2027, 11, 31, 23, 59, 59), Date(2028, 1, 28, 0, 30, 30),
   Date(2027, 2, 13, 10, 57, 10), [Date(2027, 10, 6, 23, 30, 0) EXCEPT !.dst = 1]}

(* EST5EDT,M3.2.0/2,M11.1.0: from 2:00 on the second Sunday of March to 2:00 of *)
(* summer time on the first Sunday of November, in the years up to 2099          *)
MCSummer(year, mon, mday, hour) ==
  LET before == (1 + (5 * year) \div 4) % 7
  IN \/ mon \in 3 .. 9
     \/ mon = 2  /\ 24 * mday + hour >= 24 * (14 - before) + 2
     \/ mon = 10 /\ 24 * mday + hour < 24 * (7 - before) + 1
=============================================================================
