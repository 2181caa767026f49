--------------------------- MODULE CronAlarmProofs ---------------------------
(***************************************************************************)
(* The alarms and their scheduler, for any slots and crontabs: however slow *)
(* the scheduler is, the list of jobs holds jobs of alarms only, no job is  *)
(* leaked and cron_start never refuses; with a scheduler that cron_stop     *)
(* finds at rest the array and the list agree, an occurrence is fired once  *)
(* and between commands the scheduler runs for every alarm.                 *)
(***************************************************************************)
EXTENDS CronAlarm, SequenceTheorems, FiniteSetTheorems, WellFoundedInduction, TLAPS

--------------------------------------------------------------------------------
(* The inductive invariant *)

AtEdit  == cmd.pc \in {"edit", "start"}
Alive   == sched.pc # "none"

(* The scheduler task and what the module knows of it: no command edits while it *)
(* is there, and what the command saved leads to it.                             *)
ControlInv ==
  /\ AtEdit => ~Alive /\ ~running /\ ~handle
  /\ cmd.pc \in {"clear", "delete"} => ~handle /\ (Alive => cmd.handle)
  /\ cmd.pc = "delete" => ~running
  /\ cmd.pc \notin {"clear", "delete"} => (Alive => handle)
  /\ cmd.pc \in {"idle", "stop", "lock"} /\ ~running => ~handle
  /\ cmd.pc # "idle" => cmd.crontab \in Crontabs /\ cmd.op # "none"

(* The mutexes the scheduler holds are those its place says. *)
MutexInv ==
  /\ sem = Scheduler => sched.pc \in {"remove", "schedule", "insert"}
  /\ sched.pc \in {"remove", "schedule", "insert"} => sem = Scheduler
  /\ listsem = Scheduler => sched.pc \in {"sortRemove", "sortInsert", "remove", "insert"}

(* Each slot with a job has one of its own, which was allocated. *)
SlotInv ==
  /\ \A i \in DOMAIN alarms : alarms[i].crontab = NoAlarm => alarms[i].job = Null
  /\ \A i \in DOMAIN alarms : alarms[i].job # Null => jobs[alarms[i].job].state # "unused"
  /\ \A i, k \in DOMAIN alarms : alarms[i].job = alarms[k].job /\ alarms[i].job # Null => i = k
  /\ \A j \in Pointers : jobs[j].state # "unused" => jobs[j].crontab \in Crontabs

(* An add command has a job to allocate if it will need one. *)
RoomInv ==
  cmd.op = "add" /\ cmd.pc \in {"stop", "lock", "clear", "delete", "edit"} =>
    Fresh # {} \/ cmd.crontab \in BadCrontabs \/ SlotsOf(NoAlarm) = {}

(* The jobs in the scheduler's hands, whether still in the list or not *)
Held == ToSet(sched.array)
          \cup (IF sched.pc \in {"asleep", "lock", "remove", "schedule", "insert"}
                THEN {sched.job} ELSE {})

HandInv ==
  /\ sched.pc \notin {"sortRemove", "sortSchedule", "sortInsert"} => sched.array = <<>>
  /\ sched.pc \in {"sortSchedule", "sortInsert"} => sched.array # <<>>
  /\ sched.pc = "sortRemove" =>
       list # <<>> /\ sched.todo > 0 /\ (listsem # Dead => Len(list) = sched.todo)
  /\ Held \subseteq AlarmJobs
  /\ \A j \in ToSet(list) \cup Held : jobs[j].listed

ListInv ==
  /\ IsInjective(list)
  /\ listsem # Dead => IsInjective(sched.array) /\ ToSet(list) \cap InHand = {}

AnyInv ==
  /\ TypeOK /\ ControlInv /\ MutexInv /\ SlotInv /\ RoomInv /\ HandInv /\ ListInv
  /\ NoLeak

(* With a scheduler that cron_stop finds at rest *)
RestInv ==
  /\ sem # Dead /\ listsem # Dead
  /\ Stopping => AtRest

AgreeInv ==
  /\ ToSet(list) \cup InHand = AlarmJobs
  /\ AlarmJobs \subseteq {j \in DOMAIN jobs : jobs[j].state = "live"}

EndInv ==
  /\ \A i \in DOMAIN alarms : alarms[i].crontab # NoAlarm => alarms[i].job # Null
  /\ sched.pc = "end" => AlarmJobs = {}
  /\ ~Alive /\ ~AtEdit /\ cmd.pc # "delete" => AlarmJobs = {}

(* What was fired is over: the job was put off to a later date, or the scheduler *)
(* is about to do it.                                                            *)
OverInv ==
  \A o \in fired :
    /\ o.at <= now
    /\ jobs[o.job].state # "unused"
    /\ \/ o.at < jobs[o.job].next
       \/ sched.pc \in {"lock", "remove", "schedule"} /\ sched.job = o.job

--------------------------------------------------------------------------------
(* Sequences without repetitions *)

Less == OpToRel(<, Nat)

(* The smallest member of a nonempty set of numbers *)
LEMMA MinIsFirst ==
  ASSUME NEW S \in SUBSET Nat, S # {}
  PROVE  Min(S) \in S /\ \A n \in S : Min(S) <= n
<1>1. IsWellFoundedOn(Less, Nat)
  BY Zenon, NatLessThanWellFounded DEF Less
<1>2. PICK x \in S : \A y \in S : ~(<<y, x>> \in Less)
  BY Zenon, <1>1, WFMin
<1>3. \A y, z \in Nat : y < z => <<y, z>> \in Less
  BY DEF Less, OpToRel
<1>4. \A y \in S : ~(y < x)
  BY Zenon, <1>2, <1>3
<1>5. \A y \in S : x <= y
  BY SMT, <1>4
<1>6. QED
  BY Zenon, <1>5 DEF Min

(* The elements of a sequence into which j was inserted at i *)
LEMMA InsertedElements ==
  ASSUME NEW S, NEW l \in Seq(S), NEW i \in 1 .. Len(l) + 1, NEW j \in S
  PROVE  /\ InsertAt(l, i, j) \in Seq(S)
         /\ Len(InsertAt(l, i, j)) = Len(l) + 1
         /\ \A k \in 1 .. Len(l) + 1 :
              (k < i => InsertAt(l, i, j)[k] = l[k])
              /\ (k = i => InsertAt(l, i, j)[k] = j)
              /\ (k > i => InsertAt(l, i, j)[k] = l[k - 1])
<1> DEFINE a == SubSeq(l, 1, i - 1)
           b == SubSeq(l, i, Len(l))
           c == a \o <<j>>
<1>1. a \in Seq(S) /\ Len(a) = i - 1 /\ \A k \in 1 .. i - 1 : a[k] = l[k]
  <2>1. \A k \in 1 .. i - 1 : l[k] \in S
    BY SMT
  <2>2. QED
    BY SMT, <2>1, SubSeqProperties
<1>2. b \in Seq(S) /\ Len(b) = Len(l) - i + 1 /\ \A k \in 1 .. Len(l) - i + 1 : b[k] = l[i + k - 1]
  <2>1. \A k \in i .. Len(l) : l[k] \in S
    BY SMT
  <2>2. QED
    BY SMT, <2>1, SubSeqProperties
<1>3. <<j>> \in Seq(S) /\ Len(<<j>>) = 1 /\ <<j>>[1] = j
  BY SMT
<1> HIDE DEF a, b
<1>4. c \in Seq(S) /\ Len(c) = i /\ \A k \in 1 .. i : c[k] = IF k < i THEN l[k] ELSE j
  <2>1. /\ c \in Seq(S) /\ Len(c) = Len(a) + Len(<<j>>)
        /\ \A k \in 1 .. Len(a) + Len(<<j>>) : c[k] = IF k <= Len(a) THEN a[k] ELSE <<j>>[k - Len(a)]
    BY <1>1, <1>3, ConcatProperties
  <2> HIDE DEF c
  <2>2. Len(a) + Len(<<j>>) = i
    BY SMT, <1>1, <1>3
  <2>3. \A k \in 1 .. i : k < i => c[k] = l[k]
    <3>1. \A k \in 1 .. i : k < i => k <= Len(a) /\ k \in 1 .. i - 1
      BY SMT, <1>1
    <3>2. QED
      BY Zenon, <1>1, <2>1, <2>2, <3>1
  <2>4. c[i] = j
    <3>1. i \in 1 .. i /\ ~(i <= Len(a)) /\ i - Len(a) = 1
      BY SMT, <1>1
    <3>2. QED
      BY Zenon, <1>3, <2>1, <2>2, <3>1
  <2>5. \A k \in 1 .. i : k < i \/ k = i
    BY SMT
  <2>6. ~(i < i)
    BY SMT
  <2>7. QED
    BY Zenon, <2>1, <2>2, <2>3, <2>4, <2>5, <2>6
<1>5. InsertAt(l, i, j) = c \o b
  BY Zenon DEF InsertAt, a, b
<1> HIDE DEF c
<1>6. QED
  <2>1. /\ c \o b \in Seq(S) /\ Len(c \o b) = Len(c) + Len(b)
        /\ \A k \in 1 .. Len(c) + Len(b) :
              (c \o b)[k] = IF k <= Len(c) THEN c[k] ELSE b[k - Len(c)]
    BY <1>2, <1>4, ConcatProperties
  <2> DEFINE m == c \o b
  <2> HIDE DEF m
  <2>2. m \in Seq(S) /\ Len(m) = Len(l) + 1
        /\ \A k \in 1 .. Len(l) + 1 : m[k] = IF k <= i THEN c[k] ELSE b[k - i]
    BY SMT, <1>2, <1>4, <2>1 DEF m
  <2>3. \A k \in 1 .. Len(l) + 1 :
          (k < i => m[k] = l[k]) /\ (k = i => m[k] = j) /\ (k > i => m[k] = l[k - 1])
    <3>1. TAKE k \in 1 .. Len(l) + 1
    <3>2. CASE k <= i
      BY SMT, <1>4, <2>2, <3>2
    <3>3. CASE k > i
      <4>1. k - i \in 1 .. Len(l) - i + 1 /\ i + (k - i) - 1 = k - 1
        BY SMT, <3>3
      <4>2. b[k - i] = l[k - 1]
        BY Zenon, <1>2, <4>1
      <4>3. QED
        BY SMT, <2>2, <3>3, <4>2
    <3>4. QED
      BY SMT, <3>2, <3>3
  <2>4. QED
    BY Zenon, <1>5, <2>2, <2>3 DEF m

(* The elements of a sequence from which the one at i was removed *)
LEMMA RemovedElements ==
  ASSUME NEW S, NEW l \in Seq(S), NEW i \in 1 .. Len(l)
  PROVE  /\ RemoveAt(l, i) \in Seq(S)
         /\ Len(RemoveAt(l, i)) = Len(l) - 1
         /\ \A k \in 1 .. Len(l) - 1 : (k < i => RemoveAt(l, i)[k] = l[k]) /\ (k >= i => RemoveAt(l, i)[k] = l[k + 1])
<1> DEFINE a == SubSeq(l, 1, i - 1)
           b == SubSeq(l, i + 1, Len(l))
<1>1. a \in Seq(S) /\ Len(a) = i - 1 /\ \A k \in 1 .. i - 1 : a[k] = l[k]
  <2>1. \A k \in 1 .. i - 1 : l[k] \in S
    BY SMT
  <2>2. QED
    BY SMT, <2>1, SubSeqProperties
<1>2. b \in Seq(S) /\ Len(b) = Len(l) - i /\ \A k \in 1 .. Len(l) - i : b[k] = l[i + k]
  <2>1. \A k \in i + 1 .. Len(l) : l[k] \in S
    BY SMT
  <2>2. QED
    BY SMT, <2>1, SubSeqProperties
<1>3. RemoveAt(l, i) = a \o b
  BY Zenon DEF RemoveAt
<1> HIDE DEF a, b
<1>4. QED
  <2>1. /\ a \o b \in Seq(S) /\ Len(a \o b) = Len(a) + Len(b)
        /\ \A k \in 1 .. Len(a) + Len(b) :
              (a \o b)[k] = IF k <= Len(a) THEN a[k] ELSE b[k - Len(a)]
    BY <1>1, <1>2, ConcatProperties
  <2> DEFINE m == a \o b
  <2> HIDE DEF m
  <2>2. m \in Seq(S) /\ Len(m) = Len(l) - 1
        /\ \A k \in 1 .. Len(l) - 1 : m[k] = IF k < i THEN a[k] ELSE b[k - i + 1]
    BY SMT, <1>1, <1>2, <2>1 DEF m
  <2>3. \A k \in 1 .. Len(l) - 1 : (k < i => m[k] = l[k]) /\ (k >= i => m[k] = l[k + 1])
    BY SMT, <1>1, <1>2, <2>2
  <2>4. QED
    BY Zenon, <1>3, <2>2, <2>3 DEF m

(* cron_job_list_insert puts the job in, and leaves the others *)
LEMMA InsertedSet ==
  ASSUME NEW S, NEW l \in Seq(S), NEW h, NEW j \in S
  PROVE  /\ Inserted(l, h, j) \in Seq(S)
         /\ Len(Inserted(l, h, j)) = Len(l) + 1
         /\ ToSet(Inserted(l, h, j)) = ToSet(l) \cup {j}
         /\ IsInjective(l) /\ j \notin ToSet(l) => IsInjective(Inserted(l, h, j))
<1> DEFINE P == {k \in DOMAIN l : h[j].next < h[l[k]].next} \cup {Len(l) + 1}
<1> DEFINE i == Min(P)
<1>1. Len(l) \in Nat /\ DOMAIN l = 1 .. Len(l)
  BY SMT
<1>2. P \in SUBSET Nat /\ P # {} /\ P \subseteq 1 .. Len(l) + 1
  BY SMT, <1>1
<1>3. i \in 1 .. Len(l) + 1
  BY Zenon, <1>2, MinIsFirst
<1> DEFINE m == InsertAt(l, i, j)
<1>4. Inserted(l, h, j) = m
  BY Zenon DEF Inserted
<1> HIDE DEF i, P
<1>5. m \in Seq(S) /\ Len(m) = Len(l) + 1
      /\ \A k \in 1 .. Len(l) + 1 : (k < i => m[k] = l[k]) /\ (k = i => m[k] = j)
                                  /\ (k > i => m[k] = l[k - 1])
  BY SMT, <1>3, InsertedElements
<1> HIDE DEF m
<1>6. DOMAIN m = 1 .. Len(l) + 1
  BY SMT, <1>5
<1>7. ToSet(m) = ToSet(l) \cup {j}
  <2>1. \A k \in DOMAIN m : m[k] \in ToSet(l) \cup {j}
    BY SMT, <1>1, <1>3, <1>5, <1>6 DEF ToSet
  <2>2. \A k \in DOMAIN l : \E n \in DOMAIN m : m[n] = l[k]
    <3>1. TAKE k \in DOMAIN l
    <3>2. CASE k < i
      BY SMT, <1>1, <1>3, <1>5, <1>6, <3>2
    <3>3. CASE k >= i
      <4>1. k + 1 \in DOMAIN m /\ m[k + 1] = l[k]
        BY SMT, <1>1, <1>3, <1>5, <1>6, <3>3
      <4>2. QED
        BY Zenon, <4>1
    <3>4. QED
      BY SMT, <1>1, <1>3, <3>2, <3>3
  <2>3. i \in DOMAIN m /\ m[i] = j
    BY SMT, <1>1, <1>3, <1>5, <1>6
  <2>4. QED
    BY Zenon, <2>1, <2>2, <2>3 DEF ToSet
<1>8. IsInjective(l) /\ j \notin ToSet(l) => IsInjective(m)
  <2>1. SUFFICES ASSUME IsInjective(l), j \notin ToSet(l),
                        NEW p \in DOMAIN m, NEW q \in DOMAIN m, m[p] = m[q]
                 PROVE  p = q
    BY Zenon DEF IsInjective
  <2>2. \A k \in DOMAIN l : l[k] # j
    BY Zenon, <2>1 DEF ToSet
  <2>3. \A a, b \in DOMAIN l : l[a] = l[b] => a = b
    BY Zenon, <2>1 DEF IsInjective
  <2> DEFINE N(k) == IF k < i THEN k ELSE k - 1
  <2>4. \A k \in DOMAIN m : k # i => N(k) \in DOMAIN l /\ m[k] = l[N(k)]
    BY SMT, <1>1, <1>3, <1>5, <1>6
  <2>5. m[i] = j
    BY SMT, <1>3, <1>5
  <2> HIDE DEF N
  <2>6. CASE p = i \/ q = i
    BY Zenon, <2>1, <2>2, <2>4, <2>5, <2>6
  <2>7. CASE p # i /\ q # i
    <3>1. N(p) = N(q)
      BY Zenon, <2>1, <2>3, <2>4, <2>7
    <3>2. QED
      BY SMT, <1>3, <1>6, <2>7, <3>1 DEF N
  <2>8. QED
    BY Zenon, <2>6, <2>7
<1>9. QED
  BY Zenon, <1>4, <1>5, <1>7, <1>8

(* cron_job_list_remove takes out the job alone *)
LEMMA RemovedSet ==
  ASSUME NEW S, NEW l \in Seq(S), NEW j, IsInjective(l)
  PROVE  /\ Removed(l, j) \in Seq(S)
         /\ ToSet(Removed(l, j)) = ToSet(l) \ {j}
         /\ IsInjective(Removed(l, j))
<1>1. Len(l) \in Nat /\ DOMAIN l = 1 .. Len(l)
  BY SMT
<1>2. CASE ~Contains(l, j)
  BY Zenon, <1>1, <1>2 DEF Contains, Removed, ToSet
<1>3. CASE Contains(l, j)
  <2> DEFINE P == {k \in DOMAIN l : l[k] = j}
             i == Min(P)
             m == RemoveAt(l, i)
  <2>1. P \in SUBSET Nat /\ P # {}
    BY SMT, <1>1, <1>3 DEF Contains
  <2>2. i \in DOMAIN l /\ l[i] = j
    <3>1. i \in P
      BY Zenon, <2>1, MinIsFirst
    <3>2. QED
      BY Zenon, <3>1
  <2>3. Removed(l, j) = m
    BY Zenon, <1>3 DEF Removed
  <2> HIDE DEF i, P
  <2>4. m \in Seq(S) /\ Len(m) = Len(l) - 1
        /\ \A k \in 1 .. Len(l) - 1 : (k < i => m[k] = l[k]) /\ (k >= i => m[k] = l[k + 1])
    BY Zenon, <1>1, <2>2, RemovedElements
  <2> HIDE DEF m
  <2>5. DOMAIN m = 1 .. Len(l) - 1
    BY SMT, <1>1, <2>4
  <2>6. \A a, b \in DOMAIN l : l[a] = l[b] => a = b
    BY Zenon DEF IsInjective
  <2>7. \A k \in DOMAIN m : m[k] \in ToSet(l) /\ m[k] # j
    <3>1. \A k \in DOMAIN m : k \in 1 .. Len(l) - 1 /\ k \in DOMAIN l /\ k + 1 \in DOMAIN l
                              /\ (k < i \/ k >= i) /\ (k < i => k # i) /\ (k >= i => k + 1 # i)
      BY SMT, <1>1, <2>2, <2>5
    <3>2. \A k \in DOMAIN m : \E n \in DOMAIN l : n # i /\ m[k] = l[n]
      BY Zenon, <2>4, <3>1
    <3>3. QED
      BY Zenon, <2>2, <2>6, <3>2 DEF ToSet
  <2>8. \A k \in DOMAIN l : l[k] # j => \E n \in DOMAIN m : m[n] = l[k]
    <3>1. TAKE k \in DOMAIN l
    <3>2. HAVE l[k] # j
    <3>3. CASE k < i
      <4>1. k \in 1 .. Len(l) - 1 /\ k \in DOMAIN m
        BY SMT, <1>1, <2>2, <2>5, <3>3
      <4>2. QED
        BY Zenon, <2>4, <3>3, <4>1
    <3>4. CASE k > i
      <4>1. k - 1 \in DOMAIN m /\ m[k - 1] = l[k]
        BY SMT, <1>1, <2>2, <2>4, <2>5, <3>4
      <4>2. QED
        BY Zenon, <4>1
    <3>5. k < i \/ k > i
      <4>1. k # i
        BY Zenon, <2>2, <3>2
      <4>2. k \in Int /\ i \in Int
        BY SMT, <1>1, <2>2
      <4>3. QED
        BY SMT, <4>1, <4>2
    <3>6. QED
      BY Zenon, <3>3, <3>4, <3>5
  <2>9. ToSet(m) = ToSet(l) \ {j}
    <3>1. \A x \in ToSet(m) : x \in ToSet(l) /\ x # j
      BY Zenon, <2>7 DEF ToSet
    <3>2. \A x \in ToSet(l) : x # j => x \in ToSet(m)
      BY Zenon, <2>8 DEF ToSet
    <3>3. QED
      BY Zenon, <3>1, <3>2
  <2>10. IsInjective(m)
    <3>1. SUFFICES ASSUME NEW p \in DOMAIN m, NEW q \in DOMAIN m, m[p] = m[q]
                   PROVE  p = q
      BY Zenon DEF IsInjective
    <3> DEFINE N(k) == IF k < i THEN k ELSE k + 1
    <3>2. \A k \in DOMAIN m : N(k) \in DOMAIN l /\ m[k] = l[N(k)]
      BY SMT, <1>1, <2>2, <2>4, <2>5
    <3> HIDE DEF N
    <3>3. N(p) = N(q)
      BY Zenon, <2>6, <3>1, <3>2
    <3>4. QED
      BY SMT, <1>1, <2>2, <2>5, <3>3 DEF N
  <2>11. QED
    BY Zenon, <2>3, <2>4, <2>9, <2>10
<1>4. QED
  BY <1>2, <1>3

(* The first job of a list, and the rest *)
LEMMA TailSet ==
  ASSUME NEW S, NEW l \in Seq(S), l # <<>>
  PROVE  /\ Head(l) \in S /\ Head(l) \in ToSet(l)
         /\ Tail(l) \in Seq(S) /\ Len(Tail(l)) = Len(l) - 1
         /\ ToSet(l) = ToSet(Tail(l)) \cup {Head(l)}
         /\ IsInjective(l) => IsInjective(Tail(l)) /\ Head(l) \notin ToSet(Tail(l))
<1>1. Len(l) \in Nat /\ DOMAIN l = 1 .. Len(l) /\ Len(l) > 0
  BY SMT
<1>2. /\ Head(l) \in S /\ Tail(l) \in Seq(S) /\ Len(Tail(l)) = Len(l) - 1
      /\ \A i \in 1 .. Len(l) - 1 : Tail(l)[i] = l[i + 1]
  BY SMT, <1>1, HeadTailProperties
<1>3. Head(l) = l[1]
  BY SMT
<1>4. DOMAIN Tail(l) = 1 .. Len(l) - 1
  BY SMT, <1>1, <1>2
<1>5. \A k \in DOMAIN Tail(l) : Tail(l)[k] = l[k + 1] /\ k + 1 \in DOMAIN l /\ k + 1 # 1
  BY SMT, <1>1, <1>2, <1>4
<1>6. \A k \in DOMAIN l : k = 1 \/ \E n \in DOMAIN Tail(l) : Tail(l)[n] = l[k]
  <2>1. \A k \in DOMAIN l : k = 1 \/ (k - 1 \in DOMAIN Tail(l) /\ Tail(l)[k - 1] = l[k])
    BY SMT, <1>1, <1>2, <1>4
  <2>2. QED
    BY Zenon, <2>1
<1>7. 1 \in DOMAIN l
  BY SMT, <1>1
<1>8. ToSet(l) = ToSet(Tail(l)) \cup {Head(l)}
  <2> DEFINE t == Tail(l)
  <2>1. \A k \in DOMAIN t : t[k] \in ToSet(l)
    BY Zenon, <1>5 DEF ToSet
  <2>2. \A k \in DOMAIN l : l[k] = l[1] \/ l[k] \in ToSet(t)
    BY Zenon, <1>6 DEF ToSet
  <2> HIDE DEF t
  <2>3. l[1] \in ToSet(l)
    BY Zenon, <1>7 DEF ToSet
  <2>4. ToSet(l) = ToSet(t) \cup {l[1]}
    BY Zenon, <2>1, <2>2, <2>3 DEF ToSet
  <2>5. QED
    BY Zenon, <1>3, <2>4 DEF t
<1>9. ASSUME IsInjective(l) PROVE Head(l) \notin ToSet(Tail(l))
  <2>1. \A k \in DOMAIN Tail(l) : Tail(l)[k] # l[1]
    BY Zenon, <1>5, <1>7, <1>9 DEF IsInjective
  <2> DEFINE t == Tail(l)
  <2> HIDE DEF t
  <2>2. l[1] \notin ToSet(t)
    BY Zenon, <2>1 DEF ToSet, t
  <2>3. QED
    BY Zenon, <1>3, <2>2 DEF t
<1>10. ASSUME IsInjective(l) PROVE IsInjective(Tail(l))
  <2>1. SUFFICES ASSUME NEW p \in DOMAIN Tail(l), NEW q \in DOMAIN Tail(l),
                        Tail(l)[p] = Tail(l)[q]
                 PROVE  p = q
    BY Zenon DEF IsInjective
  <2>2. p + 1 = q + 1
    BY Zenon, <1>5, <1>10, <2>1 DEF IsInjective
  <2>3. QED
    BY SMT, <1>4, <2>2
<1>11. QED
  BY Zenon, <1>2, <1>8, <1>9, <1>10

(* A job is put at the end of an array *)
LEMMA AppendSet ==
  ASSUME NEW S, NEW l \in Seq(S), NEW j \in S
  PROVE  /\ Append(l, j) \in Seq(S) /\ Append(l, j) # <<>>
         /\ ToSet(Append(l, j)) = ToSet(l) \cup {j}
         /\ IsInjective(l) /\ j \notin ToSet(l) => IsInjective(Append(l, j))
<1> DEFINE m == Append(l, j)
<1>1. Len(l) \in Nat /\ DOMAIN l = 1 .. Len(l)
  BY SMT
<1>2. /\ m \in Seq(S) /\ m # <<>> /\ Len(m) = Len(l) + 1
      /\ \A k \in 1 .. Len(l) : m[k] = l[k]
      /\ m[Len(l) + 1] = j
  BY SMT, <1>1, AppendProperties
<1> HIDE DEF m
<1>3. DOMAIN m = 1 .. Len(l) + 1
  BY SMT, <1>1, <1>2
<1>4. \A k \in DOMAIN m : m[k] = j \/ (k \in DOMAIN l /\ m[k] = l[k])
  BY SMT, <1>1, <1>2, <1>3
<1>5. (\A k \in DOMAIN l : k \in DOMAIN m /\ m[k] = l[k])
      /\ Len(l) + 1 \in DOMAIN m /\ m[Len(l) + 1] = j
  BY SMT, <1>1, <1>2, <1>3
<1>6. ToSet(m) = ToSet(l) \cup {j}
  BY Zenon, <1>4, <1>5 DEF ToSet
<1>7. IsInjective(l) /\ j \notin ToSet(l) => IsInjective(m)
  <2>1. SUFFICES ASSUME IsInjective(l), j \notin ToSet(l),
                        NEW p \in DOMAIN m, NEW q \in DOMAIN m, m[p] = m[q]
                 PROVE  p = q
    BY Zenon DEF IsInjective
  <2>2. \A k \in DOMAIN l : l[k] # j
    BY Zenon, <2>1 DEF ToSet
  <2>3. \A a, b \in DOMAIN l : l[a] = l[b] => a = b
    BY Zenon, <2>1 DEF IsInjective
  <2>4. QED
    BY SMT, <1>1, <1>2, <1>3, <2>1, <2>2, <2>3
<1>8. QED
  BY Zenon, <1>2, <1>6, <1>7 DEF m

(* A list of jobs without repetitions is no longer than the heap *)
LEMMA ListFits ==
  ASSUME CronAlarmAssumption, NEW l \in Seq(Pointers), IsInjective(l)
  PROVE  Len(l) \in 0 .. MaxJob
<1>1. Len(l) \in Nat /\ l \in [1 .. Len(l) -> Pointers]
  BY SMT
<1>2. l \in Injection(1 .. Len(l), Pointers)
  BY Zenon, <1>1 DEF Injection
<1>3. MaxJob \in Nat
  BY DEF CronAlarmAssumption
<1>4. IsFiniteSet(Pointers) /\ Cardinality(Pointers) = MaxJob
  <2>1. 1 \in Int /\ MaxJob \in Int
    BY SMT, <1>3
  <2>2. IsFiniteSet(1 .. MaxJob) /\ Cardinality(1 .. MaxJob) = IF 1 > MaxJob THEN 0 ELSE MaxJob - 1 + 1
    BY Zenon, <2>1, FS_Interval
  <2>3. QED
    BY SMT, <1>3, <2>2 DEF Pointers
<1>5. Cardinality(1 .. Len(l)) = Len(l)
  <2>1. 1 \in Int /\ Len(l) \in Int
    BY SMT, <1>1
  <2>2. Cardinality(1 .. Len(l)) = IF 1 > Len(l) THEN 0 ELSE Len(l) - 1 + 1
    BY Zenon, <2>1, FS_Interval
  <2>3. QED
    BY SMT, <1>1, <2>2
<1>6. Cardinality(1 .. Len(l)) <= Cardinality(Pointers)
  BY Zenon, <1>2, <1>4, FS_Injection
<1>7. QED
  BY SMT, <1>1, <1>3, <1>4, <1>5, <1>6

--------------------------------------------------------------------------------
(* What the steps do to the records of the tasks and to the heap *)

SchedPCs == {"none", "sort", "sortRemove", "sortSchedule", "sortInsert", "loop",
             "asleep", "lock", "remove", "schedule", "insert", "end"}

CmdPCs == {"idle", "stop", "lock", "clear", "delete", "edit", "start", "started"}

LEMMA SchedGotoEffect ==
  ASSUME TypeOK, NEW p \in SchedPCs, SchedGoto(p)
  PROVE  /\ sched' \in SchedType /\ sched'.pc = p /\ sched'.job = sched.job
         /\ sched'.array = sched.array /\ sched'.todo = sched.todo
BY Zenon DEF TypeOK, SchedType, SchedPCs, SchedGoto

LEMMA CmdGotoEffect ==
  ASSUME TypeOK, NEW p \in CmdPCs, CmdGoto(p)
  PROVE  /\ cmd' \in CmdType /\ cmd'.pc = p /\ cmd'.op = cmd.op
         /\ cmd'.crontab = cmd.crontab /\ cmd'.handle = cmd.handle
BY SMT DEF TypeOK, CmdType, CmdPCs, CmdGoto

LEMMA IdleType == Idle \in CmdType /\ NoScheduler \in SchedType
BY SMT, CronAlarmAssumption DEF Idle, NoScheduler, CmdType, SchedType, CronAlarmAssumption, Null,
       NoAlarm

(* The next occurrence of a crontab that has one is later *)
LEMMA NextIsLater ==
  ASSUME NEW tab \in Crontabs, NEW t \in Nat
  PROVE  CronNext(tab, t) \in Times /\ (tab \notin NeverCrontabs => CronNext(tab, t) > t)
<1>1. tab \in Nat \ {0}
  BY CronAlarmAssumption DEF CronAlarmAssumption
<1>2. t \div tab \in Nat /\ t % tab \in 0 .. tab - 1 /\ t = tab * (t \div tab) + (t % tab)
  BY SMT, <1>1
<1>3. (t \div tab + 1) * tab = tab * (t \div tab) + tab
  BY SMT, <1>1, <1>2
<1>4. (t \div tab + 1) * tab \in Nat /\ (t \div tab + 1) * tab > t
  BY SMT, <1>1, <1>2, <1>3
<1>5. QED
  BY SMT, <1>4 DEF CronNext, Times

(* cron_job_schedule sets the next execution of the job, and nothing else *)
LEMMA ScheduledEffect ==
  ASSUME TypeOK, NEW h \in [Pointers -> JobType], NEW j \in Pointers, h[j].crontab \in Crontabs
  PROVE  /\ Scheduled(h, j) \in [Pointers -> JobType]
         /\ \A k \in Pointers \ {j} : Scheduled(h, j)[k] = h[k]
         /\ Scheduled(h, j)[j].state = h[j].state /\ Scheduled(h, j)[j].crontab = h[j].crontab
         /\ Scheduled(h, j)[j].listed = h[j].listed
         /\ Scheduled(h, j)[j].next = CronNext(h[j].crontab, now)
<1>1. CronNext(h[j].crontab, now) \in Times
  BY SMT, NextIsLater DEF TypeOK
<1>2. QED
  BY SMT, <1>1 DEF Scheduled, JobType

(* The jobs of alarms *)
LEMMA AlarmJobsAre ==
  ASSUME TypeOK
  PROVE  AlarmJobs = {j \in Pointers : \E i \in 1 .. Slots : alarms[i].job = j}
<1>1. DOMAIN alarms = 1 .. Slots
  BY DEF TypeOK
<1>2. \A i \in 1 .. Slots : alarms[i].job \in Pointers \cup {Null}
  BY SMT DEF TypeOK, AlarmType
<1>3. Null \notin Pointers
  BY SMT DEF Null, Pointers
<1>4. QED
  BY Zenon, <1>1, <1>2, <1>3 DEF AlarmJobs

(* A job of an alarm was allocated, for a crontab *)
LEMMA AlarmJobIsTyped ==
  ASSUME TypeOK, SlotInv, NEW j \in AlarmJobs
  PROVE  /\ j \in Pointers /\ jobs[j].state # "unused" /\ jobs[j].crontab \in Crontabs
         /\ jobs[j] \in JobType
<1>1. j \in Pointers /\ \E i \in DOMAIN alarms : alarms[i].job = j /\ j # Null
  BY Zenon, AlarmJobsAre DEF AlarmJobs
<1>2. jobs[j].state # "unused"
  BY Zenon, <1>1 DEF SlotInv
<1>3. QED
  BY Zenon, <1>1, <1>2 DEF SlotInv, TypeOK

(* The jobs of the scheduler *)
LEMMA HandsAreTyped ==
  ASSUME AnyInv
  PROVE  /\ list # <<>> => Head(list) \in ToSet(list) /\ Head(list) \in AlarmJobs
         /\ sched.array # <<>> => Head(sched.array) \in AlarmJobs
         /\ sched.pc \in {"asleep", "lock", "remove", "schedule", "insert"}
              => sched.job \in AlarmJobs
<1>1. list \in Seq(Pointers) /\ sched.array \in Seq(Pointers)
  BY SMT DEF AnyInv, TypeOK, SchedType
<1>2. ToSet(list) \subseteq AlarmJobs /\ Held \subseteq AlarmJobs
  BY Zenon DEF AnyInv, NoLeak, HandInv
<1>3. list # <<>> => Head(list) \in ToSet(list)
  BY Zenon, <1>1, TailSet
<1>4. sched.array # <<>> => Head(sched.array) \in ToSet(sched.array)
  BY Zenon, <1>1, TailSet
<1>5. QED
  BY Zenon, <1>2, <1>3, <1>4 DEF Held

--------------------------------------------------------------------------------
(* What the commands do to the alarms, the heap and the list *)

(* alarm_add takes a free slot, and for a crontab that parses a new job, which it *)
(* puts in the list unless the mutex of the list was lost.                        *)
Added(i, j) ==
  /\ alarms[i].crontab = NoAlarm
  /\ j = Null <=> cmd.crontab \in BadCrontabs
  /\ j # Null => j \in Fresh
  /\ alarms' = [alarms EXCEPT ![i] = [crontab |-> cmd.crontab, job |-> j]]
  /\ jobs' \in [Pointers -> JobType]
  /\ \A k \in Pointers \ {j} : jobs'[k] = jobs[k]
  /\ j # Null => /\ jobs'[j].state = "live" /\ jobs'[j].crontab = cmd.crontab
                 /\ jobs'[j].next = CronNext(cmd.crontab, now)
                 /\ jobs'[j].listed <=> listsem = Free
  /\ list' \in Seq(Pointers) /\ IsInjective(list')
  /\ j # Null /\ listsem = Free => ToSet(list') = ToSet(list) \cup {j}
  /\ ~(j # Null /\ listsem = Free) => list' = list

(* The record of a new job, and of one that was put in the list *)
LEMMA NewJob ==
  ASSUME NEW tab \in Crontabs
  PROVE  LET n == [Unused EXCEPT !.state = "live", !.crontab = tab]
         IN n \in JobType /\ n.state = "live" /\ n.crontab = tab /\ ~n.listed
BY Zenon, 0 \in Nat DEF Unused, JobType, Times

LEMMA ListedJob ==
  ASSUME NEW r \in JobType
  PROVE  LET n == [r EXCEPT !.listed = TRUE]
         IN n \in JobType /\ n.state = r.state /\ n.crontab = r.crontab /\ n.next = r.next
            /\ n.listed
BY Zenon DEF JobType

LEMMA AddEffect ==
  ASSUME AnyInv, AddAlarm
  PROVE  \E i \in 1 .. Slots, j \in Pointers \cup {Null} : Added(i, j)
<1> DEFINE i == Min(SlotsOf(NoAlarm))
           tab == cmd.crontab
           j == IF tab \in BadCrontabs THEN Null ELSE Min(Fresh)
           h == [jobs EXCEPT ![j] = [Unused EXCEPT !.state = "live", !.crontab = tab]]
           created == Scheduled(h, j)
<1>1. TypeOK /\ IsInjective(list) /\ list \in Seq(Pointers) /\ jobs \in [Pointers -> JobType]
  BY Zenon DEF AnyInv, ListInv, TypeOK
<1>2. tab \in Crontabs
  BY Zenon DEF AnyInv, ControlInv, AddAlarm
<1>3. i \in 1 .. Slots /\ alarms[i].crontab = NoAlarm
  <2>1. DOMAIN alarms = 1 .. Slots
    BY Zenon, <1>1 DEF TypeOK
  <2>2. SlotsOf(NoAlarm) \in SUBSET Nat /\ SlotsOf(NoAlarm) # {}
    BY SMT, <2>1 DEF SlotsOf, AddAlarm
  <2>3. i \in SlotsOf(NoAlarm)
    BY Zenon, <2>2, MinIsFirst
  <2>4. QED
    BY Zenon, <2>1, <2>3 DEF SlotsOf
<1>4. tab \notin BadCrontabs => j \in Fresh /\ j \in Pointers
  <2>1. HAVE tab \notin BadCrontabs
  <2>2. Fresh # {}
    <3>1. cmd.op = "add" /\ cmd.pc = "edit" /\ SlotsOf(NoAlarm) # {}
      BY Zenon DEF AddAlarm
    <3>2. QED
      BY Zenon, <2>1, <3>1 DEF AnyInv, RoomInv
  <2>3. Fresh \subseteq Pointers /\ Fresh \in SUBSET Nat
    BY SMT, <1>1 DEF Fresh, Pointers
  <2>4. Min(Fresh) \in Fresh
    BY Zenon, <2>2, <2>3, MinIsFirst
  <2>5. QED
    BY Zenon, <2>1, <2>3, <2>4
<1>5. Null \notin Pointers
  BY SMT DEF Null, Pointers
<1>6. j \in Pointers \cup {Null} /\ (j = Null <=> tab \in BadCrontabs) /\ (j # Null => j \in Fresh)
  BY Zenon, <1>4, <1>5
<1>7. /\ alarms' = [alarms EXCEPT ![i] = [crontab |-> tab, job |-> j]]
      /\ IF j = Null THEN jobs' = jobs /\ list' = list
         ELSE IF listsem = Free
           THEN list' = Inserted(list, created, j) /\ jobs' = [created EXCEPT ![j].listed = TRUE]
           ELSE jobs' = created /\ list' = list
  BY Zenon DEF AddAlarm
<1> HIDE DEF i, j, created
<1>8. CASE j = Null
  BY Zenon, <1>1, <1>3, <1>6, <1>7, <1>8 DEF Added
<1>9. CASE j # Null
  <2>1. j \in Pointers /\ j \in Fresh
    BY Zenon, <1>6, <1>9
  <2>2. /\ h \in [Pointers -> JobType] /\ h[j].crontab = tab /\ h[j].state = "live"
        /\ ~h[j].listed /\ \A k \in Pointers \ {j} : h[k] = jobs[k]
    <3> DEFINE n == [Unused EXCEPT !.state = "live", !.crontab = tab]
    <3>1. n \in JobType /\ n.state = "live" /\ n.crontab = tab /\ ~n.listed
      BY Zenon, <1>2, NewJob
    <3>2. h = [jobs EXCEPT ![j] = n]
      OBVIOUS
    <3> HIDE DEF n, h
    <3>3. h \in [Pointers -> JobType] /\ h[j] = n /\ \A k \in Pointers \ {j} : h[k] = jobs[k]
      BY SMT, <1>1, <2>1, <3>1, <3>2
    <3>4. QED
      BY Zenon, <3>1, <3>3
  <2> HIDE DEF h
  <2>3. /\ created \in [Pointers -> JobType]
        /\ \A k \in Pointers \ {j} : created[k] = jobs[k]
        /\ created[j].state = "live" /\ created[j].crontab = tab
        /\ created[j].next = CronNext(tab, now) /\ ~created[j].listed
    <3>1. /\ created \in [Pointers -> JobType]
          /\ \A k \in Pointers \ {j} : created[k] = h[k]
          /\ created[j].state = h[j].state /\ created[j].crontab = h[j].crontab
          /\ created[j].next = CronNext(h[j].crontab, now) /\ created[j].listed = h[j].listed
      BY SMT, <1>1, <1>2, <2>1, <2>2, ScheduledEffect DEF created
    <3>2. QED
      BY Zenon, <2>2, <3>1
  <2>4. CASE listsem = Free
    <3>1. /\ jobs' \in [Pointers -> JobType]
          /\ \A k \in Pointers \ {j} : jobs'[k] = jobs[k]
          /\ jobs'[j].state = "live" /\ jobs'[j].crontab = tab /\ jobs'[j].listed
          /\ jobs'[j].next = CronNext(tab, now)
      <4>1. jobs' = [created EXCEPT ![j].listed = TRUE]
        BY Zenon, <1>7, <1>9, <2>4
      <4> DEFINE n == [created[j] EXCEPT !.listed = TRUE]
      <4>2. /\ n \in JobType /\ n.state = created[j].state /\ n.crontab = created[j].crontab
            /\ n.next = created[j].next /\ n.listed
        BY Zenon, <2>1, <2>3, ListedJob
      <4>3. jobs' = [created EXCEPT ![j] = n]
        BY Zenon, <4>1
      <4> HIDE DEF n
      <4>4. jobs' \in [Pointers -> JobType] /\ jobs'[j] = n
            /\ \A k \in Pointers \ {j} : jobs'[k] = created[k]
        BY SMT, <2>1, <2>3, <4>2, <4>3
      <4>5. QED
        BY Zenon, <2>3, <4>2, <4>4
    <3>2. j \notin ToSet(list)
      <4>1. \A k \in ToSet(list) : jobs[k].state # "unused"
        BY Zenon, <1>1, AlarmJobIsTyped DEF AnyInv, NoLeak
      <4>2. QED
        BY Zenon, <2>1, <4>1 DEF Fresh
    <3>3. list' = Inserted(list, created, j)
      BY Zenon, <1>7, <1>9, <2>4
    <3>4. list' \in Seq(Pointers) /\ IsInjective(list') /\ ToSet(list') = ToSet(list) \cup {j}
      BY SMT, <1>1, <2>1, <3>2, <3>3, InsertedSet
    <3>5. QED
      BY Zenon, <1>3, <1>6, <1>7, <1>9, <2>1, <2>4, <3>1, <3>4 DEF Added
  <2>5. CASE listsem # Free
    <3>1. jobs' = created /\ list' = list
      BY Zenon, <1>7, <1>9, <2>5
    <3>2. QED
      BY Zenon, <1>1, <1>3, <1>6, <1>7, <1>9, <2>1, <2>3, <2>5, <3>1 DEF Added
  <2>6. QED
    BY Zenon, <2>4, <2>5
<1>10. QED
  BY Zenon, <1>8, <1>9

(* alarm_delete frees the slot and the job, which leaves the list *)
Deleted(i, j) ==
  /\ alarms[i].job = j /\ jobs[j].state # "unused"
  /\ alarms' = [alarms EXCEPT ![i] = [crontab |-> NoAlarm, job |-> Null]]
  /\ jobs' \in [Pointers -> JobType]
  /\ \A k \in Pointers \ {j} : jobs'[k] = jobs[k]
  /\ jobs'[j].state = "freed" /\ jobs'[j].crontab = jobs[j].crontab
  /\ jobs'[j].next = jobs[j].next /\ jobs'[j].listed = jobs[j].listed
  /\ list' \in Seq(Pointers) /\ IsInjective(list') /\ ToSet(list') = ToSet(list) \ {j}

LEMMA FreedEffect ==
  ASSUME TypeOK, NEW j \in Pointers
  PROVE  /\ Freed(j) \in [Pointers -> JobType]
         /\ \A k \in Pointers \ {j} : Freed(j)[k] = jobs[k]
         /\ Freed(j)[j].state = "freed" /\ Freed(j)[j].crontab = jobs[j].crontab
         /\ Freed(j)[j].next = jobs[j].next /\ Freed(j)[j].listed = jobs[j].listed
BY SMT DEF TypeOK, Freed, JobType

LEMMA DeletingIs ==
  ASSUME AnyInv, cmd.pc = "edit", SlotsOf(cmd.crontab) # {}
  PROVE  /\ Deleting \in 1 .. Slots /\ alarms[Deleting].crontab = cmd.crontab
         /\ alarms[Deleting].job # Null =>
              alarms[Deleting].job \in AlarmJobs /\ alarms[Deleting].job \in Pointers
<1>1. TypeOK /\ DOMAIN alarms = 1 .. Slots
  BY Zenon DEF AnyInv, TypeOK
<1>2. SlotsOf(cmd.crontab) \in SUBSET Nat
  BY SMT, <1>1 DEF SlotsOf
<1>3. Deleting \in SlotsOf(cmd.crontab)
  BY Zenon, <1>2, MinIsFirst DEF Deleting
<1>4. Deleting \in 1 .. Slots /\ alarms[Deleting].crontab = cmd.crontab
  BY Zenon, <1>1, <1>3 DEF SlotsOf
<1>5. alarms[Deleting].job # Null => alarms[Deleting].job \in AlarmJobs
  BY Zenon, <1>1, <1>4 DEF AlarmJobs
<1>6. alarms[Deleting].job # Null => alarms[Deleting].job \in Pointers
  BY Zenon, <1>1, <1>5, AlarmJobsAre
<1>7. QED
  BY Zenon, <1>4, <1>5, <1>6

LEMMA DeleteEffect ==
  ASSUME AnyInv, DeleteAlarm
  PROVE  \E i \in 1 .. Slots, j \in Pointers : Deleted(i, j) /\ alarms[i].crontab = cmd.crontab
<1> DEFINE i == Deleting
           j == alarms[i].job
<1>1. TypeOK /\ IsInjective(list) /\ list \in Seq(Pointers)
  BY Zenon DEF AnyInv, ListInv, TypeOK
<1>2. cmd.pc = "edit" /\ SlotsOf(cmd.crontab) # {} /\ j # Null
  BY Zenon DEF DeleteAlarm
<1>3. i \in 1 .. Slots /\ alarms[i].crontab = cmd.crontab /\ j \in AlarmJobs /\ j \in Pointers
  BY Zenon, <1>2, DeletingIs
<1>4. /\ alarms' = [alarms EXCEPT ![i] = [crontab |-> NoAlarm, job |-> Null]]
      /\ jobs' = Freed(j)
      /\ list' = IF jobs[j].listed THEN Removed(list, j) ELSE list
  BY Zenon DEF DeleteAlarm
<1>5. jobs[j].state # "unused" /\ alarms[i].job = j
  BY Zenon, <1>1, <1>3, AlarmJobIsTyped DEF AnyInv
<1> HIDE DEF i, j
<1>6. list' \in Seq(Pointers) /\ IsInjective(list') /\ ToSet(list') = ToSet(list) \ {j}
  <2>1. CASE jobs[j].listed
    BY Zenon, <1>1, <1>4, <2>1, RemovedSet
  <2>2. CASE ~jobs[j].listed
    <3>1. j \notin ToSet(list)
      BY Zenon, <2>2 DEF AnyInv, HandInv
    <3>2. QED
      BY Zenon, <1>1, <1>4, <2>2, <3>1
  <2>3. QED
    BY Zenon, <2>1, <2>2
<1>7. /\ jobs' \in [Pointers -> JobType]
      /\ \A k \in Pointers \ {j} : jobs'[k] = jobs[k]
      /\ jobs'[j].state = "freed" /\ jobs'[j].crontab = jobs[j].crontab
      /\ jobs'[j].next = jobs[j].next /\ jobs'[j].listed = jobs[j].listed
  BY Zenon, <1>1, <1>3, <1>4, FreedEffect
<1>8. Deleted(i, j)
  BY Zenon, <1>4, <1>5, <1>6, <1>7 DEF Deleted
<1>9. QED
  BY Zenon, <1>3, <1>8

(* A deletion that fails frees at most the job, and leaves it where it was *)
LEMMA DeleteFailsEffect ==
  ASSUME AnyInv, DeleteFails
  PROVE  \/ jobs' = jobs
         \/ \E j \in Pointers : jobs' = Freed(j) /\ jobs[j].state # "unused" /\ j \in AlarmJobs
                                /\ ~Unlistable(j)
<1>1. cmd.pc = "edit" /\ SlotsOf(cmd.crontab) # {}
  BY Zenon DEF DeleteFails
<1>2. alarms[Deleting].job # Null =>
        alarms[Deleting].job \in AlarmJobs /\ alarms[Deleting].job \in Pointers
  BY Zenon, <1>1, DeletingIs
<1>3. alarms[Deleting].job # Null => jobs[alarms[Deleting].job].state # "unused"
  BY Zenon, <1>2, AlarmJobIsTyped DEF AnyInv
<1>4. QED
  BY Zenon, <1>2, <1>3 DEF DeleteFails

--------------------------------------------------------------------------------
(* What the other steps do *)

LEMMA EmptyArray == ToSet(<<>>) = {}
BY SMT DEF ToSet

(* The handle that cron_stop saved *)
LEMMA CmdHandleEffect ==
  ASSUME TypeOK, NEW p \in CmdPCs, NEW h \in BOOLEAN, cmd' = [cmd EXCEPT !.pc = p, !.handle = h]
  PROVE  /\ cmd' \in CmdType /\ cmd'.pc = p /\ cmd'.op = cmd.op
         /\ cmd'.crontab = cmd.crontab /\ cmd'.handle = h
BY Zenon DEF TypeOK, CmdType, CmdPCs

LEMMA StartEffect ==
  ASSUME StartCreate
  PROVE  /\ sched' \in SchedType /\ sched'.pc = "sort" /\ sched'.job = Null
         /\ sched'.array = <<>>
<1>1. NoScheduler \in SchedType /\ NoScheduler.job = Null /\ NoScheduler.array = <<>>
  BY Zenon, IdleType DEF NoScheduler
<1>2. sched' = [NoScheduler EXCEPT !.pc = "sort"]
  BY Zenon DEF StartCreate
<1>3. QED
  BY Zenon, <1>1, <1>2 DEF SchedType

(* The scheduler goes on with a job of an alarm *)
LEMMA SchedJobEffect ==
  ASSUME TypeOK, NEW p \in SchedPCs, NEW j \in Pointers,
         sched' = [sched EXCEPT !.pc = p, !.job = j]
  PROVE  /\ sched' \in SchedType /\ sched'.pc = p /\ sched'.job = j
         /\ sched'.array = sched.array /\ sched'.todo = sched.todo
BY Zenon DEF TypeOK, SchedType, SchedPCs

(* The scheduler sorts *)
LEMMA SortsEffect ==
  ASSUME TypeOK, NEW p \in SchedPCs, NEW a \in Seq(Pointers), NEW n \in 0 .. MaxJob,
         \/ sched' = [sched EXCEPT !.array = a, !.todo = n, !.pc = p]
         \/ sched' = [sched EXCEPT !.array = a, !.pc = p] /\ n = sched.todo
         \/ sched' = [sched EXCEPT !.pc = p, !.todo = n] /\ a = sched.array
  PROVE  /\ sched' \in SchedType /\ sched'.pc = p /\ sched'.job = sched.job
         /\ sched'.array = a /\ sched'.todo = n
BY Zenon DEF TypeOK, SchedType, SchedPCs

LEMMA SortCountEffect ==
  ASSUME AnyInv, SortCount
  PROVE  /\ sched' \in SchedType /\ sched'.job = sched.job /\ sched'.array = sched.array
         /\ sched'.pc = IF list = <<>> THEN "loop" ELSE "sortRemove"
         /\ sched'.todo = Len(list)
<1>1. TypeOK /\ list \in Seq(Pointers) /\ IsInjective(list) /\ sched.array \in Seq(Pointers)
  BY Zenon DEF AnyInv, TypeOK, SchedType, ListInv
<1> DEFINE p == IF list = <<>> THEN "loop" ELSE "sortRemove"
<1>2. Len(list) \in 0 .. MaxJob
  BY Zenon, <1>1, CronAlarmAssumption, ListFits
<1>3. p \in SchedPCs
  BY Zenon DEF SchedPCs
<1>4. sched' = [sched EXCEPT !.pc = p, !.todo = Len(list)]
  BY Zenon DEF SortCount
<1> HIDE DEF p
<1>5. /\ sched' \in SchedType /\ sched'.job = sched.job /\ sched'.array = sched.array
      /\ sched'.pc = p /\ sched'.todo = Len(list)
  BY Zenon, <1>1, <1>2, <1>3, <1>4, SortsEffect
<1>6. QED
  BY Zenon, <1>5 DEF p

(* cron_job_sort moves the first job of the list to the end of its array *)
LEMMA SortRemoveEffect ==
  ASSUME AnyInv, SortRemove
  PROVE  /\ list # <<>> /\ Head(list) \in ToSet(list)
         /\ sched' \in SchedType /\ sched'.job = sched.job /\ sched'.array # <<>>
         /\ sched'.pc = IF sched.todo = 1 THEN "sortSchedule" ELSE "sortRemove"
         /\ sched'.todo = sched.todo - 1
         /\ ToSet(sched'.array) = ToSet(sched.array) \cup {Head(list)}
         /\ IsInjective(sched.array) /\ Head(list) \notin ToSet(sched.array)
              => IsInjective(sched'.array)
         /\ list' \in Seq(Pointers) /\ IsInjective(list')
         /\ \/ /\ listsem = Scheduler /\ listsem' = Free
               /\ ToSet(list') = ToSet(list) \ {Head(list)} /\ Len(list') = Len(list) - 1
            \/ listsem = Dead /\ listsem' = listsem /\ list' = list
<1>1. sched \in SchedType /\ list \in Seq(Pointers) /\ IsInjective(list) /\ sched.pc = "sortRemove"
  BY Zenon DEF AnyInv, TypeOK, ListInv, SortRemove
<1>2. list # <<>> /\ sched.todo > 0
  BY Zenon, <1>1 DEF AnyInv, HandInv
<1>3. sched.array \in Seq(Pointers) /\ sched.todo \in 0 .. MaxJob
  BY Zenon, <1>1 DEF SchedType
<1> DEFINE j == Head(list)
           a == Append(sched.array, j)
<1>4. j \in Pointers /\ j \in ToSet(list) /\ Tail(list) \in Seq(Pointers)
      /\ ToSet(Tail(list)) = ToSet(list) \ {j} /\ Len(Tail(list)) = Len(list) - 1
      /\ IsInjective(Tail(list))
  BY SMT, <1>1, <1>2, TailSet
<1>5. /\ a \in Seq(Pointers) /\ a # <<>> /\ ToSet(a) = ToSet(sched.array) \cup {j}
      /\ IsInjective(sched.array) /\ j \notin ToSet(sched.array) => IsInjective(a)
  BY SMT, <1>3, <1>4, AppendSet
<1> DEFINE p == IF sched.todo = 1 THEN "sortSchedule" ELSE "sortRemove"
<1>6. sched' = [sched EXCEPT !.array = a, !.todo = sched.todo - 1, !.pc = p] /\ p \in SchedPCs
  BY Zenon DEF SortRemove, SchedPCs
<1> HIDE DEF a, p
<1>7. sched.todo - 1 \in 0 .. MaxJob
  BY SMT, <1>2, <1>3, CronAlarmAssumption DEF CronAlarmAssumption
<1>8. /\ sched' \in SchedType /\ sched'.job = sched.job /\ sched'.array = a
      /\ sched'.pc = p /\ sched'.todo = sched.todo - 1
  <2>1. TypeOK /\ a \in Seq(Pointers)
    BY Zenon, <1>5 DEF AnyInv
  <2> DEFINE n == sched.todo - 1
  <2>2. n \in 0 .. MaxJob /\ p \in SchedPCs /\ sched' = [sched EXCEPT !.array = a, !.todo = n, !.pc = p]
    BY Zenon, <1>6, <1>7
  <2> HIDE DEF n
  <2>3. sched' \in SchedType /\ sched'.pc = p /\ sched'.job = sched.job /\ sched'.array = a /\ sched'.todo = n
    BY Zenon, <2>1, <2>2, SortsEffect
  <2>4. QED
    BY Zenon, <2>3 DEF n
<1>9. /\ list' \in Seq(Pointers) /\ IsInjective(list')
      /\ \/ /\ listsem = Scheduler /\ listsem' = Free
            /\ ToSet(list') = ToSet(list) \ {j} /\ Len(list') = Len(list) - 1
         \/ listsem = Dead /\ listsem' = listsem /\ list' = list
  BY Zenon, <1>1, <1>4 DEF SortRemove, ListReturns
<1>10. QED
  BY Zenon, <1>2, <1>4, <1>5, <1>8, <1>9 DEF p

(* ... and puts it back *)
LEMMA SortInsertEffect ==
  ASSUME AnyInv, SortInsert
  PROVE  /\ sched.array # <<>> /\ Head(sched.array) \in ToSet(sched.array)
         /\ sched' \in SchedType /\ sched'.job = sched.job
         /\ sched'.pc = IF Len(sched.array) = 1 THEN "loop" ELSE "sortSchedule"
         /\ sched'.array = <<>> <=> Len(sched.array) = 1
         /\ ToSet(sched'.array) \subseteq ToSet(sched.array)
         /\ IsInjective(sched.array) =>
              IsInjective(sched'.array)
              /\ ToSet(sched'.array) = ToSet(sched.array) \ {Head(sched.array)}
         /\ list' \in Seq(Pointers) /\ IsInjective(list')
         /\ \/ /\ listsem = Scheduler /\ listsem' = Free
               /\ ToSet(list') = ToSet(list) \cup {Head(sched.array)}
            \/ listsem = Dead /\ listsem' = listsem /\ list' = list
<1>1. /\ sched \in SchedType /\ list \in Seq(Pointers) /\ IsInjective(list)
      /\ sched.pc = "sortInsert" /\ sched.array # <<>>
  BY Zenon DEF AnyInv, TypeOK, ListInv, HandInv, SortInsert
<1>2. sched.array \in Seq(Pointers)
  BY Zenon, <1>1 DEF SchedType
<1> DEFINE j == Head(sched.array)
           a == Tail(sched.array)
<1>3. /\ j \in Pointers /\ j \in ToSet(sched.array) /\ a \in Seq(Pointers)
      /\ Len(a) = Len(sched.array) - 1 /\ ToSet(sched.array) = ToSet(a) \cup {j}
      /\ IsInjective(sched.array) => IsInjective(a) /\ j \notin ToSet(a)
  BY Zenon, <1>1, <1>2, TailSet
<1>4. a = <<>> <=> Len(sched.array) = 1
  <2> HIDE DEF a
  <2>1. a = <<>> <=> Len(a) = 0
    <3>1. a # <<>> => Len(a) \in Nat \ {0}
      BY <1>3, EmptySeq
    <3>2. Len(<<>>) = 0
      BY SMT
    <3>3. QED
      BY Zenon, <3>1, <3>2
  <2>2. Len(sched.array) \in Nat
    BY SMT, <1>2
  <2>3. QED
    BY SMT, <1>3, <2>1, <2>2
<1> DEFINE p == IF Len(sched.array) = 1 THEN "loop" ELSE "sortSchedule"
<1>5. sched' = [sched EXCEPT !.array = a, !.pc = p] /\ p \in SchedPCs
  BY Zenon DEF SortInsert, SchedPCs
<1> HIDE DEF a, p
<1>6. /\ sched' \in SchedType /\ sched'.job = sched.job /\ sched'.array = a
      /\ sched'.pc = p
  <2>1. sched.todo \in 0 .. MaxJob /\ TypeOK
    BY Zenon, <1>1 DEF SchedType, AnyInv
  <2>2. QED
    BY Zenon, <1>3, <1>5, <2>1, SortsEffect
<1>7. /\ list' \in Seq(Pointers) /\ IsInjective(list')
      /\ \/ /\ listsem = Scheduler /\ listsem' = Free
            /\ ToSet(list') = ToSet(list) \cup {j}
         \/ listsem = Dead /\ listsem' = listsem /\ list' = list
  <2>1. CASE listsem = Scheduler
    <3>1. listsem' = Free /\ list' = Inserted(list, jobs, j)
      BY Zenon, <2>1 DEF SortInsert, ListReturns, Scheduler, Dead
    <3>2. j \notin ToSet(list)
      BY Zenon, <1>3, <2>1 DEF AnyInv, ListInv, InHand, Scheduler, Dead
    <3>3. QED
      BY SMT, <1>1, <1>3, <2>1, <3>1, <3>2, InsertedSet
  <2>2. CASE listsem # Scheduler
    BY Zenon, <1>1, <2>2 DEF SortInsert, ListReturns
  <2>3. QED
    BY Zenon, <2>1, <2>2
<1>8. QED
  BY Zenon, <1>1, <1>3, <1>4, <1>6, <1>7 DEF a, p

(* The job that was fired leaves the list ... *)
LEMMA FireRemoveEffect ==
  ASSUME AnyInv, FireRemove
  PROVE  /\ list' \in Seq(Pointers) /\ IsInjective(list')
         /\ \/ /\ listsem = Scheduler /\ listsem' = Free
               /\ ToSet(list') = ToSet(list) \ {sched.job}
            \/ listsem = Dead /\ listsem' = listsem /\ list' = list
<1>1. list \in Seq(Pointers) /\ IsInjective(list)
  BY Zenon DEF AnyInv, TypeOK, ListInv
<1>2. Removed(list, sched.job) \in Seq(Pointers) /\ IsInjective(Removed(list, sched.job))
      /\ ToSet(Removed(list, sched.job)) = ToSet(list) \ {sched.job}
  BY Zenon, <1>1, RemovedSet
<1>3. QED
  BY Zenon, <1>1, <1>2 DEF FireRemove, ListReturns

(* ... and is put back *)
LEMMA FireInsertEffect ==
  ASSUME AnyInv, FireInsert
  PROVE  /\ list' \in Seq(Pointers) /\ IsInjective(list')
         /\ \/ /\ listsem = Scheduler /\ listsem' = Free
               /\ ToSet(list') = ToSet(list) \cup {sched.job}
            \/ listsem = Dead /\ listsem' = listsem /\ list' = list
<1>1. list \in Seq(Pointers) /\ IsInjective(list) /\ sched.pc = "insert" /\ TypeOK
  BY Zenon DEF AnyInv, TypeOK, ListInv, FireInsert
<1>2. sched.job \in Pointers
  BY Zenon, <1>1, HandsAreTyped, AlarmJobsAre
<1>3. CASE listsem = Scheduler
  <2>1. listsem' = Free /\ list' = Inserted(list, jobs, sched.job)
    BY Zenon, <1>3 DEF FireInsert, ListReturns, Scheduler, Dead
  <2>2. sched.job \notin ToSet(list)
    BY Zenon, <1>1, <1>3 DEF AnyInv, ListInv, InHand, Scheduler, Dead
  <2>3. QED
    BY SMT, <1>1, <1>2, <1>3, <2>1, <2>2, InsertedSet
<1>4. CASE listsem # Scheduler
  BY Zenon, <1>1, <1>4 DEF FireInsert, ListReturns
<1>5. QED
  BY Zenon, <1>3, <1>4

(* The job whose next execution the scheduler sets is one of an alarm. *)
Rescheduled(j) ==
  /\ jobs' \in [Pointers -> JobType]
  /\ \A k \in Pointers \ {j} : jobs'[k] = jobs[k]
  /\ jobs'[j].state = jobs[j].state /\ jobs'[j].crontab = jobs[j].crontab
  /\ jobs'[j].listed = jobs[j].listed /\ jobs'[j].next = CronNext(jobs[j].crontab, now)

LEMMA RescheduleEffect ==
  ASSUME AnyInv, NEW j \in AlarmJobs, jobs' = Scheduled(jobs, j)
  PROVE  Rescheduled(j)
<1>1. TypeOK /\ jobs \in [Pointers -> JobType] /\ j \in Pointers /\ jobs[j].crontab \in Crontabs
  BY Zenon, AlarmJobIsTyped DEF AnyInv, TypeOK
<1>2. QED
  BY Zenon, <1>1, ScheduledEffect DEF Rescheduled

--------------------------------------------------------------------------------
(* Who writes what *)

LEMMA AlarmsWriters ==
  ASSUME [Step]_vars
  PROVE  alarms' = alarms \/ AddAlarm \/ DeleteAlarm
BY Zenon DEF Step, CommandSteps, SchedulerTask, vars, heap, module, history, AddCommand,
   DeleteCommand, Command, StopIsStopped, StopDelay, StopTakeHandle, StopTimesOut, StopClear,
   StopDelete, AddNoSlot, DeleteFails, DeleteNotFound, StartCreate, StartSetRunning, TakeList,
   SortRefused, SortCount, SortRemove, SortSchedule, SortInsert, LoopNoJobs, LoopFire, LoopSleep,
   Wake, FireLock, FireLockTimesOut, FireRemove, FireSchedule, FireInsert, End, EndTimesOut,
   Launcher, Tick

LEMMA JobsWriters ==
  ASSUME [Step]_vars
  PROVE  jobs' = jobs \/ AddAlarm \/ DeleteAlarm \/ DeleteFails \/ SortSchedule \/ FireSchedule
BY Zenon DEF Step, CommandSteps, SchedulerTask, vars, heap, module, history, AddCommand,
   DeleteCommand, Command, StopIsStopped, StopDelay, StopTakeHandle, StopTimesOut, StopClear,
   StopDelete, AddNoSlot, DeleteNotFound, StartCreate, StartSetRunning, TakeList,
   SortRefused, SortCount, SortRemove, SortInsert, LoopNoJobs, LoopFire, LoopSleep,
   Wake, FireLock, FireLockTimesOut, FireRemove, FireInsert, End, EndTimesOut,
   Launcher, Tick

LEMMA ListWriters ==
  ASSUME [Step]_vars
  PROVE  list' = list \/ AddAlarm \/ DeleteAlarm \/ SortRemove \/ SortInsert \/ FireRemove
         \/ FireInsert
BY Zenon DEF Step, CommandSteps, SchedulerTask, vars, heap, module, history, AddCommand,
   DeleteCommand, Command, StopIsStopped, StopDelay, StopTakeHandle, StopTimesOut, StopClear,
   StopDelete, AddNoSlot, DeleteFails, DeleteNotFound, StartCreate, StartSetRunning, TakeList,
   SortRefused, SortCount, SortSchedule, LoopNoJobs, LoopFire, LoopSleep,
   Wake, FireLock, FireLockTimesOut, FireSchedule, End, EndTimesOut,
   Launcher, Tick

LEMMA FiredWriters ==
  ASSUME [Step]_vars
  PROVE  fired' = fired \/ LoopFire
BY Zenon DEF Step, CommandSteps, SchedulerTask, vars, heap, module, history, AddCommand,
   DeleteCommand, Command, StopIsStopped, StopDelay, StopTakeHandle, StopTimesOut, StopClear,
   StopDelete, AddAlarm, AddNoSlot, DeleteAlarm, DeleteFails, DeleteNotFound, StartCreate,
   StartSetRunning, TakeList, SortRefused, SortCount, SortRemove, SortSchedule, SortInsert,
   LoopNoJobs, LoopSleep, Wake, FireLock, FireLockTimesOut, FireRemove, FireSchedule, FireInsert,
   End, EndTimesOut, Launcher, Tick

(* The scheduler's steps start from a scheduler that is there *)
LEMMA CmdWriters ==
  ASSUME [Step]_vars
  PROVE  \/ cmd' = cmd
         \/ AddCommand \/ DeleteCommand \/ CommandSteps
BY Zenon DEF Step, SchedulerTask, vars, heap, module, history, TakeList, SortRefused, SortCount,
   SortRemove, SortSchedule, SortInsert, LoopNoJobs, LoopFire, LoopSleep, Wake, FireLock,
   FireLockTimesOut, FireRemove, FireSchedule, FireInsert, End, EndTimesOut, Launcher, Tick

LEMMA SchedWriters ==
  ASSUME [Step]_vars
  PROVE  sched' = sched \/ StopDelete \/ StartCreate \/ SchedulerTask
BY Zenon DEF Step, CommandSteps, vars, heap, module, history, AddCommand,
   DeleteCommand, Command, StopIsStopped, StopDelay, StopTakeHandle, StopTimesOut, StopClear,
   AddAlarm, AddNoSlot, DeleteAlarm, DeleteFails, DeleteNotFound, StartSetRunning, Launcher, Tick

--------------------------------------------------------------------------------
(* Where each step leads: the record of the command ... *)

CmdMoves(p) ==
  /\ cmd' \in CmdType /\ cmd'.pc = p /\ cmd'.op = cmd.op /\ cmd'.crontab = cmd.crontab

LEMMA CmdEffect ==
  ASSUME TypeOK, AddCommand \/ DeleteCommand \/ CommandSteps
  PROVE  /\ cmd' \in CmdType
         /\ AddCommand \/ DeleteCommand => cmd'.pc = "stop"
         /\ StopIsStopped => CmdMoves("edit")
         /\ StopDelay => CmdMoves("lock")
         /\ StopTakeHandle => CmdMoves("clear") /\ cmd'.handle = handle
         /\ StopTimesOut \/ DeleteFails \/ StartSetRunning => cmd' = Idle
         /\ StopClear => CmdMoves("delete") /\ cmd'.handle = cmd.handle
         /\ StopDelete => CmdMoves("edit")
         /\ AddAlarm \/ AddNoSlot \/ DeleteAlarm \/ DeleteNotFound => CmdMoves("start")
         /\ StartCreate => CmdMoves("started")
<1>1. AddCommand \/ DeleteCommand => cmd' \in CmdType /\ cmd'.pc = "stop"
  <2>1. ASSUME NEW tab \in Crontabs, NEW op \in {"add", "delete"}, Command(op, tab)
        PROVE  cmd' \in CmdType /\ cmd'.pc = "stop"
    BY Zenon, <2>1 DEF Command, CmdType
  <2>2. QED
    BY Zenon, <2>1 DEF AddCommand, DeleteCommand
<1>2. StopIsStopped => CmdMoves("edit")
  BY Zenon, CmdGotoEffect DEF StopIsStopped, CmdMoves, CmdPCs
<1>3. StopDelay => CmdMoves("lock")
  BY Zenon, CmdGotoEffect DEF StopDelay, CmdMoves, CmdPCs
<1>4. StopTakeHandle => CmdMoves("clear") /\ cmd'.handle = handle
  <2>1. "clear" \in CmdPCs /\ handle \in BOOLEAN
    BY Zenon DEF TypeOK, CmdPCs
  <2>2. QED
    BY Zenon, <2>1, CmdHandleEffect DEF StopTakeHandle, CmdMoves
<1>5. StopTimesOut \/ DeleteFails \/ StartSetRunning => cmd' = Idle /\ cmd' \in CmdType
  BY Zenon, IdleType DEF StopTimesOut, DeleteFails, StartSetRunning
<1>6. StopClear => CmdMoves("delete") /\ cmd'.handle = cmd.handle
  BY Zenon, CmdGotoEffect DEF StopClear, CmdMoves, CmdPCs
<1>7. StopDelete => CmdMoves("edit")
  BY Zenon, CmdHandleEffect DEF StopDelete, CmdMoves, CmdPCs
<1>8. AddAlarm \/ AddNoSlot \/ DeleteAlarm \/ DeleteNotFound => CmdMoves("start")
  BY Zenon, CmdGotoEffect DEF AddAlarm, AddNoSlot, DeleteAlarm, DeleteNotFound, CmdMoves, CmdPCs
<1>9. StartCreate => CmdMoves("started")
  BY Zenon, CmdGotoEffect DEF StartCreate, CmdMoves, CmdPCs
<1>10. cmd' \in CmdType
  BY Zenon, <1>1, <1>2, <1>3, <1>4, <1>5, <1>6, <1>7, <1>8, <1>9 DEF CommandSteps, CmdMoves
<1>11. QED
  BY Zenon, <1>1, <1>2, <1>3, <1>4, <1>5, <1>6, <1>7, <1>8, <1>9, <1>10

LEMMA CmdTyped ==
  ASSUME AnyInv, [Step]_vars
  PROVE  cmd' \in CmdType
BY Zenon, CmdWriters, CmdEffect DEF AnyInv, TypeOK

(* ... and that of the scheduler *)
SchedMoves(p) ==
  /\ sched' \in SchedType /\ sched'.pc = p /\ sched'.job = sched.job
  /\ sched'.array = sched.array /\ sched'.todo = sched.todo

SchedTakes(p) ==
  /\ sched' \in SchedType /\ sched'.pc = p /\ sched'.job = Head(list)
  /\ sched'.array = sched.array

LEMMA SchedEffect ==
  ASSUME AnyInv
  PROVE  /\ TakeList => sched' = sched
         /\ SortRefused \/ Wake \/ FireLockTimesOut \/ FireInsert => SchedMoves("loop")
         /\ SortSchedule => SchedMoves("sortInsert")
         /\ LoopNoJobs => SchedMoves("end")
         /\ LoopFire => SchedTakes("lock")
         /\ LoopSleep => SchedTakes("asleep")
         /\ FireLock => SchedMoves("remove")
         /\ FireRemove => SchedMoves("schedule")
         /\ FireSchedule => SchedMoves("insert")
         /\ End \/ EndTimesOut => sched' = NoScheduler
<1>1. TypeOK
  BY Zenon DEF AnyInv
<1>2. /\ SortRefused \/ Wake \/ FireLockTimesOut \/ FireInsert => SchedMoves("loop")
      /\ SortSchedule => SchedMoves("sortInsert")
      /\ LoopNoJobs => SchedMoves("end")
      /\ FireLock => SchedMoves("remove")
      /\ FireRemove => SchedMoves("schedule")
      /\ FireSchedule => SchedMoves("insert")
  BY Zenon, <1>1, SchedGotoEffect DEF SchedMoves, SchedPCs, SortRefused, Wake, FireLockTimesOut,
     FireInsert, SortSchedule, LoopNoJobs, FireLock, FireRemove, FireSchedule
<1>3. LoopFire => SchedTakes("lock")
  <2>1. ASSUME LoopFire PROVE Head(list) \in Pointers /\ "lock" \in SchedPCs
    BY Zenon, <1>1, <2>1, HandsAreTyped, AlarmJobIsTyped DEF AnyInv, LoopFire, SchedPCs
  <2>2. QED
    BY Zenon, <1>1, <2>1, SchedJobEffect DEF LoopFire, SchedTakes
<1>4. LoopSleep => SchedTakes("asleep")
  <2>1. ASSUME LoopSleep PROVE Head(list) \in Pointers /\ "asleep" \in SchedPCs
    BY Zenon, <1>1, <2>1, HandsAreTyped, AlarmJobIsTyped DEF AnyInv, LoopSleep, SchedPCs
  <2>2. QED
    BY Zenon, <1>1, <2>1, SchedJobEffect DEF LoopSleep, SchedTakes
<1>5. QED
  BY Zenon, <1>2, <1>3, <1>4 DEF TakeList, End, EndTimesOut

LEMMA SchedTyped ==
  ASSUME AnyInv, [Step]_vars
  PROVE  sched' \in SchedType
<1>1. StopDelete => sched' \in SchedType
  BY Zenon, IdleType DEF StopDelete, AnyInv, TypeOK
<1>2. StartCreate => sched' \in SchedType
  BY Zenon, StartEffect
<1>3. SchedulerTask => sched' \in SchedType
  BY Zenon, SchedEffect, SortCountEffect, SortRemoveEffect, SortInsertEffect, IdleType
     DEF SchedulerTask, SchedMoves, SchedTakes, AnyInv, TypeOK
<1>4. QED
  BY Zenon, <1>1, <1>2, <1>3, SchedWriters DEF AnyInv, TypeOK

(* cron_job_schedule is called for a job of an alarm *)
LEMMA ReschedulesOne ==
  ASSUME AnyInv, SortSchedule \/ FireSchedule
  PROVE  \E j \in AlarmJobs :
           /\ Rescheduled(j)
           /\ SortSchedule => j = Head(sched.array) /\ sched.array # <<>>
           /\ FireSchedule => j = sched.job
<1>1. CASE SortSchedule
  <2>1. sched.pc = "sortSchedule" /\ sched.array # <<>>
    BY Zenon, <1>1 DEF SortSchedule, AnyInv, HandInv
  <2>2. Head(sched.array) \in AlarmJobs /\ ~FireSchedule
    BY Zenon, <2>1, HandsAreTyped DEF FireSchedule
  <2>3. QED
    BY Zenon, <1>1, <2>1, <2>2, RescheduleEffect DEF SortSchedule
<1>2. CASE FireSchedule
  <2>1. sched.job \in AlarmJobs /\ ~SortSchedule
    BY Zenon, <1>2, HandsAreTyped DEF FireSchedule, SortSchedule
  <2>2. QED
    BY Zenon, <1>2, <2>1, RescheduleEffect DEF FireSchedule
<1>3. QED
  BY Zenon, <1>1, <1>2

--------------------------------------------------------------------------------
(* The invariant is kept, conjunct by conjunct *)

LEMMA TypeKept ==
  ASSUME AnyInv, [Step]_vars
  PROVE  TypeOK'
<1>1. TypeOK
  BY Zenon DEF AnyInv
<1>2. alarms' \in [1 .. Slots -> AlarmType]
  <2>1. CASE alarms' = alarms
    BY Zenon, <1>1, <2>1 DEF TypeOK
  <2>2. CASE AddAlarm
    <3>1. PICK i \in 1 .. Slots, j \in Pointers \cup {Null} : Added(i, j)
      BY Zenon, <2>2, AddEffect
    <3>2. cmd.crontab \in Crontabs
      BY Zenon, <2>2 DEF AnyInv, ControlInv, AddAlarm
    <3>3. QED
      BY SMT, <1>1, <3>1, <3>2 DEF Added, TypeOK, AlarmType
  <2>3. CASE DeleteAlarm
    <3>1. PICK i \in 1 .. Slots, j \in Pointers : Deleted(i, j)
      BY Zenon, <2>3, DeleteEffect
    <3>2. QED
      BY SMT, <1>1, <3>1 DEF Deleted, TypeOK, AlarmType
  <2>4. QED
    BY Zenon, <2>1, <2>2, <2>3, AlarmsWriters
<1>3. jobs' \in [Pointers -> JobType]
  <2>1. CASE jobs' = jobs
    BY Zenon, <1>1, <2>1 DEF TypeOK
  <2>2. CASE AddAlarm
    BY Zenon, <2>2, AddEffect DEF Added
  <2>3. CASE DeleteAlarm
    BY Zenon, <2>3, DeleteEffect DEF Deleted
  <2>4. CASE DeleteFails
    BY Zenon, <1>1, <2>4, DeleteFailsEffect, FreedEffect DEF TypeOK
  <2>5. CASE SortSchedule \/ FireSchedule
    BY Zenon, <2>5, ReschedulesOne DEF Rescheduled
  <2>6. QED
    BY Zenon, <2>1, <2>2, <2>3, <2>4, <2>5, JobsWriters
<1>4. list' \in Seq(Pointers)
  <2>1. CASE AddAlarm
    BY Zenon, <2>1, AddEffect DEF Added
  <2>2. CASE DeleteAlarm
    BY Zenon, <2>2, DeleteEffect DEF Deleted
  <2>3. CASE list' = list
    BY Zenon, <1>1, <2>3 DEF TypeOK
  <2>4. QED
    BY Zenon, <2>1, <2>2, <2>3, ListWriters, SortRemoveEffect, SortInsertEffect,
       FireRemoveEffect, FireInsertEffect
<1>5. /\ running' \in BOOLEAN /\ handle' \in BOOLEAN /\ sem' \in Holders /\ listsem' \in Holders
      /\ launchers' \subseteq fired' /\ now' \in 0 .. MaxTime
  <2>1. CASE Tick
    <3>1. now' \in 0 .. MaxTime
      BY SMT, <1>1, <2>1, CronAlarmAssumption DEF Tick, TypeOK, CronAlarmAssumption
    <3>2. QED
      BY Zenon, <1>1, <2>1, <3>1 DEF Tick, TypeOK, heap, module, history
  <2>2. CASE UNCHANGED vars
    BY Zenon, <1>1, <2>2 DEF TypeOK, vars, heap, module, history
  <2>3. CASE AddCommand \/ DeleteCommand \/ CommandSteps \/ SchedulerTask \/ Launcher
    BY Zenon, <1>1, <2>3 DEF CommandSteps, SchedulerTask, heap, module, history, AddCommand,
       DeleteCommand, Command, StopIsStopped, StopDelay, StopTakeHandle, StopTimesOut, StopClear,
       StopDelete, AddAlarm, AddNoSlot, DeleteAlarm, DeleteFails, DeleteNotFound, StartCreate,
       StartSetRunning, TakeList, SortRefused, SortCount, SortRemove, SortSchedule, SortInsert,
       LoopNoJobs, LoopFire, LoopSleep, Wake, FireLock, FireLockTimesOut, FireRemove,
       FireSchedule, FireInsert, End, EndTimesOut, Launcher, ListReturns, AfterDeletion, TypeOK,
       Holders
  <2>4. QED
    BY Zenon, <2>1, <2>2, <2>3 DEF Step
<1>6. fired' \subseteq [job : Pointers, at : Times]
  <2>1. CASE fired' = fired
    BY Zenon, <1>1, <2>1 DEF TypeOK
  <2>2. CASE LoopFire
    <3>1. Head(list) \in Pointers /\ jobs[Head(list)] \in JobType
      BY Zenon, <1>1, <2>2, HandsAreTyped, AlarmJobIsTyped DEF AnyInv, LoopFire
    <3>2. jobs[Head(list)].next \in Times
      BY Zenon, <3>1 DEF JobType
    <3>3. fired' = fired \cup {[job |-> Head(list), at |-> jobs[Head(list)].next]}
      BY Zenon, <2>2 DEF LoopFire
    <3>4. [job |-> Head(list), at |-> jobs[Head(list)].next] \in [job : Pointers, at : Times]
      BY SMT, <3>1, <3>2
    <3>5. fired \subseteq [job : Pointers, at : Times]
      BY Zenon, <1>1 DEF TypeOK
    <3>6. QED
      BY Zenon, <3>3, <3>4, <3>5
  <2>3. QED
    BY Zenon, <2>1, <2>2, FiredWriters
<1>7. cmd' \in CmdType
  BY Zenon, CmdTyped
<1>8. sched' \in SchedType
  BY Zenon, SchedTyped
<1>9. QED
  BY Zenon, <1>2, <1>3, <1>4, <1>5, <1>6, <1>7, <1>8 DEF TypeOK

LEMMA ControlKept ==
  ASSUME AnyInv, [Step]_vars
  PROVE  ControlInv'
<1>1. TypeOK /\ ControlInv /\ MutexInv
  BY Zenon DEF AnyInv
<1>2. CASE AddCommand \/ DeleteCommand
  <2>1. ASSUME NEW tab \in Crontabs, NEW op \in {"add", "delete"}, Command(op, tab)
        PROVE  ControlInv'
    BY Zenon, <1>1, <2>1 DEF Command, ControlInv, AtEdit, Alive, module
  <2>2. QED
    BY Zenon, <1>2, <2>1 DEF AddCommand, DeleteCommand
<1>3. CASE StopIsStopped
  BY Zenon, <1>1, <1>3, CmdEffect DEF CommandSteps, StopIsStopped, CmdMoves, ControlInv, AtEdit,
     Alive, module
<1>4. CASE StopDelay
  BY Zenon, <1>1, <1>4, CmdEffect DEF CommandSteps, StopDelay, CmdMoves, ControlInv, AtEdit,
     Alive, module
<1>5. CASE StopTakeHandle
  BY Zenon, <1>1, <1>5, CmdEffect DEF CommandSteps, StopTakeHandle, CmdMoves, ControlInv, AtEdit,
     Alive
<1>6. CASE StopTimesOut
  BY Zenon, <1>1, <1>6 DEF StopTimesOut, Idle, ControlInv, AtEdit, Alive, module
<1>7. CASE StopClear
  BY Zenon, <1>1, <1>7, CmdEffect DEF CommandSteps, StopClear, CmdMoves, ControlInv, AtEdit, Alive
<1>8. CASE StopDelete
  <2>1. cmd'.pc = "edit" /\ cmd'.crontab = cmd.crontab /\ cmd'.op = cmd.op
    BY Zenon, <1>1, <1>8, CmdEffect DEF CommandSteps, CmdMoves
  <2>2. /\ cmd.pc = "delete" /\ running' = running /\ handle' = handle
        /\ sched' = IF cmd.handle THEN NoScheduler ELSE sched
    BY Zenon, <1>8 DEF StopDelete, module
  <2>3. ~Alive'
    BY Zenon, <1>1, <2>2 DEF ControlInv, Alive, NoScheduler
  <2>4. QED
    BY Zenon, <1>1, <2>1, <2>2, <2>3 DEF ControlInv, AtEdit
<1>9. CASE AddAlarm \/ AddNoSlot \/ DeleteAlarm \/ DeleteNotFound
  <2>1. cmd'.pc = "start" /\ cmd'.crontab = cmd.crontab /\ cmd'.op = cmd.op
    BY Zenon, <1>1, <1>9, CmdEffect DEF CommandSteps, CmdMoves
  <2>2. cmd.pc = "edit" /\ running' = running /\ handle' = handle /\ sched' = sched
    BY Zenon, <1>9 DEF AddAlarm, AddNoSlot, DeleteAlarm, DeleteNotFound, module
  <2>3. QED
    BY Zenon, <1>1, <2>1, <2>2 DEF ControlInv, AtEdit, Alive
<1>10. CASE DeleteFails
  BY Zenon, <1>1, <1>10 DEF DeleteFails, Idle, ControlInv, AtEdit, Alive, module
<1>11. CASE StartCreate
  BY Zenon, <1>1, <1>11, CmdEffect, StartEffect DEF CommandSteps, StartCreate, CmdMoves,
     ControlInv, AtEdit, Alive
<1>12. CASE StartSetRunning
  BY Zenon, <1>1, <1>12 DEF StartSetRunning, Idle, ControlInv, AtEdit, Alive
<1>13. CASE SchedulerTask
  <2>1. cmd' = cmd /\ Alive
    BY Zenon, <1>13 DEF SchedulerTask, Alive, TakeList, SortRefused, SortCount,
       SortRemove, SortSchedule, SortInsert, LoopNoJobs, LoopFire, LoopSleep, Wake, FireLock,
       FireLockTimesOut, FireRemove, FireSchedule, FireInsert, End, EndTimesOut
  <2>2. CASE End
    BY Zenon, <1>1, <2>1, <2>2 DEF End, NoScheduler, ControlInv, AtEdit, Alive
  <2>3. CASE EndTimesOut
    BY Zenon, <1>1, <2>1, <2>3 DEF EndTimesOut, NoScheduler, ControlInv, AtEdit, Alive, module
  <2>4. CASE ~End /\ ~EndTimesOut
    <3>1. running' = running /\ handle' = handle
      BY Zenon, <1>13, <2>4 DEF SchedulerTask, module, TakeList, SortRefused, SortCount,
         SortRemove, SortSchedule, SortInsert, LoopNoJobs, LoopFire, LoopSleep, Wake, FireLock,
         FireLockTimesOut, FireRemove, FireSchedule, FireInsert
    <3>2. Alive'
      BY Zenon, <1>13, <2>1, <2>4, SchedEffect, SortCountEffect, SortRemoveEffect,
         SortInsertEffect DEF SchedulerTask, Alive, SchedMoves, SchedTakes
    <3>3. QED
      BY Zenon, <1>1, <2>1, <3>1, <3>2 DEF ControlInv, AtEdit, Alive
  <2>5. QED
    BY Zenon, <2>2, <2>3, <2>4
<1>14. CASE Launcher \/ Tick \/ UNCHANGED vars
  <2>1. cmd' = cmd /\ running' = running /\ handle' = handle /\ sched' = sched
    BY Zenon, <1>14 DEF Launcher, Tick, vars, module
  <2>2. QED
    BY Zenon, <1>1, <2>1 DEF ControlInv, AtEdit, Alive
<1>15. QED
  BY Zenon, <1>2, <1>3, <1>4, <1>5, <1>6, <1>7, <1>8, <1>9, <1>10, <1>11, <1>12, <1>13, <1>14
     DEF Step, CommandSteps

LEMMA MutexKept ==
  ASSUME AnyInv, [Step]_vars
  PROVE  MutexInv'
<1>1. TypeOK /\ ControlInv /\ MutexInv
  BY Zenon DEF AnyInv
<1>2. CASE sched' = sched /\ sem' = sem /\ listsem' = listsem
  BY Zenon, <1>1, <1>2 DEF MutexInv
<1>3. CASE StopDelete
  <2>1. CASE cmd.handle
    <3>1. sched' = NoScheduler /\ sem' = AfterDeletion(sem) /\ listsem' = AfterDeletion(listsem)
      BY Zenon, <1>3, <2>1 DEF StopDelete
    <3>2. sched'.pc = "none" /\ sem' # Scheduler /\ listsem' # Scheduler
      BY Zenon, <3>1 DEF NoScheduler, AfterDeletion, Scheduler, Dead
    <3>3. QED
      BY Zenon, <3>2 DEF MutexInv
  <2>2. CASE ~cmd.handle
    BY Zenon, <1>1, <1>3, <2>2 DEF StopDelete, MutexInv
  <2>3. QED
    BY Zenon, <2>1, <2>2
<1>4. CASE StartCreate
  BY Zenon, <1>1, <1>4, StartEffect DEF StartCreate, MutexInv, ControlInv, AtEdit, Alive
<1>5. CASE TakeList
  BY Zenon, <1>1, <1>5 DEF TakeList, MutexInv
<1>6. CASE SortRemove
  <2>1. /\ sched'.pc \in {"sortSchedule", "sortRemove"}
        /\ listsem' # Scheduler
    BY Zenon, <1>6, SortRemoveEffect DEF Scheduler, Free, Dead
  <2>2. sched.pc = "sortRemove" /\ sem' = sem
    BY Zenon, <1>6 DEF SortRemove
  <2>3. QED
    BY Zenon, <1>1, <2>1, <2>2 DEF MutexInv
<1>7. CASE SortInsert
  <2>1. /\ sched'.pc \in {"loop", "sortSchedule"}
        /\ listsem' # Scheduler
    BY Zenon, <1>7, SortInsertEffect DEF Scheduler, Free, Dead
  <2>2. sched.pc = "sortInsert" /\ sem' = sem
    BY Zenon, <1>7 DEF SortInsert
  <2>3. QED
    BY Zenon, <1>1, <2>1, <2>2 DEF MutexInv
<1>8. CASE FireRemove
  BY Zenon, <1>1, <1>8, FireRemoveEffect, SchedEffect DEF FireRemove, SchedMoves, MutexInv,
     Scheduler, Free, Dead
<1>9. CASE FireInsert
  BY Zenon, <1>1, <1>9, FireInsertEffect, SchedEffect DEF FireInsert, SchedMoves, MutexInv,
     Scheduler, Free, Dead
<1>10. CASE SortRefused \/ SortCount \/ SortSchedule \/ LoopNoJobs \/ LoopFire \/ LoopSleep \/ Wake
  BY Zenon, <1>1, <1>10, SchedEffect, SortCountEffect DEF SchedMoves, SchedTakes, MutexInv,
     SortRefused, SortCount, SortSchedule, LoopNoJobs, LoopFire, LoopSleep, Wake
<1>11. CASE FireLock \/ FireLockTimesOut \/ FireSchedule
  BY Zenon, <1>1, <1>11, SchedEffect DEF SchedMoves, MutexInv, FireLock, FireLockTimesOut,
     FireSchedule, Scheduler, Dead
<1>12. CASE End \/ EndTimesOut
  <2>1. sched' = NoScheduler /\ sched.pc = "end" /\ sem' = sem /\ listsem' = listsem
    BY Zenon, <1>12 DEF End, EndTimesOut
  <2>2. NoScheduler.pc = "none"
    BY Zenon DEF NoScheduler
  <2>3. QED
    BY Zenon, <1>1, <2>1, <2>2 DEF MutexInv
<1>13. ASSUME ~StopDelete, ~StartCreate, ~SchedulerTask
       PROVE  sched' = sched /\ sem' = sem /\ listsem' = listsem
  BY Zenon, <1>13 DEF Step, CommandSteps, vars, AddCommand, DeleteCommand, Command, StopIsStopped,
     StopDelay, StopTakeHandle, StopTimesOut, StopClear, AddAlarm, AddNoSlot, DeleteAlarm,
     DeleteFails, DeleteNotFound, StartSetRunning, Launcher, Tick
<1>14. QED
  BY Zenon, <1>2, <1>3, <1>4, <1>5, <1>6, <1>7, <1>8, <1>9, <1>10, <1>11, <1>12, <1>13
     DEF SchedulerTask

LEMMA SlotKept ==
  ASSUME AnyInv, [Step]_vars
  PROVE  SlotInv'
<1>1. TypeOK /\ SlotInv /\ DOMAIN alarms = 1 .. Slots
  BY Zenon DEF AnyInv, TypeOK
<1>2. DOMAIN alarms' = 1 .. Slots
  BY Zenon, TypeKept DEF TypeOK
<1>3. Null \notin Pointers
  BY SMT DEF Null, Pointers
<1>4. \A i \in 1 .. Slots : alarms[i].job \in Pointers \cup {Null}
  BY SMT, <1>1 DEF TypeOK, AlarmType
<1>5. CASE alarms' = alarms /\ jobs' = jobs
  BY Zenon, <1>1, <1>5 DEF SlotInv
<1>6. CASE AddAlarm
  <2>1. PICK i \in 1 .. Slots, j \in Pointers \cup {Null} : Added(i, j)
    BY Zenon, <1>6, AddEffect
  <2>2. cmd.crontab \in Crontabs /\ NoAlarm \notin Crontabs
    <3>1. NoAlarm \notin Crontabs
      BY SMT, CronAlarmAssumption DEF CronAlarmAssumption, NoAlarm
    <3>2. QED
      BY Zenon, <1>6, <3>1 DEF AnyInv, ControlInv, AddAlarm
  <2>3. alarms'[i].crontab = cmd.crontab /\ alarms'[i].job = j
        /\ \A k \in 1 .. Slots \ {i} : alarms'[k] = alarms[k]
    BY SMT, <1>1, <2>1 DEF Added
  <2>4. \A k \in 1 .. Slots : alarms[k].job = Null \/ alarms[k].job # j
    BY Zenon, <1>1, <1>3, <2>1 DEF Added, SlotInv, Fresh
  <2>5. \A k \in Pointers : k = j \/ jobs'[k] = jobs[k]
    BY Zenon, <2>1 DEF Added
  <2>6. j # Null => jobs'[j].state = "live" /\ jobs'[j].crontab = cmd.crontab
    BY Zenon, <2>1 DEF Added
  <2>7. \A k \in 1 .. Slots : alarms'[k].crontab = NoAlarm => alarms'[k].job = Null
    BY Zenon, <1>1, <2>2, <2>3 DEF SlotInv
  <2>8. \A k \in 1 .. Slots : alarms'[k].job # Null => jobs'[alarms'[k].job].state # "unused"
    <3>1. TAKE k \in 1 .. Slots
    <3>2. HAVE alarms'[k].job # Null
    <3>3. CASE k = i
      BY Zenon, <2>3, <2>6, <3>2, <3>3
    <3>4. CASE k # i
      <4>1. alarms'[k] = alarms[k]
        BY Zenon, <2>3, <3>4
      <4>2. alarms[k].job # j /\ alarms[k].job \in Pointers
        BY Zenon, <1>4, <2>4, <3>2, <4>1
      <4>3. jobs'[alarms[k].job] = jobs[alarms[k].job] /\ jobs[alarms[k].job].state # "unused"
        BY Zenon, <1>1, <2>5, <3>2, <4>1, <4>2 DEF SlotInv
      <4>4. QED
        BY Zenon, <4>1, <4>3
    <3>5. QED
      BY Zenon, <3>3, <3>4
  <2>9. \A k, n \in 1 .. Slots : alarms'[k].job = alarms'[n].job /\ alarms'[k].job # Null => k = n
    <3>1. \A k \in 1 .. Slots : k # i => alarms'[k] = alarms[k] /\ (alarms'[k].job = Null \/ alarms'[k].job # j)
      BY Zenon, <2>3, <2>4
    <3>2. SUFFICES ASSUME NEW k \in 1 .. Slots, NEW n \in 1 .. Slots,
                          alarms'[k].job = alarms'[n].job, alarms'[k].job # Null
                   PROVE  k = n
      OBVIOUS
    <3>3. CASE k # i /\ n # i
      BY Zenon, <1>1, <3>1, <3>2, <3>3 DEF SlotInv
    <3>4. CASE k = i \/ n = i
      BY Zenon, <2>3, <3>1, <3>2, <3>4
    <3>5. QED
      BY Zenon, <3>3, <3>4
  <2>10. \A k \in Pointers : jobs'[k].state # "unused" => jobs'[k].crontab \in Crontabs
    BY Zenon, <1>1, <1>3, <2>2, <2>5, <2>6 DEF SlotInv
  <2>11. QED
    BY Zenon, <1>2, <2>7, <2>8, <2>9, <2>10 DEF SlotInv
<1>7. CASE DeleteAlarm
  <2>1. PICK i \in 1 .. Slots, j \in Pointers : Deleted(i, j)
    BY Zenon, <1>7, DeleteEffect
  <2>2. alarms'[i].crontab = NoAlarm /\ alarms'[i].job = Null
        /\ \A k \in 1 .. Slots \ {i} : alarms'[k] = alarms[k]
    BY SMT, <1>1, <2>1 DEF Deleted
  <2>3. \A k \in Pointers : /\ jobs'[k].state = "unused" => jobs[k].state = "unused"
                            /\ jobs'[k].crontab = jobs[k].crontab
    BY Zenon, <2>1 DEF Deleted
  <2>4. \A k \in Pointers : jobs[k].state = "unused" => jobs'[k].state = "unused"
    BY Zenon, <2>1 DEF Deleted
  <2>5. \A k \in 1 .. Slots : alarms'[k].crontab = NoAlarm => alarms'[k].job = Null
    BY Zenon, <1>1, <2>2 DEF SlotInv
  <2>6. \A k \in 1 .. Slots : alarms'[k].job # Null => alarms'[k] = alarms[k]
    BY Zenon, <2>2
  <2>7. \A k \in 1 .. Slots : alarms'[k].job # Null => jobs'[alarms'[k].job].state # "unused"
    <3>1. TAKE k \in 1 .. Slots
    <3>2. HAVE alarms'[k].job # Null
    <3>3. alarms'[k] = alarms[k] /\ alarms[k].job # Null /\ alarms[k].job \in Pointers
      BY Zenon, <1>4, <2>6, <3>2
    <3>4. jobs[alarms[k].job].state # "unused"
      BY Zenon, <1>1, <3>3 DEF SlotInv
    <3>5. QED
      BY Zenon, <2>3, <3>3, <3>4
  <2>8. \A k, n \in 1 .. Slots : alarms'[k].job = alarms'[n].job /\ alarms'[k].job # Null => k = n
    BY Zenon, <1>1, <2>6 DEF SlotInv
  <2>9. \A k \in Pointers : jobs'[k].state # "unused" => jobs'[k].crontab \in Crontabs
    BY Zenon, <1>1, <2>3, <2>4 DEF SlotInv
  <2>10. QED
    BY Zenon, <1>2, <2>5, <2>7, <2>8, <2>9 DEF SlotInv
<1>8. ASSUME alarms' = alarms,
             \A k \in Pointers : /\ jobs'[k].state = "unused" <=> jobs[k].state = "unused"
                                 /\ jobs'[k].crontab = jobs[k].crontab
      PROVE  SlotInv'
  BY Zenon, <1>1, <1>4, <1>8 DEF SlotInv
<1>9. CASE DeleteFails
  <2>1. alarms' = alarms
    BY Zenon, <1>9 DEF DeleteFails
  <2>2. \A k \in Pointers : /\ jobs'[k].state = "unused" <=> jobs[k].state = "unused"
                            /\ jobs'[k].crontab = jobs[k].crontab
    <3>1. CASE jobs' = jobs
      BY Zenon, <3>1
    <3>2. ASSUME NEW j \in Pointers, jobs' = Freed(j), jobs[j].state # "unused"
          PROVE  \A k \in Pointers : /\ jobs'[k].state = "unused" <=> jobs[k].state = "unused"
                                     /\ jobs'[k].crontab = jobs[k].crontab
      <4>1. jobs'[j].state = "freed" /\ jobs'[j].crontab = jobs[j].crontab
            /\ \A k \in Pointers \ {j} : jobs'[k] = jobs[k]
        BY Zenon, <1>1, <3>2, FreedEffect
      <4>2. QED
        BY Zenon, <3>2, <4>1
    <3>3. QED
      BY Zenon, <1>9, <3>1, <3>2, DeleteFailsEffect
  <2>3. QED
    BY Zenon, <1>8, <2>1, <2>2
<1>10. CASE SortSchedule \/ FireSchedule
  <2>1. alarms' = alarms
    BY Zenon, <1>10 DEF SortSchedule, FireSchedule
  <2>2. \A k \in Pointers : /\ jobs'[k].state = "unused" <=> jobs[k].state = "unused"
                            /\ jobs'[k].crontab = jobs[k].crontab
    BY Zenon, <1>10, ReschedulesOne DEF Rescheduled
  <2>3. QED
    BY Zenon, <1>8, <2>1, <2>2
<1>11. QED
  BY Zenon, <1>5, <1>6, <1>7, <1>9, <1>10, AlarmsWriters, JobsWriters

LEMMA RoomKept ==
  ASSUME AnyInv, [Step]_vars
  PROVE  RoomInv'
<1>1. TypeOK /\ RoomInv
  BY Zenon DEF AnyInv
<1> DEFINE Before == cmd.pc \in {"stop", "lock", "clear", "delete", "edit"}
           Room(tab) == Fresh # {} \/ tab \in BadCrontabs \/ SlotsOf(NoAlarm) = {}
<1>2. ASSUME alarms' = alarms, jobs' = jobs
      PROVE  Fresh' = Fresh /\ SlotsOf(NoAlarm)' = SlotsOf(NoAlarm)
  BY Zenon, <1>2 DEF Fresh, SlotsOf
<1>3. ASSUME alarms' = alarms, jobs' = jobs, cmd'.op = cmd.op, cmd'.crontab = cmd.crontab,
             Before' => Before
      PROVE  RoomInv'
  BY Zenon, <1>1, <1>2, <1>3 DEF RoomInv
<1>4. CASE AddCommand
  <2>1. PICK tab \in Crontabs : Room(tab) /\ Command("add", tab)
    BY Zenon, <1>4 DEF AddCommand
  <2>2. alarms' = alarms /\ jobs' = jobs /\ cmd'.crontab = tab
    BY Zenon, <2>1 DEF Command, heap
  <2>3. QED
    BY Zenon, <1>2, <2>1, <2>2 DEF RoomInv
<1>5. CASE DeleteCommand
  <2>1. PICK tab \in Crontabs : Command("delete", tab)
    BY Zenon, <1>5 DEF DeleteCommand
  <2>2. cmd'.op = "delete"
    BY Zenon, <2>1 DEF Command
  <2>3. QED
    BY Zenon, <2>2 DEF RoomInv
<1>6. CASE StopIsStopped \/ StopDelay \/ StopTakeHandle \/ StopClear \/ StopDelete
  <2>1. cmd'.op = cmd.op /\ cmd'.crontab = cmd.crontab
    BY Zenon, <1>1, <1>6, CmdEffect DEF CommandSteps, CmdMoves
  <2>2. alarms' = alarms /\ jobs' = jobs /\ Before
    BY Zenon, <1>6 DEF StopIsStopped, StopDelay, StopTakeHandle, StopClear, StopDelete, heap
  <2>3. QED
    BY Zenon, <1>3, <2>1, <2>2
<1>7. CASE StopTimesOut \/ DeleteFails \/ StartSetRunning
  <2>1. cmd' = Idle
    BY Zenon, <1>1, <1>7, CmdEffect DEF CommandSteps
  <2>2. cmd'.pc = "idle"
    BY Zenon, <2>1 DEF Idle
  <2>3. QED
    BY Zenon, <2>2 DEF RoomInv
<1>8. CASE AddAlarm \/ AddNoSlot \/ DeleteAlarm \/ DeleteNotFound \/ StartCreate
  <2>1. cmd'.pc \in {"start", "started"}
    BY Zenon, <1>1, <1>8, CmdEffect DEF CommandSteps, CmdMoves
  <2>2. QED
    BY Zenon, <2>1 DEF RoomInv
<1>9. CASE SortSchedule \/ FireSchedule
  <2>1. cmd' = cmd /\ alarms' = alarms
    BY Zenon, <1>9 DEF SortSchedule, FireSchedule
  <2>2. \A k \in Pointers : jobs'[k].state = jobs[k].state
    BY Zenon, <1>9, ReschedulesOne DEF Rescheduled
  <2>3. DOMAIN jobs = Pointers /\ DOMAIN jobs' = Pointers
    BY Zenon, <1>1, TypeKept DEF TypeOK
  <2>4. Fresh' = Fresh /\ SlotsOf(NoAlarm)' = SlotsOf(NoAlarm)
    BY Zenon, <2>1, <2>2, <2>3 DEF Fresh, SlotsOf
  <2>5. QED
    BY Zenon, <1>1, <2>1, <2>4 DEF RoomInv
<1>10. CASE cmd' = cmd /\ ~SortSchedule /\ ~FireSchedule
  <2>1. ~AddAlarm /\ ~DeleteAlarm /\ ~DeleteFails
    <3>1. AddAlarm \/ DeleteAlarm \/ DeleteFails => cmd.pc = "edit" /\ cmd'.pc # "edit"
      <4>1. AddAlarm \/ DeleteAlarm => cmd'.pc = "start"
        BY Zenon, <1>1, CmdEffect DEF CommandSteps, CmdMoves
      <4>2. DeleteFails => cmd' = Idle
        BY Zenon DEF DeleteFails
      <4>3. Idle.pc = "idle"
        BY Zenon DEF Idle
      <4>4. QED
        BY Zenon, <4>1, <4>2, <4>3 DEF AddAlarm, DeleteAlarm, DeleteFails
    <3>2. QED
      BY Zenon, <1>10, <3>1
  <2>2. alarms' = alarms /\ jobs' = jobs
    BY Zenon, <1>10, <2>1, AlarmsWriters, JobsWriters
  <2>3. QED
    BY Zenon, <1>3, <1>10, <2>2
<1>11. QED
  BY Zenon, <1>4, <1>5, <1>6, <1>7, <1>8, <1>9, <1>10, CmdWriters DEF CommandSteps

(* What becomes of the jobs of alarms *)
LEMMA AlarmJobsEffect ==
  ASSUME AnyInv, [Step]_vars
  PROVE  /\ alarms' = alarms => AlarmJobs' = AlarmJobs
         /\ \A i \in 1 .. Slots, j \in Pointers \cup {Null} :
              Added(i, j) => AlarmJobs' = AlarmJobs \cup ({j} \ {Null})
         /\ \A i \in 1 .. Slots, j \in Pointers : Deleted(i, j) => AlarmJobs' = AlarmJobs \ {j}
<1>1. TypeOK /\ TypeOK' /\ SlotInv /\ DOMAIN alarms = 1 .. Slots /\ DOMAIN alarms' = 1 .. Slots
  BY Zenon, TypeKept DEF AnyInv, TypeOK
<1>2. alarms' = alarms => AlarmJobs' = AlarmJobs
  BY Zenon DEF AlarmJobs
<1>3. Null \notin Pointers
  BY SMT DEF Null, Pointers
<1>4. ASSUME NEW i \in 1 .. Slots, NEW j \in Pointers \cup {Null}, Added(i, j)
      PROVE  AlarmJobs' = AlarmJobs \cup ({j} \ {Null})
  <2>1. alarms'[i].job = j /\ \A k \in 1 .. Slots \ {i} : alarms'[k] = alarms[k]
    BY SMT, <1>1, <1>4 DEF Added
  <2>2. alarms[i].job = Null
    BY Zenon, <1>1, <1>4 DEF Added, SlotInv
  <2>3. QED
    BY Zenon, <1>1, <2>1, <2>2 DEF AlarmJobs
<1>5. ASSUME NEW i \in 1 .. Slots, NEW j \in Pointers, Deleted(i, j)
      PROVE  AlarmJobs' = AlarmJobs \ {j}
  <2>1. alarms'[i].job = Null /\ \A k \in 1 .. Slots \ {i} : alarms'[k] = alarms[k]
    BY SMT, <1>1, <1>5 DEF Deleted
  <2>2. alarms[i].job = j /\ \A k \in 1 .. Slots \ {i} : alarms[k].job # j
    BY Zenon, <1>1, <1>3, <1>5 DEF Deleted, SlotInv
  <2>3. \A k \in 1 .. Slots : alarms'[k].job # Null =>
          alarms'[k].job = alarms[k].job /\ alarms[k].job # j
    BY Zenon, <2>1, <2>2
  <2>4. \A k \in 1 .. Slots : alarms[k].job = j \/ alarms'[k] = alarms[k]
    BY Zenon, <2>1, <2>2
  <2>5. AlarmJobs' \subseteq AlarmJobs \ {j}
    BY Zenon, <1>1, <2>3 DEF AlarmJobs
  <2>6. AlarmJobs \ {j} \subseteq AlarmJobs'
    BY Zenon, <1>1, <2>4 DEF AlarmJobs
  <2>7. QED
    BY Zenon, <2>5, <2>6
<1>6. QED
  BY Zenon, <1>2, <1>4, <1>5

LEMMA NoLeakKept ==
  ASSUME AnyInv, [Step]_vars
  PROVE  NoLeak'
<1>1. TypeOK /\ NoLeak /\ DOMAIN jobs = Pointers /\ DOMAIN jobs' = Pointers
  BY Zenon, TypeKept DEF AnyInv, TypeOK
<1>2. ASSUME alarms' = alarms, ToSet(list') \subseteq AlarmJobs,
             \A j \in Pointers : jobs'[j].state = "live" => jobs[j].state = "live"
      PROVE  NoLeak'
  <2>1. AlarmJobs' = AlarmJobs
    BY Zenon, <1>2, AlarmJobsEffect
  <2>2. QED
    BY Zenon, <1>1, <1>2, <2>1 DEF NoLeak
<1>3. CASE AddAlarm
  <2>1. PICK i \in 1 .. Slots, j \in Pointers \cup {Null} : Added(i, j)
    BY Zenon, <1>3, AddEffect
  <2>2. AlarmJobs' = AlarmJobs \cup ({j} \ {Null})
    BY Zenon, <2>1, AlarmJobsEffect
  <2>3. ToSet(list') \subseteq ToSet(list) \cup ({j} \ {Null})
    BY Zenon, <2>1 DEF Added
  <2>4. \A k \in Pointers \ {j} : jobs'[k] = jobs[k]
    BY Zenon, <2>1 DEF Added
  <2>5. \A k \in Pointers : k # Null
    BY SMT DEF Pointers, Null
  <2>6. QED
    BY Zenon, <1>1, <2>2, <2>3, <2>4, <2>5 DEF NoLeak
<1>4. CASE DeleteAlarm
  <2>1. PICK i \in 1 .. Slots, j \in Pointers : Deleted(i, j)
    BY Zenon, <1>4, DeleteEffect
  <2>2. AlarmJobs' = AlarmJobs \ {j}
    BY Zenon, <2>1, AlarmJobsEffect
  <2>3. /\ ToSet(list') = ToSet(list) \ {j} /\ jobs'[j].state # "live"
        /\ \A k \in Pointers \ {j} : jobs'[k] = jobs[k]
    BY Zenon, <2>1 DEF Deleted
  <2>4. QED
    BY Zenon, <1>1, <2>2, <2>3 DEF NoLeak
<1>5. ASSUME ~AddAlarm, ~DeleteAlarm
      PROVE  NoLeak'
  <2>1. alarms' = alarms
    BY Zenon, <1>5, AlarmsWriters
  <2>2. ToSet(list') \subseteq AlarmJobs
    <3>1. ToSet(list) \subseteq AlarmJobs
      BY Zenon, <1>1 DEF NoLeak
    <3>2. SortInsert => Head(sched.array) \in AlarmJobs
      BY Zenon, SortInsertEffect, HandsAreTyped
    <3>3. FireInsert => sched.job \in AlarmJobs
      BY Zenon, HandsAreTyped DEF FireInsert
    <3>4. QED
      BY Zenon, <1>5, <3>1, <3>2, <3>3, ListWriters, SortRemoveEffect, SortInsertEffect,
         FireRemoveEffect, FireInsertEffect
  <2>3. \A j \in Pointers : jobs'[j].state = "live" => jobs[j].state = "live"
    <3>1. CASE DeleteFails
      <4>1. ASSUME NEW k \in Pointers, jobs' = Freed(k)
            PROVE  \A j \in Pointers : jobs'[j].state = "live" => jobs[j].state = "live"
        BY Zenon, <1>1, <4>1, FreedEffect
      <4>2. QED
        BY Zenon, <3>1, <4>1, DeleteFailsEffect
    <3>2. CASE SortSchedule \/ FireSchedule
      BY Zenon, <3>2, ReschedulesOne DEF Rescheduled
    <3>3. QED
      BY Zenon, <1>5, <3>1, <3>2, JobsWriters
  <2>4. QED
    BY Zenon, <1>2, <2>1, <2>2, <2>3
<1>6. QED
  BY Zenon, <1>3, <1>4, <1>5

(* The tasks edit the list in turns: no command does while the scheduler is there *)
LEMMA EditsAlone ==
  ASSUME AnyInv, AddAlarm \/ DeleteAlarm \/ DeleteFails
  PROVE  /\ sched' = sched /\ listsem' = listsem /\ sched.pc = "none" /\ sched.array = <<>>
         /\ Held = {} /\ InHand = {} /\ Held' = {} /\ InHand' = {}
<1>1. sched' = sched /\ listsem' = listsem /\ cmd.pc = "edit"
  BY Zenon DEF AddAlarm, DeleteAlarm, DeleteFails
<1>2. sched.pc = "none"
  BY Zenon, <1>1 DEF AnyInv, ControlInv, AtEdit, Alive
<1>3. sched.array = <<>>
  BY Zenon, <1>2 DEF AnyInv, HandInv
<1>4. Held = {} /\ InHand = {}
  BY Zenon, <1>2, <1>3, EmptyArray DEF Held, InHand
<1>5. Held' = Held /\ InHand' = InHand
  BY Zenon, <1>1 DEF Held, InHand
<1>6. QED
  BY Zenon, <1>1, <1>2, <1>3, <1>4, <1>5

(* A task that was deleted or created has nothing in hand *)
LEMMA NothingInHand ==
  ASSUME AnyInv, (StopDelete /\ sched' # sched) \/ StartCreate \/ End \/ EndTimesOut
  PROVE  /\ sched'.array = <<>> /\ Held' = {} /\ InHand' = {} /\ sched'.pc \in {"none", "sort"}
<1>1. NoScheduler.array = <<>> /\ NoScheduler.pc = "none"
  BY Zenon DEF NoScheduler
<1>2. sched'.array = <<>> /\ sched'.pc \in {"none", "sort"}
  <2>1. CASE StartCreate
    BY Zenon, <2>1, StartEffect
  <2>2. CASE StopDelete /\ sched' # sched
    BY Zenon, <1>1, <2>2 DEF StopDelete
  <2>3. CASE End \/ EndTimesOut
    BY Zenon, <1>1, <2>3, SchedEffect
  <2>4. QED
    BY Zenon, <2>1, <2>2, <2>3
<1>3. Held' = {} /\ InHand' = {}
  BY Zenon, <1>2, EmptyArray DEF Held, InHand
<1>4. QED
  BY Zenon, <1>2, <1>3

(* A step of the scheduler that does not sort: what it has in hand *)
LEMMA MovesInHand ==
  ASSUME AnyInv,
         SortRefused \/ SortCount \/ SortSchedule \/ LoopNoJobs \/ LoopFire \/ LoopSleep \/ Wake
           \/ FireLock \/ FireLockTimesOut \/ FireRemove \/ FireSchedule \/ FireInsert
  PROVE  /\ sched'.array = sched.array
         /\ Held' \subseteq Held \cup ToSet(list)
         /\ ~FireRemove => InHand' \subseteq InHand
<1>1. TypeOK
  BY Zenon DEF AnyInv
<1>2. sched'.array = sched.array
  BY Zenon, SchedEffect, SortCountEffect DEF SchedMoves, SchedTakes
<1>3. Held' \subseteq Held \cup ToSet(list)
  <2>1. CASE LoopFire \/ LoopSleep
    <3>1. sched'.job = Head(list) /\ Head(list) \in ToSet(list)
      BY Zenon, <2>1, SchedEffect, HandsAreTyped DEF SchedTakes, LoopFire, LoopSleep
    <3>2. QED
      BY Zenon, <1>2, <3>1 DEF Held
  <2>2. CASE SortRefused \/ SortCount \/ SortSchedule \/ LoopNoJobs \/ Wake \/ FireLockTimesOut
               \/ FireInsert
    <3>1. sched'.pc \in {"loop", "sortRemove", "sortInsert", "end"}
      BY Zenon, <2>2, SchedEffect, SortCountEffect DEF SchedMoves
    <3>2. QED
      BY Zenon, <1>2, <3>1 DEF Held
  <2>3. CASE FireLock \/ FireRemove \/ FireSchedule
    <3>1. sched'.job = sched.job
      BY Zenon, <2>3, SchedEffect DEF SchedMoves
    <3>2. sched.pc \in {"lock", "remove", "schedule"}
      BY Zenon, <2>3 DEF FireLock, FireRemove, FireSchedule
    <3>3. QED
      BY Zenon, <1>2, <3>1, <3>2 DEF Held
  <2>4. QED
    BY Zenon, <2>1, <2>2, <2>3
<1>4. ASSUME ~FireRemove PROVE InHand' \subseteq InHand
  <2>1. CASE FireSchedule
    <3>1. sched'.job = sched.job /\ sched.pc = "schedule"
      BY Zenon, <2>1, SchedEffect DEF SchedMoves, FireSchedule
    <3>2. QED
      BY Zenon, <1>2, <3>1 DEF InHand
  <2>2. CASE ~FireSchedule
    <3>1. sched'.pc \notin {"schedule", "insert"}
      BY Zenon, <1>4, <2>2, SchedEffect, SortCountEffect DEF SchedMoves, SchedTakes
    <3>2. QED
      BY Zenon, <1>2, <3>1 DEF InHand
  <2>3. QED
    BY Zenon, <2>1, <2>2
<1>5. QED
  BY Zenon, <1>2, <1>3, <1>4

(* Nothing comes into the hands of the scheduler that was not in the list *)
LEMMA HeldFrom ==
  ASSUME AnyInv, [Step]_vars
  PROVE  Held' \subseteq Held \cup ToSet(list)
<1>1. CASE sched' = sched
  BY Zenon, <1>1 DEF Held
<1>2. CASE (StopDelete /\ sched' # sched) \/ StartCreate \/ End \/ EndTimesOut
  BY Zenon, <1>2, NothingInHand
<1>3. CASE SortRemove
  <2>1. /\ sched'.pc \in {"sortSchedule", "sortRemove"} /\ Head(list) \in ToSet(list)
        /\ ToSet(sched'.array) = ToSet(sched.array) \cup {Head(list)}
    BY Zenon, <1>3, SortRemoveEffect
  <2>2. QED
    BY Zenon, <2>1 DEF Held
<1>4. CASE SortInsert
  <2>1. /\ sched'.pc \in {"loop", "sortSchedule"}
        /\ ToSet(sched'.array) \subseteq ToSet(sched.array)
    BY Zenon, <1>4, SortInsertEffect
  <2>2. QED
    BY Zenon, <2>1 DEF Held
<1>5. CASE TakeList
  BY Zenon, <1>1, <1>5 DEF TakeList
<1>6. QED
  BY Zenon, <1>1, <1>2, <1>3, <1>4, <1>5, SchedWriters, MovesInHand DEF SchedulerTask

(* A mutex that was lost stays so *)
LEMMA DeadStays ==
  ASSUME AnyInv, [Step]_vars
  PROVE  /\ listsem = Dead => listsem' = Dead
         /\ sem = Dead => sem' = Dead
<1>1. sem = Dead => sched.pc \notin {"remove", "schedule", "insert"}
  BY Zenon DEF AnyInv, MutexInv, Scheduler, Dead
<1>2. CASE AddCommand \/ DeleteCommand \/ CommandSteps \/ Launcher \/ Tick \/ UNCHANGED vars
  BY Zenon, <1>2 DEF CommandSteps, vars, AddCommand,
     DeleteCommand, Command, StopIsStopped, StopDelay, StopTakeHandle, StopTimesOut, StopClear,
     StopDelete, AddAlarm, AddNoSlot, DeleteAlarm, DeleteFails, DeleteNotFound, StartCreate,
     StartSetRunning, Launcher, Tick, AfterDeletion, Scheduler, Dead
<1>3. CASE SchedulerTask
  BY Zenon, <1>1, <1>3 DEF SchedulerTask, TakeList, SortRefused, SortCount, SortRemove,
     SortSchedule, SortInsert, LoopNoJobs, LoopFire, LoopSleep, Wake, FireLock, FireLockTimesOut,
     FireRemove, FireSchedule, FireInsert, End, EndTimesOut, ListReturns, Scheduler, Dead, Free
<1>4. QED
  BY Zenon, <1>2, <1>3 DEF Step

LEMMA ListKept ==
  ASSUME AnyInv, [Step]_vars
  PROVE  ListInv'
<1>1. TypeOK /\ ListInv /\ IsInjective(list)
  BY Zenon DEF AnyInv, ListInv
<1>2. IsInjective(list')
  BY Zenon, <1>1, ListWriters, AddEffect, DeleteEffect, SortRemoveEffect, SortInsertEffect,
     FireRemoveEffect, FireInsertEffect DEF Added, Deleted
<1>3. SUFFICES ASSUME listsem' # Dead
               PROVE  IsInjective(sched'.array) /\ ToSet(list') \cap InHand' = {}
  BY Zenon, <1>2 DEF ListInv
<1>4. listsem # Dead /\ IsInjective(sched.array) /\ ToSet(list) \cap InHand = {}
  BY Zenon, <1>1, <1>3, DeadStays DEF ListInv
<1>5. IsInjective(<<>>)
  BY SMT DEF IsInjective
<1>6. CASE AddAlarm \/ DeleteAlarm
  BY Zenon, <1>5, <1>6, EditsAlone
<1>7. CASE (StopDelete /\ sched' # sched) \/ StartCreate \/ End \/ EndTimesOut
  BY Zenon, <1>5, <1>7, NothingInHand
<1>8. CASE SortRemove
  <2>1. sched.pc = "sortRemove"
    BY Zenon, <1>8 DEF SortRemove
  <2>2. InHand = ToSet(sched.array)
    BY Zenon, <2>1 DEF InHand
  <2>3. /\ sched'.pc \in {"sortSchedule", "sortRemove"} /\ Head(list) \in ToSet(list)
        /\ ToSet(sched'.array) = ToSet(sched.array) \cup {Head(list)}
        /\ IsInjective(sched.array) /\ Head(list) \notin ToSet(sched.array)
              => IsInjective(sched'.array)
        /\ ToSet(list') = ToSet(list) \ {Head(list)}
    BY Zenon, <1>4, <1>8, SortRemoveEffect
  <2>4. InHand' = ToSet(sched'.array)
    BY Zenon, <2>3 DEF InHand
  <2>5. QED
    BY Zenon, <1>4, <2>2, <2>3, <2>4
<1>9. CASE SortInsert
  <2>1. sched.pc = "sortInsert"
    BY Zenon, <1>9 DEF SortInsert
  <2>2. InHand = ToSet(sched.array)
    BY Zenon, <2>1 DEF InHand
  <2>3. /\ sched'.pc \in {"loop", "sortSchedule"}
        /\ IsInjective(sched'.array)
        /\ ToSet(sched'.array) = ToSet(sched.array) \ {Head(sched.array)}
        /\ ToSet(list') = ToSet(list) \cup {Head(sched.array)}
    BY Zenon, <1>4, <1>9, SortInsertEffect
  <2>4. InHand' = ToSet(sched'.array)
    BY Zenon, <2>3 DEF InHand
  <2>5. QED
    BY Zenon, <1>4, <2>2, <2>3, <2>4
<1>10. CASE FireRemove
  <2>1. sched.array = <<>> /\ sched'.array = <<>> /\ sched'.job = sched.job
    BY Zenon, <1>10, SchedEffect DEF SchedMoves, FireRemove, AnyInv, HandInv
  <2>2. ToSet(list') = ToSet(list) \ {sched.job}
    BY Zenon, <1>4, <1>10, FireRemoveEffect
  <2>3. InHand' \subseteq {sched.job}
    BY Zenon, <2>1, EmptyArray DEF InHand
  <2>4. QED
    BY Zenon, <1>5, <2>1, <2>2, <2>3
<1>11. CASE FireInsert
  <2>1. sched.array = <<>> /\ sched'.array = <<>> /\ sched'.pc = "loop"
    BY Zenon, <1>11, SchedEffect DEF SchedMoves, FireInsert, AnyInv, HandInv
  <2>2. InHand' = {}
    BY Zenon, <2>1, EmptyArray DEF InHand
  <2>3. QED
    BY Zenon, <1>5, <2>1, <2>2
<1>12. CASE sched' = sched /\ list' = list
  BY Zenon, <1>4, <1>12 DEF InHand
<1>13. CASE SortRefused \/ SortCount \/ SortSchedule \/ LoopNoJobs \/ LoopFire \/ LoopSleep \/ Wake
              \/ FireLock \/ FireLockTimesOut \/ FireSchedule
  <2>1. list' = list /\ ~FireRemove
    BY Zenon, <1>13 DEF SortRefused, SortCount, SortSchedule, LoopNoJobs, LoopFire, LoopSleep,
       Wake, FireLock, FireLockTimesOut, FireSchedule, FireRemove, heap
  <2>2. QED
    BY Zenon, <1>4, <1>13, <2>1, MovesInHand
<1>14. TakeList => sched' = sched /\ list' = list
  BY Zenon DEF TakeList, heap
<1>15. QED
  BY Zenon, <1>6, <1>7, <1>8, <1>9, <1>10, <1>11, <1>12, <1>13, <1>14, SchedWriters, ListWriters
     DEF SchedulerTask

LEMMA HandKept ==
  ASSUME AnyInv, [Step]_vars
  PROVE  HandInv'
<1>1. TypeOK /\ HandInv /\ SlotInv /\ ToSet(list) \subseteq AlarmJobs
  BY Zenon DEF AnyInv, NoLeak
<1> DEFINE Sorting == sched.pc \in {"sortRemove", "sortSchedule", "sortInsert"}
           SortAgrees == sched.pc = "sortRemove" =>
             list # <<>> /\ sched.todo > 0 /\ (listsem # Dead => Len(list) = sched.todo)
<1>2. /\ ~Sorting' => sched'.array = <<>>
      /\ sched'.pc \in {"sortSchedule", "sortInsert"} => sched'.array # <<>>
  <2>1. CASE sched' = sched
    BY Zenon, <1>1, <2>1 DEF HandInv
  <2>2. CASE (StopDelete /\ sched' # sched) \/ StartCreate \/ End \/ EndTimesOut
    BY Zenon, <2>2, NothingInHand
  <2>3. CASE SortRemove
    BY Zenon, <2>3, SortRemoveEffect
  <2>4. CASE SortInsert
    BY Zenon, <2>4, SortInsertEffect
  <2>5. CASE SortSchedule
    <3>1. sched.pc = "sortSchedule" /\ sched'.pc = "sortInsert" /\ sched'.array = sched.array
      BY Zenon, <2>5, SchedEffect DEF SortSchedule, SchedMoves
    <3>2. QED
      BY Zenon, <1>1, <3>1 DEF HandInv
  <2>6. CASE SortRefused \/ SortCount \/ LoopNoJobs \/ LoopFire \/ LoopSleep \/ Wake
               \/ FireLock \/ FireLockTimesOut \/ FireRemove \/ FireSchedule \/ FireInsert
    <3>1. sched.array = <<>>
      BY Zenon, <1>1, <2>6 DEF HandInv, SortRefused, SortCount, LoopNoJobs, LoopFire, LoopSleep,
         Wake, FireLock, FireLockTimesOut, FireRemove, FireSchedule, FireInsert
    <3>2. sched'.array = <<>>
      BY Zenon, <2>6, <3>1, MovesInHand
    <3>3. sched'.pc \notin {"sortSchedule", "sortInsert"}
      BY Zenon, <2>6, SchedEffect, SortCountEffect DEF SchedMoves, SchedTakes
    <3>4. QED
      BY Zenon, <3>2, <3>3
  <2>7. TakeList => sched' = sched
    BY Zenon DEF TakeList
  <2>8. QED
    BY Zenon, <2>1, <2>2, <2>3, <2>4, <2>5, <2>6, <2>7, SchedWriters DEF SchedulerTask
<1>3. SortAgrees'
  <2>1. CASE SortRemove
    <3>1. sched'.pc = "sortRemove" => sched.todo # 1
      BY Zenon, <2>1, SortRemoveEffect
    <3>2. sched.pc = "sortRemove" /\ sched.todo \in Int /\ list \in Seq(Pointers)
      BY SMT, <1>1, <2>1 DEF SortRemove, TypeOK, SchedType
    <3>3. list # <<>> /\ sched.todo > 0 /\ (listsem # Dead => Len(list) = sched.todo)
      BY Zenon, <1>1, <3>2 DEF HandInv
    <3>4. sched'.todo = sched.todo - 1
      BY Zenon, <2>1, SortRemoveEffect
    <3>5. \/ listsem # Dead /\ Len(list') = Len(list) - 1 /\ list' \in Seq(Pointers)
          \/ listsem' = Dead /\ list' = list
      BY Zenon, <2>1, SortRemoveEffect DEF Scheduler, Dead
    <3>6. sched.todo # 1 => sched'.todo > 0
      BY SMT, <3>2, <3>3, <3>4
    <3>7. CASE listsem # Dead /\ Len(list') = Len(list) - 1 /\ list' \in Seq(Pointers)
      <4>1. Len(list') = sched'.todo
        BY SMT, <3>3, <3>4, <3>7
      <4>2. sched.todo # 1 => list' # <<>>
        BY SMT, <3>6, <4>1
      <4>3. QED
        BY Zenon, <3>1, <3>6, <4>1, <4>2
    <3>8. CASE listsem' = Dead /\ list' = list
      BY Zenon, <3>1, <3>3, <3>6, <3>8
    <3>9. QED
      BY Zenon, <3>5, <3>7, <3>8
  <2>2. CASE SortCount
    <3>1. /\ sched'.pc = (IF list = <<>> THEN "loop" ELSE "sortRemove")
          /\ sched'.todo = Len(list) /\ list' = list
      BY Zenon, <2>2, SortCountEffect DEF SortCount, heap
    <3>2. list # <<>> => Len(list) > 0
      BY SMT, <1>1 DEF TypeOK
    <3>3. QED
      BY Zenon, <3>1, <3>2
  <2>3. CASE sched' = sched /\ list' = list
    BY Zenon, <1>1, <2>3, DeadStays DEF HandInv
  <2>4. CASE ~SortRemove /\ ~SortCount /\ ~(sched' = sched /\ list' = list)
    <3>1. AddAlarm \/ DeleteAlarm => sched'.pc = "none"
      BY Zenon, EditsAlone
    <3>2. (StopDelete /\ sched' # sched) \/ StartCreate \/ End \/ EndTimesOut
            => sched'.pc # "sortRemove"
      BY Zenon, NothingInHand
    <3>3. SortInsert => sched'.pc # "sortRemove"
      BY Zenon, SortInsertEffect
    <3>4. SortRefused \/ SortSchedule \/ LoopNoJobs \/ LoopFire \/ LoopSleep \/ Wake \/ FireLock
            \/ FireLockTimesOut \/ FireRemove \/ FireSchedule \/ FireInsert
            => sched'.pc # "sortRemove"
      BY Zenon, SchedEffect DEF SchedMoves, SchedTakes
    <3>5. TakeList => sched' = sched /\ list' = list
      BY Zenon DEF TakeList, heap
    <3>6. sched'.pc # "sortRemove"
      BY Zenon, <2>4, <3>1, <3>2, <3>3, <3>4, <3>5, SchedWriters, ListWriters DEF SchedulerTask
    <3>7. QED
      BY Zenon, <3>6
  <2>5. QED
    BY Zenon, <2>1, <2>2, <2>3, <2>4
<1>4. Held' \subseteq AlarmJobs'
  <2>1. CASE AddAlarm \/ DeleteAlarm
    BY Zenon, <2>1, EditsAlone
  <2>2. CASE ~AddAlarm /\ ~DeleteAlarm
    <3>1. AlarmJobs' = AlarmJobs
      BY Zenon, <2>2, AlarmsWriters, AlarmJobsEffect
    <3>2. QED
      BY Zenon, <1>1, <3>1, HeldFrom DEF HandInv
  <2>3. QED
    BY Zenon, <2>1, <2>2
<1>5. \A j \in ToSet(list') \cup Held' : jobs'[j].listed
  <2>1. \A j \in ToSet(list) \cup Held : jobs[j].listed /\ j \in Pointers /\ jobs[j].state # "unused"
    BY Zenon, <1>1, AlarmJobIsTyped DEF HandInv
  <2>2. CASE AddAlarm
    <3>1. PICK i \in 1 .. Slots, k \in Pointers \cup {Null} : Added(i, k)
      BY Zenon, <2>2, AddEffect
    <3>2. Held' = {}
      BY Zenon, <2>2, EditsAlone
    <3>3. \A j \in ToSet(list) : j # k \/ k = Null
      BY Zenon, <2>1, <3>1 DEF Added, Fresh
    <3>4. \A j \in Pointers : j # Null
      BY SMT DEF Pointers, Null
    <3>5. \A j \in ToSet(list) : jobs'[j].listed
      BY Zenon, <2>1, <3>1, <3>3, <3>4 DEF Added
    <3>6. \A j \in ToSet(list') : j \in ToSet(list) \/ (j = k /\ k # Null /\ listsem = Free)
      BY Zenon, <3>1 DEF Added
    <3>7. k # Null /\ listsem = Free => jobs'[k].listed
      BY Zenon, <3>1 DEF Added
    <3>8. QED
      BY Zenon, <3>2, <3>5, <3>6, <3>7
  <2>3. CASE ~AddAlarm
    <3>1. \A j \in Pointers : jobs[j].listed => jobs'[j].listed
      <4>1. CASE DeleteAlarm
        BY Zenon, <4>1, DeleteEffect DEF Deleted
      <4>2. CASE DeleteFails
        <5>1. ASSUME NEW k \in Pointers, jobs' = Freed(k)
              PROVE  \A j \in Pointers : jobs[j].listed => jobs'[j].listed
          BY Zenon, <1>1, <5>1, FreedEffect
        <5>2. QED
          BY Zenon, <4>2, <5>1, DeleteFailsEffect
      <4>3. CASE SortSchedule \/ FireSchedule
        BY Zenon, <4>3, ReschedulesOne DEF Rescheduled
      <4>4. QED
        BY Zenon, <2>3, <4>1, <4>2, <4>3, JobsWriters
    <3>2. ToSet(list') \subseteq ToSet(list) \cup Held
      <4>1. SortInsert => Head(sched.array) \in Held
        BY Zenon, SortInsertEffect DEF Held
      <4>2. FireInsert => sched.job \in Held
        BY Zenon DEF FireInsert, Held
      <4>3. DeleteAlarm => ToSet(list') \subseteq ToSet(list)
        BY Zenon, DeleteEffect DEF Deleted
      <4>4. QED
        BY Zenon, <2>3, <4>1, <4>2, <4>3, ListWriters, SortRemoveEffect, SortInsertEffect,
           FireRemoveEffect, FireInsertEffect
    <3>3. QED
      BY Zenon, <2>1, <3>1, <3>2, HeldFrom
  <2>4. QED
    BY Zenon, <2>2, <2>3
<1>6. QED
  BY Zenon, <1>2, <1>3, <1>4, <1>5 DEF HandInv

--------------------------------------------------------------------------------
(* However slow the scheduler is *)

(* After a boot, the first one or one in between *)
Booted ==
  /\ alarms = NoAlarms /\ jobs = NoJobs /\ list = <<>>
  /\ running = FALSE /\ handle = FALSE
  /\ sem = Free /\ listsem = Free
  /\ cmd = Idle
  /\ sched = NoScheduler
  /\ launchers = {} /\ fired = {}
  /\ now \in 0 .. MaxTime

LEMMA InitBooted == Init => Booted
<1>1. MaxTime \in Nat
  BY Zenon, CronAlarmAssumption DEF CronAlarmAssumption
<1>2. 0 \in 0 .. MaxTime
  BY SMT, <1>1
<1>3. QED
  BY Zenon, <1>2 DEF Init, Booted

LEMMA StaleBooted == TypeOK /\ StopDeleteStale => Booted'
BY Zenon DEF StopDeleteStale, Booted, TypeOK

LEMMA NextSteps == [Next]_vars => [Step]_vars \/ StopDeleteStale
BY Zenon DEF Next

LEMMA AnyInit == Booted => AnyInv
<1>1. SUFFICES ASSUME Booted PROVE AnyInv
  OBVIOUS
<1>2. Null \notin Pointers /\ 0 \in 0 .. MaxTime /\ Unused \in JobType
  <2>1. Null \notin Pointers
    BY SMT DEF Null, Pointers
  <2>2. 0 \in 0 .. MaxTime
    BY SMT, CronAlarmAssumption DEF CronAlarmAssumption
  <2>3. Unused \in JobType
    BY Zenon, 0 \in Nat DEF Unused, JobType, Times
  <2>4. QED
    BY Zenon, <2>1, <2>2, <2>3
<1>3. alarms \in [1 .. Slots -> AlarmType] /\ \A i \in 1 .. Slots : alarms[i].job = Null
      /\ alarms[i].crontab = NoAlarm
  BY SMT, <1>1 DEF Booted, NoAlarms, NoJobs, AlarmType
<1>4. jobs \in [Pointers -> JobType] /\ \A j \in Pointers : jobs[j] = Unused
  BY Zenon, <1>1, <1>2 DEF Booted, NoJobs, Pointers
<1>5. list \in Seq(Pointers) /\ list = <<>> /\ ToSet(list) = {}
  BY SMT, <1>1, EmptyArray DEF Booted, NoAlarms, NoJobs
<1>6. /\ cmd = Idle /\ sched = NoScheduler /\ running = FALSE /\ handle = FALSE /\ sem = Free
      /\ listsem = Free /\ launchers = {} /\ fired = {} /\ now \in 0 .. MaxTime
  BY Zenon, <1>1 DEF Booted, NoAlarms, NoJobs
<1>7. cmd.pc = "idle" /\ sched.pc = "none" /\ sched.array = <<>>
  BY Zenon, <1>6 DEF Idle, NoScheduler
<1>8. TypeOK
  BY Zenon, <1>2, <1>3, <1>4, <1>5, <1>6, IdleType DEF TypeOK, Holders
<1>9. ControlInv /\ MutexInv /\ RoomInv
  BY Zenon, <1>6, <1>7 DEF ControlInv, AtEdit, Alive, MutexInv, RoomInv, Scheduler, Free
<1>10. AlarmJobs = {} /\ DOMAIN alarms = 1 .. Slots
  BY Zenon, <1>3 DEF AlarmJobs
<1>11. \A j \in Pointers : jobs[j].state = "unused"
  <2>1. Unused.state = "unused"
    BY Zenon DEF Unused
  <2>2. QED
    BY Zenon, <1>4, <2>1
<1>12. SlotInv
  BY Zenon, <1>3, <1>10, <1>11 DEF SlotInv
<1>13. Held = {} /\ InHand = {}
  BY Zenon, <1>7, EmptyArray DEF Held, InHand
<1>14. HandInv
  BY Zenon, <1>5, <1>7, <1>13 DEF HandInv
<1>15. ListInv
  <2>1. IsInjective(<<>>)
    BY SMT DEF IsInjective
  <2>2. QED
    BY Zenon, <1>5, <1>7, <2>1 DEF ListInv
<1>16. NoLeak
  BY Zenon, <1>4, <1>5, <1>11 DEF NoLeak
<1>17. QED
  BY Zenon, <1>8, <1>9, <1>12, <1>14, <1>15, <1>16 DEF AnyInv

LEMMA AnyStep == AnyInv /\ [Step]_vars => AnyInv'
BY Zenon, TypeKept, ControlKept, MutexKept, SlotKept, RoomKept, HandKept, ListKept, NoLeakKept
   DEF AnyInv

LEMMA AnyHolds == Spec => []AnyInv
<1>1. AnyInv => TypeOK
  BY Zenon DEF AnyInv
<1>2. QED
  BY <1>1, InitBooted, AnyInit, AnyStep, StaleBooted, NextSteps, PTL DEF Spec

(* A scheduler, a list and alarms of the declared types, for any number of slots, *)
(* crontabs and jobs.                                                             *)
THEOREM TypeCorrect == Spec => []TypeOK
<1>1. AnyInv => TypeOK
  BY Zenon DEF AnyInv
<1>2. QED
  BY <1>1, AnyHolds, PTL

(* Deletions racing the scheduler, mutexes lost with a deleted task: the list     *)
(* still holds only jobs of alarms (alarm.c:252 alarm_delete, jobs.c:94           *)
(* cron_job_list_remove), and each job that was not freed belongs to an alarm.    *)
THEOREM NothingLeaks == Spec => []NoLeak
<1>1. AnyInv => NoLeak
  BY Zenon DEF AnyInv
<1>2. QED
  BY <1>1, AnyHolds, PTL

(* After cron_stop and the edit, cron_start finds neither the flag nor the handle *)
(* set, whatever the scheduler did in between (cron.c:120 cron_stop, cron.c:140   *)
(* cron_start, cron.c:325, the end of the scheduler).                             *)
THEOREM StartsAgain == Spec => []StartIsAccepted
<1>1. AnyInv => StartIsAccepted
  BY Zenon DEF AnyInv, ControlInv, AtEdit, StartIsAccepted
<1>2. QED
  BY <1>1, AnyHolds, PTL

--------------------------------------------------------------------------------
(* With a scheduler that cron_stop finds at rest *)

LEMMA RestKept ==
  ASSUME Prompt, AnyInv, RestInv, [Step]_vars
  PROVE  RestInv'
<1>1. sem # Dead /\ listsem # Dead /\ (Stopping => AtRest)
  BY Zenon DEF RestInv
<1>2. AtRest => sem # Scheduler /\ listsem # Scheduler
  BY Zenon DEF AtRest, AnyInv, MutexInv
<1>3. sem' # Dead /\ listsem' # Dead
  <2>1. CASE StopDelete
    <3>1. AtRest
      BY Zenon, <1>1, <2>1 DEF StopDelete, Stopping
    <3>2. QED
      BY Zenon, <1>1, <1>2, <2>1, <3>1 DEF StopDelete, AfterDeletion
  <2>2. CASE AddCommand \/ DeleteCommand \/ (CommandSteps /\ ~StopDelete) \/ Launcher \/ Tick
               \/ UNCHANGED vars
    BY Zenon, <1>1, <2>2 DEF CommandSteps, vars, AddCommand,
       DeleteCommand, Command, StopIsStopped, StopDelay, StopTakeHandle, StopTimesOut, StopClear,
       AddAlarm, AddNoSlot, DeleteAlarm, DeleteFails, DeleteNotFound, StartCreate,
       StartSetRunning, Launcher, Tick
  <2>3. CASE SchedulerTask
    BY Zenon, <1>1, <2>3 DEF SchedulerTask, TakeList, SortRefused, SortCount, SortRemove,
       SortSchedule, SortInsert, LoopNoJobs, LoopFire, LoopSleep, Wake, FireLock,
       FireLockTimesOut, FireRemove, FireSchedule, FireInsert, End, EndTimesOut, ListReturns,
       Scheduler, Dead, Free
  <2>4. QED
    BY Zenon, <2>1, <2>2, <2>3 DEF Step
<1>4. Stopping' => AtRest'
  <2>1. CASE AddCommand \/ DeleteCommand \/ CommandSteps
    <3>1. StopTakeHandle => AtRest /\ sched' = sched
      BY Zenon DEF StopTakeHandle
    <3>2. StopClear => Stopping /\ sched' = sched
      BY Zenon DEF StopClear, Stopping
    <3>3. Idle.pc = "idle"
      BY Zenon DEF Idle
    <3>4. ~StopTakeHandle /\ ~StopClear => ~Stopping'
      BY Zenon, <2>1, <3>3, CmdEffect DEF AnyInv, CommandSteps, CmdMoves, Stopping
    <3>5. sched' = sched => AtRest' = AtRest
      BY Zenon DEF AtRest
    <3>6. QED
      BY Zenon, <1>1, <3>1, <3>2, <3>4, <3>5
  <2>2. CASE cmd' = cmd /\ SchedulerTask
    <3>1. Stopping' = Stopping
      BY Zenon, <2>2 DEF Stopping
    <3>2. ~(Stopping /\ AtRest)
      BY Zenon, <2>2, <1>2 DEF AtRest, SchedulerTask, TakeList, SortRefused, SortCount, SortRemove,
         SortSchedule, SortInsert, LoopNoJobs, LoopFire, LoopSleep, Wake, FireLock,
         FireLockTimesOut, FireRemove, FireSchedule, FireInsert, End, EndTimesOut
    <3>3. QED
      BY Zenon, <1>1, <3>1, <3>2
  <2>3. CASE cmd' = cmd /\ sched' = sched
    BY Zenon, <1>1, <2>3 DEF Stopping, AtRest
  <2>4. QED
    BY Zenon, <2>1, <2>2, <2>3, CmdWriters, SchedWriters DEF CommandSteps
<1>5. QED
  BY Zenon, <1>3, <1>4 DEF RestInv

(* While a command edits, no mutex is taken and all jobs are in the list. *)
LEMMA EditsAll ==
  ASSUME AnyInv, RestInv, AgreeInv, AddAlarm \/ DeleteAlarm \/ DeleteFails
  PROVE  listsem = Free /\ ToSet(list) = AlarmJobs
<1>1. sched.pc = "none" /\ InHand = {}
  BY Zenon, EditsAlone
<1>2. listsem # Scheduler
  BY Zenon, <1>1 DEF AnyInv, MutexInv
<1>3. listsem \in Holders
  BY Zenon DEF AnyInv, TypeOK
<1>4. QED
  BY Zenon, <1>1, <1>2, <1>3 DEF RestInv, AgreeInv, Holders

(* No job is freed that stays in the list *)
LEMMA NoFreeFails ==
  ASSUME AnyInv, RestInv, AgreeInv, DeleteFails
  PROVE  jobs' = jobs /\ alarms[Deleting].job = Null
<1>1. listsem = Free /\ ToSet(list) = AlarmJobs /\ list \in Seq(Pointers)
  BY Zenon, EditsAll DEF AnyInv, TypeOK
<1>2. \A j \in AlarmJobs : Contains(list, j)
  <2>1. DOMAIN list = 1 .. Len(list)
    BY SMT, <1>1
  <2>2. QED
    BY Zenon, <1>1, <2>1 DEF Contains, ToSet
<1>3. \A j \in AlarmJobs : Unlistable(j)
  BY Zenon, <1>1, <1>2 DEF Unlistable
<1>4. alarms[Deleting].job # Null => alarms[Deleting].job \in AlarmJobs
  BY Zenon, DeletingIs DEF DeleteFails
<1>5. QED
  BY Zenon, <1>3, <1>4 DEF DeleteFails

LEMMA AgreeKept ==
  ASSUME Prompt, AnyInv, RestInv, AgreeInv, [Step]_vars
  PROVE  AgreeInv'
<1>1. TypeOK /\ ToSet(list) \cup InHand = AlarmJobs /\ listsem # Dead
      /\ DOMAIN jobs = Pointers /\ DOMAIN jobs' = Pointers
      /\ \A j \in AlarmJobs : jobs[j].state = "live" /\ j \in Pointers
  BY Zenon, TypeKept, AlarmJobsAre DEF AnyInv, TypeOK, RestInv, AgreeInv
<1>2. CASE AddAlarm
  <2>1. PICK i \in 1 .. Slots, j \in Pointers \cup {Null} : Added(i, j)
    BY Zenon, <1>2, AddEffect
  <2>2. AlarmJobs' = AlarmJobs \cup ({j} \ {Null}) /\ InHand' = {}
    BY Zenon, <1>2, <2>1, AlarmJobsEffect, EditsAlone
  <2>3. listsem = Free /\ ToSet(list) = AlarmJobs
    BY Zenon, <1>2, EditsAll
  <2>4. ToSet(list') = ToSet(list) \cup ({j} \ {Null})
    BY Zenon, <2>1, <2>3 DEF Added
  <2>5. j # Null => j \in Pointers /\ jobs'[j].state = "live"
    BY Zenon, <2>1 DEF Added
  <2>6. \A k \in Pointers \ {j} : jobs'[k] = jobs[k]
    BY Zenon, <2>1 DEF Added
  <2>7. \A k \in AlarmJobs' : k \in Pointers /\ jobs'[k].state = "live"
    <3>1. SUFFICES ASSUME NEW k \in AlarmJobs'
                   PROVE  k \in Pointers /\ jobs'[k].state = "live"
      OBVIOUS
    <3>2. CASE k = j
      <4>1. k # Null
        BY Zenon DEF AlarmJobs
      <4>2. QED
        BY Zenon, <2>5, <3>2, <4>1
    <3>3. CASE k # j
      BY Zenon, <1>1, <2>2, <2>6, <3>3
    <3>4. QED
      BY Zenon, <3>2, <3>3
  <2>8. ToSet(list') \cup InHand' = AlarmJobs'
    BY Zenon, <2>2, <2>3, <2>4
  <2>9. QED
    BY Zenon, <1>1, <2>7, <2>8 DEF AgreeInv
<1>3. CASE DeleteAlarm
  <2>1. PICK i \in 1 .. Slots, j \in Pointers : Deleted(i, j)
    BY Zenon, <1>3, DeleteEffect
  <2>2. AlarmJobs' = AlarmJobs \ {j} /\ InHand' = {}
    BY Zenon, <1>3, <2>1, AlarmJobsEffect, EditsAlone
  <2>3. ToSet(list) = AlarmJobs
    BY Zenon, <1>3, EditsAll
  <2>4. ToSet(list') = ToSet(list) \ {j} /\ \A k \in Pointers \ {j} : jobs'[k] = jobs[k]
    BY Zenon, <2>1 DEF Deleted
  <2>5. QED
    BY Zenon, <1>1, <2>2, <2>3, <2>4 DEF AgreeInv
<1>4. ASSUME ~AddAlarm, ~DeleteAlarm
      PROVE  AgreeInv'
  <2>1. AlarmJobs' = AlarmJobs
    BY Zenon, <1>4, AlarmsWriters, AlarmJobsEffect
  <2>2. \A j \in Pointers : jobs'[j].state = jobs[j].state
    BY Zenon, <1>4, JobsWriters, NoFreeFails, ReschedulesOne DEF Rescheduled
  <2>3. ToSet(list') \cup InHand' = ToSet(list) \cup InHand
    <3>1. CASE sched' = sched /\ list' = list
      BY Zenon, <3>1 DEF InHand
    <3>2. CASE (StopDelete /\ sched' # sched) \/ StartCreate \/ End \/ EndTimesOut
      <4>1. InHand' = {} /\ list' = list
        BY Zenon, <3>2, NothingInHand DEF StopDelete, StartCreate, End, EndTimesOut, heap
      <4>2. sched.pc \in {"none", "asleep", "end"}
        BY Zenon, <3>2 DEF StopDelete, StartCreate, End, EndTimesOut, RestInv, Stopping, AtRest,
           AnyInv, ControlInv, AtEdit, Alive
      <4>3. sched.array = <<>>
        BY Zenon, <4>2 DEF AnyInv, HandInv
      <4>4. InHand = {}
        BY Zenon, <4>2, <4>3, EmptyArray DEF InHand
      <4>5. QED
        BY Zenon, <4>1, <4>4
    <3>3. CASE SortRemove
      <4>1. sched.pc = "sortRemove"
        BY Zenon, <3>3 DEF SortRemove
      <4>2. /\ sched'.pc \in {"sortSchedule", "sortRemove"} /\ Head(list) \in ToSet(list)
            /\ ToSet(sched'.array) = ToSet(sched.array) \cup {Head(list)}
            /\ ToSet(list') = ToSet(list) \ {Head(list)}
        BY Zenon, <1>1, <3>3, SortRemoveEffect
      <4>3. InHand = ToSet(sched.array) /\ InHand' = ToSet(sched'.array)
        BY Zenon, <4>1, <4>2 DEF InHand
      <4>4. QED
        BY Zenon, <4>2, <4>3
    <3>4. CASE SortInsert
      <4>1. sched.pc = "sortInsert" /\ IsInjective(sched.array)
        BY Zenon, <1>1, <3>4 DEF SortInsert, AnyInv, ListInv
      <4>2. /\ sched'.pc \in {"loop", "sortSchedule"}
            /\ Head(sched.array) \in ToSet(sched.array)
            /\ ToSet(sched'.array) = ToSet(sched.array) \ {Head(sched.array)}
            /\ ToSet(list') = ToSet(list) \cup {Head(sched.array)}
        BY Zenon, <1>1, <3>4, <4>1, SortInsertEffect
      <4>3. InHand = ToSet(sched.array) /\ InHand' = ToSet(sched'.array)
        BY Zenon, <4>1, <4>2 DEF InHand
      <4>4. QED
        BY Zenon, <4>2, <4>3
    <3>5. CASE FireRemove
      <4>1. sched.pc = "remove" /\ sched.array = <<>> /\ sched'.array = <<>>
            /\ sched'.job = sched.job /\ sched'.pc = "schedule"
        BY Zenon, <3>5, SchedEffect DEF SchedMoves, FireRemove, AnyInv, HandInv
      <4>2. ToSet(list') = ToSet(list) \ {sched.job}
        BY Zenon, <1>1, <3>5, FireRemoveEffect
      <4>3. InHand = {} /\ InHand' = {sched.job}
        BY Zenon, <4>1, EmptyArray DEF InHand
      <4>4. sched.job \in ToSet(list)
        BY Zenon, <1>1, <4>1, <4>3, HandsAreTyped
      <4>5. QED
        BY Zenon, <4>2, <4>3, <4>4
    <3>6. CASE FireInsert
      <4>1. sched.pc = "insert" /\ sched.array = <<>> /\ sched'.array = <<>> /\ sched'.pc = "loop"
        BY Zenon, <3>6, SchedEffect DEF SchedMoves, FireInsert, AnyInv, HandInv
      <4>2. ToSet(list') = ToSet(list) \cup {sched.job}
        BY Zenon, <1>1, <3>6, FireInsertEffect
      <4>3. InHand = {sched.job} /\ InHand' = {}
        BY Zenon, <4>1, EmptyArray DEF InHand
      <4>4. QED
        BY Zenon, <4>2, <4>3
    <3>7. CASE SortRefused \/ SortCount \/ SortSchedule \/ LoopNoJobs \/ LoopFire \/ LoopSleep
                 \/ Wake \/ FireLock \/ FireLockTimesOut \/ FireSchedule
      <4>1. list' = list /\ sched'.array = sched.array
        BY Zenon, <3>7, MovesInHand DEF SortRefused, SortCount, SortSchedule, LoopNoJobs, LoopFire,
           LoopSleep, Wake, FireLock, FireLockTimesOut, FireSchedule, heap
      <4>2. CASE FireSchedule
        <5>1. sched.pc = "schedule" /\ sched'.pc = "insert" /\ sched'.job = sched.job
          BY Zenon, <4>2, SchedEffect DEF SchedMoves, FireSchedule
        <5>2. QED
          BY Zenon, <4>1, <5>1 DEF InHand
      <4>3. CASE ~FireSchedule
        <5>1. sched'.pc \notin {"schedule", "insert"}
          BY Zenon, <3>7, <4>3, SchedEffect, SortCountEffect DEF SchedMoves, SchedTakes
        <5>2. sched.pc \notin {"schedule", "insert"}
          BY Zenon, <3>7, <4>3 DEF SortRefused, SortCount, SortSchedule, LoopNoJobs, LoopFire,
             LoopSleep, Wake, FireLock, FireLockTimesOut
        <5>3. QED
          BY Zenon, <4>1, <5>1, <5>2 DEF InHand
      <4>4. QED
        BY Zenon, <4>2, <4>3
    <3>8. TakeList => sched' = sched /\ list' = list
      BY Zenon DEF TakeList, heap
    <3>9. QED
      BY Zenon, <1>4, <3>1, <3>2, <3>3, <3>4, <3>5, <3>6, <3>7, <3>8, SchedWriters, ListWriters
         DEF SchedulerTask
  <2>4. QED
    BY Zenon, <1>1, <2>1, <2>2, <2>3 DEF AgreeInv
<1>5. QED
  BY Zenon, <1>2, <1>3, <1>4

PromptInv == AnyInv /\ RestInv /\ AgreeInv

LEMMA PromptInit == Booted => PromptInv
<1>1. SUFFICES ASSUME Booted PROVE RestInv /\ AgreeInv
  BY Zenon, AnyInit DEF PromptInv
<1>2. sem = Free /\ listsem = Free /\ cmd = Idle /\ sched = NoScheduler /\ list = <<>>
  BY Zenon, <1>1 DEF Booted
<1>3. cmd.pc = "idle" /\ sched.pc = "none" /\ sched.array = <<>>
  BY Zenon, <1>2 DEF Idle, NoScheduler
<1>4. RestInv
  BY Zenon, <1>2, <1>3 DEF RestInv, Stopping, Free, Dead
<1>5. InHand = {} /\ ToSet(list) = {}
  BY Zenon, <1>2, <1>3, EmptyArray DEF InHand
<1>6. AlarmJobs = {}
  <2>1. \A i \in DOMAIN alarms : alarms[i].job = Null
    BY SMT, <1>1 DEF Booted, NoAlarms
  <2>2. QED
    BY Zenon, <2>1 DEF AlarmJobs
<1>7. QED
  BY Zenon, <1>4, <1>5, <1>6 DEF AgreeInv

LEMMA PromptStep ==
  ASSUME Prompt
  PROVE  PromptInv /\ [Step]_vars => PromptInv'
BY Zenon, AnyStep, RestKept, AgreeKept DEF PromptInv

LEMMA PromptHolds ==
  ASSUME Prompt
  PROVE  Spec => []PromptInv
<1>1. PromptInv => TypeOK
  BY Zenon DEF PromptInv, AnyInv
<1>2. QED
  BY <1>1, InitBooted, PromptInit, PromptStep, StaleBooted, NextSteps, PTL DEF Spec

(* If the 20 ms of cron_stop are long enough (cron.c:124), every alarm has its    *)
(* job in the list or in the hands of the scheduler, once, and no other job is in *)
(* the list, for any slots, crontabs and interleaving of commands and scheduler.  *)
THEOREM ListAgrees ==
  ASSUME Prompt
  PROVE  Spec => []ListFollowsAlarms
<1>1. PromptInv => ListFollowsAlarms
  <2>1. SUFFICES ASSUME PromptInv PROVE ListFollowsAlarms
    OBVIOUS
  <2>2. /\ ToSet(list) \cup InHand = AlarmJobs
        /\ AlarmJobs \subseteq {j \in DOMAIN jobs : jobs[j].state = "live"}
        /\ listsem # Dead
    BY Zenon, <2>1 DEF PromptInv, AgreeInv, RestInv
  <2>3. IsInjective(list) /\ ToSet(list) \cap InHand = {}
    BY Zenon, <2>1, <2>2 DEF PromptInv, AnyInv, ListInv
  <2>4. {j \in DOMAIN jobs : jobs[j].state = "live"} \subseteq AlarmJobs
    BY Zenon, <2>1 DEF PromptInv, AnyInv, NoLeak
  <2>5. QED
    BY Zenon, <2>2, <2>3, <2>4 DEF ListFollowsAlarms
<1>2. QED
  BY <1>1, PromptHolds, PTL

--------------------------------------------------------------------------------
(* Between commands the scheduler is there: cron_stop and the edit succeed, so   *)
(* that each command reaches cron_start, and the scheduler ends only when there  *)
(* are no alarms left.                                                           *)

(* The commands that give up do so for a mutex that was lost, or for an alarm    *)
(* whose crontab does not parse.                                                 *)
LEMMA CommandsSucceed ==
  ASSUME Prompt, PromptInv, EndInv
  PROVE  ~StopTimesOut /\ ~DeleteFails /\ ~EndTimesOut /\ ~FireLockTimesOut
<1>1. sem # Dead
  BY Zenon DEF PromptInv, RestInv
<1>2. ~StopTimesOut /\ ~EndTimesOut /\ ~FireLockTimesOut
  BY Zenon, <1>1 DEF StopTimesOut, EndTimesOut, FireLockTimesOut
<1>3. ~DeleteFails
  <2>1. SUFFICES ASSUME DeleteFails PROVE FALSE
    OBVIOUS
  <2>2. alarms[Deleting].job = Null
    BY Zenon, <2>1, NoFreeFails DEF PromptInv
  <2>3. Deleting \in 1 .. Slots /\ alarms[Deleting].crontab = cmd.crontab
    BY Zenon, <2>1, DeletingIs DEF DeleteFails, PromptInv
  <2>4. DOMAIN alarms = 1 .. Slots
    BY Zenon DEF PromptInv, AnyInv, TypeOK
  <2>5. cmd.crontab \in Crontabs
    BY Zenon, <2>1 DEF DeleteFails, PromptInv, AnyInv, ControlInv
  <2>6. NoAlarm \notin Crontabs
    BY SMT, CronAlarmAssumption DEF CronAlarmAssumption, NoAlarm
  <2>7. QED
    BY Zenon, <2>2, <2>3, <2>4, <2>5, <2>6 DEF EndInv
<1>4. QED
  BY Zenon, <1>2, <1>3

LEMMA EndKept ==
  ASSUME Prompt, BadCrontabs = {}, PromptInv, EndInv, [Step]_vars
  PROVE  EndInv'
<1>1. AnyInv /\ RestInv /\ AgreeInv /\ TypeOK /\ DOMAIN alarms = 1 .. Slots
      /\ DOMAIN alarms' = 1 .. Slots
  BY Zenon, TypeKept DEF PromptInv, AnyInv, TypeOK
<1>2. ~StopTimesOut /\ ~DeleteFails /\ ~EndTimesOut
  BY Zenon, CommandsSucceed
<1>3. ASSUME NEW i \in DOMAIN alarms', alarms'[i].crontab # NoAlarm
      PROVE  alarms'[i].job # Null
  <2>1. CASE alarms' = alarms
    BY Zenon, <1>3, <2>1 DEF EndInv
  <2>2. CASE AddAlarm
    <3>1. PICK n \in 1 .. Slots, j \in Pointers \cup {Null} : Added(n, j)
      BY Zenon, <2>2, <1>1, AddEffect
    <3>2. j # Null
      BY Zenon, <3>1 DEF Added
    <3>3. alarms'[n].job = j
      BY SMT, <1>1, <3>1 DEF Added
    <3>4. \A k \in 1 .. Slots \ {n} : alarms'[k] = alarms[k]
      BY SMT, <1>1, <3>1 DEF Added
    <3>5. QED
      BY Zenon, <1>1, <1>3, <3>2, <3>3, <3>4 DEF EndInv
  <2>3. CASE DeleteAlarm
    <3>1. PICK n \in 1 .. Slots, j \in Pointers : Deleted(n, j)
      BY Zenon, <2>3, <1>1, DeleteEffect
    <3>2. alarms'[n].crontab = NoAlarm
      BY SMT, <1>1, <3>1 DEF Deleted
    <3>3. \A k \in 1 .. Slots \ {n} : alarms'[k] = alarms[k]
      BY SMT, <1>1, <3>1 DEF Deleted
    <3>4. QED
      BY Zenon, <1>1, <1>3, <3>2, <3>3 DEF EndInv
  <2>4. QED
    BY Zenon, <2>1, <2>2, <2>3, AlarmsWriters
<1>4. sched'.pc = "end" => AlarmJobs' = {}
  <2>1. SUFFICES ASSUME sched'.pc = "end" PROVE AlarmJobs' = {}
    OBVIOUS
  <2>2. ~AddAlarm /\ ~DeleteAlarm
    <3>1. AddAlarm \/ DeleteAlarm => sched' = sched /\ sched.pc = "none"
      BY Zenon, <1>1, EditsAlone
    <3>2. QED
      BY Zenon, <2>1, <3>1
  <2>3. AlarmJobs' = AlarmJobs
    BY Zenon, <1>1, <2>2, AlarmsWriters, AlarmJobsEffect
  <2>4. sched.pc = "end" \/ LoopNoJobs
    <3>1. NoScheduler.pc = "none"
      BY Zenon DEF NoScheduler
    <3>2. SchedulerTask => sched' = sched \/ LoopNoJobs
      BY Zenon, <1>1, <2>1, <3>1, SchedEffect, SortCountEffect, SortRemoveEffect, SortInsertEffect
         DEF SchedulerTask, SchedMoves, SchedTakes
    <3>3. (StopDelete /\ sched' # sched) => FALSE
      BY Zenon, <1>1, <2>1, NothingInHand
    <3>4. ~StartCreate
      BY Zenon, <1>1, <2>1, NothingInHand
    <3>5. QED
      BY Zenon, <2>1, <3>2, <3>3, <3>4, SchedWriters
  <2>5. LoopNoJobs => AlarmJobs = {}
    <3>1. SUFFICES ASSUME LoopNoJobs PROVE AlarmJobs = {}
      OBVIOUS
    <3>2. sched.pc = "loop" /\ list = <<>>
      BY Zenon, <3>1 DEF LoopNoJobs
    <3>3. sched.array = <<>>
      BY Zenon, <1>1, <3>2 DEF AnyInv, HandInv
    <3>4. InHand = {}
      BY Zenon, <3>2, <3>3, EmptyArray DEF InHand
    <3>5. QED
      BY Zenon, <1>1, <3>2, <3>4, EmptyArray DEF AgreeInv
  <2>6. QED
    BY Zenon, <2>3, <2>4, <2>5 DEF EndInv
<1>5. ~Alive' /\ ~AtEdit' /\ cmd'.pc # "delete" => AlarmJobs' = {}
  <2>1. SUFFICES ASSUME sched'.pc = "none", ~AtEdit', cmd'.pc # "delete"
                 PROVE  AlarmJobs' = {}
    BY Zenon DEF Alive
  <2>2. ~AddAlarm /\ ~DeleteAlarm /\ ~StopIsStopped /\ ~StopDelete /\ ~AddNoSlot
        /\ ~DeleteNotFound /\ ~StopClear
    BY Zenon, <1>1, <2>1, CmdEffect DEF CommandSteps, CmdMoves, AtEdit
  <2>3. AlarmJobs' = AlarmJobs
    BY Zenon, <1>1, <2>2, AlarmsWriters, AlarmJobsEffect
  <2>4. CASE sched' = sched
    <3>1. cmd.pc \notin {"edit", "start", "delete"}
      <4>1. CASE cmd' = cmd
        BY Zenon, <2>1, <4>1 DEF AtEdit
      <4>2. CASE AddCommand \/ DeleteCommand \/ StopDelay \/ StopTakeHandle \/ StartSetRunning
        BY Zenon, <4>2 DEF AddCommand, DeleteCommand, Command, StopDelay, StopTakeHandle,
           StartSetRunning
      <4>3. StartCreate => sched' # sched
        BY Zenon, <2>1, StartEffect
      <4>4. QED
        BY Zenon, <1>2, <2>2, <2>4, <4>1, <4>2, <4>3, CmdWriters DEF CommandSteps
    <3>2. sched.pc = "none" /\ ~AtEdit
      BY Zenon, <2>1, <2>4, <3>1 DEF AtEdit
    <3>3. QED
      BY Zenon, <2>3, <3>1, <3>2 DEF EndInv, Alive
  <2>5. CASE sched' # sched
    <3>1. ~StartCreate
      BY Zenon, <2>1, StartEffect
    <3>2. SchedulerTask => End
      BY Zenon, <1>1, <1>2, <2>1, <2>5, SchedEffect, SortCountEffect, SortRemoveEffect,
         SortInsertEffect DEF SchedulerTask, SchedMoves, SchedTakes
    <3>3. sched.pc = "end"
      BY Zenon, <2>2, <2>5, <3>1, <3>2, SchedWriters DEF End
    <3>4. QED
      BY Zenon, <2>3, <3>3 DEF EndInv
  <2>6. QED
    BY Zenon, <2>4, <2>5
<1>6. QED
  BY Zenon, <1>3, <1>4, <1>5 DEF EndInv

LEMMA EndInit == Booted => EndInv
<1>1. SUFFICES ASSUME Booted PROVE EndInv
  OBVIOUS
<1>2. \A i \in DOMAIN alarms : alarms[i].crontab = NoAlarm /\ alarms[i].job = Null
  BY SMT, <1>1 DEF Booted, NoAlarms
<1>3. AlarmJobs = {}
  BY Zenon, <1>2 DEF AlarmJobs
<1>4. QED
  BY Zenon, <1>2, <1>3 DEF EndInv

LEMMA EndStep ==
  ASSUME Prompt, BadCrontabs = {}
  PROVE  PromptInv /\ EndInv /\ [Step]_vars => EndInv'
BY Zenon, EndKept

(* Between commands the scheduler runs if any alarm has a job (alarm.c:256 and    *)
(* 276, alarm.c:233, cron.c:325), for any slots and interleaving, if crontabs     *)
(* parse and cron_stop waits long enough; CronAlarmBad.cfg shows what happens     *)
(* with a crontab that does not parse.                                            *)
THEOREM SchedulerThere ==
  ASSUME Prompt, BadCrontabs = {}
  PROVE  Spec => []AlarmsAreScheduled
<1>1. EndInv => AlarmsAreScheduled
  BY Zenon DEF EndInv, AlarmsAreScheduled, Alive, AtEdit
<1>2. PromptInv => TypeOK
  BY Zenon DEF PromptInv, AnyInv
<1>3. QED
  BY <1>1, <1>2, PromptHolds, InitBooted, EndInit, EndStep, StaleBooted, NextSteps, PTL DEF Spec

--------------------------------------------------------------------------------
(* An occurrence is fired once *)

LEMMA NowWriters ==
  ASSUME [Step]_vars
  PROVE  now' = now \/ Tick
BY Zenon DEF Step, CommandSteps, SchedulerTask, vars, heap, module, history, AddCommand,
   DeleteCommand, Command, StopIsStopped, StopDelay, StopTakeHandle, StopTimesOut, StopClear,
   StopDelete, AddAlarm, AddNoSlot, DeleteAlarm, DeleteFails, DeleteNotFound, StartCreate,
   StartSetRunning, TakeList, SortRefused, SortCount, SortRemove, SortSchedule, SortInsert,
   LoopNoJobs, LoopFire, LoopSleep, Wake, FireLock, FireLockTimesOut, FireRemove, FireSchedule,
   FireInsert, End, EndTimesOut, Launcher

LEMMA LaunchersWriters ==
  ASSUME [Step]_vars
  PROVE  launchers' \subseteq launchers \/ LoopFire
<1>1. launchers' = launchers \/ Launcher \/ LoopFire
  BY Zenon DEF Step, CommandSteps, SchedulerTask, vars, heap, module, history, AddCommand,
     DeleteCommand, Command, StopIsStopped, StopDelay, StopTakeHandle, StopTimesOut, StopClear,
     StopDelete, AddAlarm, AddNoSlot, DeleteAlarm, DeleteFails, DeleteNotFound, StartCreate,
     StartSetRunning, TakeList, SortRefused, SortCount, SortRemove, SortSchedule, SortInsert,
     LoopNoJobs, LoopSleep, Wake, FireLock, FireLockTimesOut, FireRemove, FireSchedule,
     FireInsert, End, EndTimesOut, Tick
<1>2. Launcher => launchers' \subseteq launchers
  BY Zenon DEF Launcher
<1>3. QED
  BY Zenon, <1>1, <1>2

(* The next execution of a job moves to the future, if it moves at all *)
LEMMA NextMovesOn ==
  ASSUME NeverCrontabs = {}, AnyInv, [Step]_vars, NEW j \in Pointers, jobs[j].state # "unused"
  PROVE  /\ jobs'[j].state # "unused"
         /\ jobs'[j].next = jobs[j].next \/ jobs'[j].next > now
         /\ FireSchedule /\ j = sched.job => jobs'[j].next > now
<1>1. TypeOK /\ SlotInv /\ DOMAIN jobs = Pointers /\ now \in Nat
  BY SMT DEF AnyInv, TypeOK
<1>2. AddAlarm => jobs'[j] = jobs[j]
  <2>1. SUFFICES ASSUME AddAlarm PROVE jobs'[j] = jobs[j]
    OBVIOUS
  <2>2. PICK i \in 1 .. Slots, k \in Pointers \cup {Null} : Added(i, k)
    BY Zenon, <2>1, AddEffect
  <2>3. k # j
    <3>1. Null \notin Pointers
      BY SMT DEF Null, Pointers
    <3>2. k # Null => jobs[k].state = "unused"
      BY Zenon, <2>2 DEF Added, Fresh
    <3>3. QED
      BY Zenon, <3>1, <3>2
  <2>4. QED
    BY Zenon, <2>2, <2>3 DEF Added
<1>3. DeleteAlarm => jobs'[j].next = jobs[j].next /\ jobs'[j].state # "unused"
  <2>1. SUFFICES ASSUME DeleteAlarm
                 PROVE  jobs'[j].next = jobs[j].next /\ jobs'[j].state # "unused"
    OBVIOUS
  <2>2. PICK i \in 1 .. Slots, k \in Pointers : Deleted(i, k)
    BY Zenon, <2>1, DeleteEffect
  <2>3. CASE k = j
    BY Zenon, <2>2, <2>3 DEF Deleted
  <2>4. CASE k # j
    BY Zenon, <2>2, <2>4 DEF Deleted
  <2>5. QED
    BY Zenon, <2>3, <2>4
<1>4. DeleteFails => jobs'[j].next = jobs[j].next /\ jobs'[j].state # "unused"
  <2>1. SUFFICES ASSUME DeleteFails
                 PROVE  jobs'[j].next = jobs[j].next /\ jobs'[j].state # "unused"
    OBVIOUS
  <2>2. CASE jobs' = jobs
    BY Zenon, <2>2
  <2>3. CASE \E k \in Pointers : jobs' = Freed(k)
    <3>1. PICK k \in Pointers : jobs' = Freed(k)
      BY Zenon, <2>3
    <3>2. CASE k = j
      BY Zenon, <1>1, <3>1, <3>2, FreedEffect
    <3>3. CASE k # j
      BY Zenon, <1>1, <3>1, <3>3, FreedEffect
    <3>4. QED
      BY Zenon, <3>2, <3>3
  <2>4. QED
    BY Zenon, <2>1, <2>2, <2>3, DeleteFailsEffect
<1>5. ASSUME SortSchedule \/ FireSchedule
      PROVE  /\ jobs'[j].state # "unused"
             /\ jobs'[j].next = jobs[j].next \/ jobs'[j].next > now
             /\ FireSchedule /\ j = sched.job => jobs'[j].next > now
  <2>1. PICK k \in AlarmJobs : Rescheduled(k) /\ (FireSchedule => k = sched.job)
    BY Zenon, <1>5, ReschedulesOne
  <2>2. CASE k = j
    <3>1. jobs[j].crontab \in Crontabs
      BY Zenon, <1>1 DEF SlotInv
    <3>2. CronNext(jobs[j].crontab, now) > now
      BY Zenon, <1>1, <3>1, NextIsLater
    <3>3. QED
      BY Zenon, <2>1, <2>2, <3>2 DEF Rescheduled
  <2>3. CASE k # j
    BY Zenon, <2>1, <2>3 DEF Rescheduled
  <2>4. QED
    BY Zenon, <2>2, <2>3
<1>6. CASE jobs' = jobs /\ ~FireSchedule
  BY Zenon, <1>6
<1>7. FireSchedule => ~AddAlarm /\ ~DeleteAlarm /\ ~DeleteFails
  <2>1. AddAlarm \/ DeleteAlarm \/ DeleteFails => sched.pc = "none"
    BY Zenon, EditsAlone
  <2>2. QED
    BY Zenon, <2>1 DEF FireSchedule
<1>8. CASE AddAlarm \/ DeleteAlarm \/ DeleteFails
  BY Zenon, <1>2, <1>3, <1>4, <1>7, <1>8
<1>9. QED
  BY Zenon, <1>5, <1>6, <1>8, JobsWriters

(* What is fired is the first job of the list, whose time has come *)
LEMMA FireEffect ==
  ASSUME AnyInv, LoopFire
  PROVE  LET o == [job |-> Head(list), at |-> jobs[Head(list)].next]
         IN /\ fired' = fired \cup {o} /\ launchers' = launchers \cup {o}
            /\ o.job = Head(list) /\ o.at = jobs[Head(list)].next /\ o.at <= now
            /\ jobs[o.job].state # "unused" /\ jobs' = jobs /\ now' = now
            /\ sched.pc = "loop" /\ sched'.pc = "lock" /\ sched'.job = o.job
<1>1. Head(list) \in AlarmJobs
  BY Zenon, HandsAreTyped DEF LoopFire, AnyInv
<1>2. jobs[Head(list)].state # "unused"
  BY Zenon, <1>1, AlarmJobIsTyped DEF AnyInv
<1>3. sched'.pc = "lock" /\ sched'.job = Head(list)
  BY Zenon, SchedEffect DEF SchedTakes
<1>4. now >= jobs[Head(list)].next => jobs[Head(list)].next <= now
  <2>1. Head(list) \in Pointers /\ TypeOK
    BY Zenon, <1>1, AlarmJobIsTyped DEF AnyInv
  <2>2. jobs[Head(list)].next \in Int /\ now \in Int
    BY SMT, <2>1 DEF TypeOK, JobType, Times
  <2>3. QED
    BY SMT, <2>2
<1>5. QED
  BY Zenon, <1>2, <1>3, <1>4 DEF LoopFire, heap

LEMMA OverKept ==
  ASSUME Prompt, NeverCrontabs = {}, PromptInv, OverInv, [Step]_vars
  PROVE  OverInv'
<1>1. AnyInv /\ RestInv /\ TypeOK /\ TypeOK'
  BY Zenon, TypeKept DEF PromptInv, AnyInv
<1>2. SUFFICES ASSUME NEW o \in fired'
               PROVE  /\ o.at <= now'
                      /\ jobs'[o.job].state # "unused"
                      /\ \/ o.at < jobs'[o.job].next
                         \/ sched'.pc \in {"lock", "remove", "schedule"} /\ sched'.job = o.job
  BY Zenon DEF OverInv
<1>3. o.job \in Pointers /\ o.at \in Int /\ now \in Int
  BY SMT, <1>1 DEF TypeOK, Times
<1>4. CASE o \notin fired
  BY Zenon, <1>1, <1>4, FiredWriters, FireEffect
<1>5. CASE o \in fired
  <2>1. o.at <= now /\ jobs[o.job].state # "unused"
    BY Zenon, <1>5 DEF OverInv
  <2>2. o.at <= now'
    BY SMT, <1>3, <2>1, NowWriters DEF Tick
  <2>3. /\ jobs'[o.job].state # "unused"
        /\ jobs'[o.job].next = jobs[o.job].next \/ jobs'[o.job].next > now
        /\ FireSchedule /\ o.job = sched.job => jobs'[o.job].next > now
    BY Zenon, <1>1, <1>3, <2>1, NextMovesOn
  <2>4. jobs'[o.job].next > now => o.at < jobs'[o.job].next
    <3>1. jobs'[o.job].next \in Int
      BY SMT, <1>1, <1>3 DEF TypeOK, JobType, Times
    <3>2. QED
      BY SMT, <1>3, <2>1, <3>1
  <2>5. CASE o.at < jobs[o.job].next
    BY Zenon, <2>1, <2>2, <2>3, <2>4, <2>5
  <2>6. CASE sched.pc \in {"lock", "remove", "schedule"} /\ sched.job = o.job
    <3>1. CASE sched' = sched
      BY Zenon, <2>2, <2>3, <2>6, <3>1
    <3>2. ~(StopDelete /\ sched' # sched) /\ ~StartCreate
      BY Zenon, <1>1, <2>6 DEF StopDelete, StartCreate, RestInv, Stopping, AtRest, AnyInv,
         ControlInv, AtEdit, Alive
    <3>3. CASE FireLock \/ FireRemove
      BY Zenon, <1>1, <2>2, <2>3, <2>6, <3>3, SchedEffect DEF SchedMoves
    <3>4. CASE FireSchedule
      BY Zenon, <2>2, <2>3, <2>4, <2>6, <3>4
    <3>5. sem # Dead
      BY Zenon, <1>1 DEF RestInv
    <3>6. SchedulerTask => TakeList \/ FireLock \/ FireRemove \/ FireSchedule
      BY Zenon, <2>6, <3>5 DEF SchedulerTask, SortRefused, SortCount, SortRemove, SortSchedule,
         SortInsert, LoopNoJobs, LoopFire, LoopSleep, Wake, FireLockTimesOut, FireInsert, End,
         EndTimesOut
    <3>7. TakeList => sched' = sched
      BY Zenon DEF TakeList
    <3>8. QED
      BY Zenon, <3>1, <3>2, <3>3, <3>4, <3>6, <3>7, SchedWriters
  <2>7. QED
    BY Zenon, <1>5, <2>5, <2>6 DEF OverInv
<1>6. QED
  BY Zenon, <1>4, <1>5

LEMMA OverInit == Booted => OverInv
BY Zenon DEF Booted, OverInv

LEMMA OverStep ==
  ASSUME Prompt, NeverCrontabs = {}
  PROVE  PromptInv /\ OverInv /\ [Step]_vars => OverInv'
BY Zenon, OverKept

LEMMA FiresStep ==
  PromptInv /\ OverInv /\ [Step]_vars =>
    [\A l \in launchers' \ launchers : l \notin fired /\ l.at <= now]_vars
<1>1. SUFFICES ASSUME PromptInv, OverInv, [Step]_vars, NEW l \in launchers' \ launchers
               PROVE  l \notin fired /\ l.at <= now
  BY Zenon
<1>2. AnyInv /\ TypeOK
  BY Zenon, <1>1 DEF PromptInv, AnyInv
<1>3. LoopFire
  BY Zenon, <1>1, LaunchersWriters
<1>4. /\ l.job = Head(list) /\ l.at = jobs[Head(list)].next /\ l.at <= now
      /\ sched.pc = "loop"
  BY Zenon, <1>1, <1>2, <1>3, FireEffect
<1>5. Head(list) \in Pointers
  BY Zenon, <1>2, <1>3, HandsAreTyped, AlarmJobIsTyped DEF LoopFire, AnyInv
<1>6. ~(l.at < jobs[l.job].next)
  <2>1. jobs[Head(list)].next \in Int
    BY SMT, <1>2, <1>5 DEF TypeOK, JobType, Times
  <2>2. QED
    BY SMT, <1>4, <2>1
<1>7. l \notin fired
  BY Zenon, <1>1, <1>4, <1>6 DEF OverInv
<1>8. QED
  BY Zenon, <1>4, <1>7

(* Whatever stops, edits and starts of the module come in between, an occurrence  *)
(* of a job starts one launcher and not before its time (cron.c:291 to 311, the   *)
(* launcher and the rescheduling; cron.c:164 cron_job_sort), if every crontab     *)
(* names dates and cron_stop waits long enough; CronAlarmNever.cfg shows a        *)
(* crontab that names none.                                                       *)
THEOREM FiresOccurrencesOnce ==
  ASSUME Prompt, NeverCrontabs = {}
  PROVE  Spec => FiresOnce
<1>1. PromptInv => TypeOK
  BY Zenon DEF PromptInv, AnyInv
<1>2. StopDeleteStale => [\A l \in launchers' \ launchers : l \notin fired /\ l.at <= now]_vars
  BY Zenon DEF StopDeleteStale
<1>3. QED
  BY <1>1, <1>2, PromptHolds, InitBooted, OverInit, OverStep, FiresStep, StaleBooted, NextSteps,
     PTL DEF Spec, FiresOnce
=============================================================================
