---------------------------- MODULE MqttLogProofs ----------------------------
(***************************************************************************)
(* The log buffer, for any number of loggers and any sizes: a message is   *)
(* in one pair of hands, delivered or dropped and never both, and logsend  *)
(* does not sleep over a message that nobody will announce.                *)
(***************************************************************************)
EXTENDS MqttLog, FiniteSetTheorems, WellFoundedInduction, TLAPS

--------------------------------------------------------------------------------
(* The oldest of a set of messages *)

Less == OpToRel(<, Nat)

(* A nonempty set of numbers has a smallest one *)
LEMMA Smallest ==
  ASSUME NEW S \in SUBSET Nat, S # {}
  PROVE  \E m \in S : \A n \in S : m <= n
<1>1. IsWellFoundedOn(Less, Nat)
  BY Zenon, NatLessThanWellFounded DEF Less
<1>2. PICK x \in S : \A y \in S : ~(<<y, x>> \in Less)
  BY Zenon, <1>1, WFMin
<1>3. \A y, z \in Nat : y < z => <<y, z>> \in Less
  BY DEF Less, OpToRel
<1>4. \A y \in S : ~(y < x)
  BY Zenon, <1>2, <1>3
<1>5. QED
  BY SMT, <1>4

(* OldestOf picks a message of the set, and none is older *)
LEMMA OldestIsFirst ==
  ASSUME NEW S \in SUBSET Nat, S # {}, NEW d
  PROVE  OldestOf(S, d) \in S /\ \A n \in S : OldestOf(S, d) <= n
<1>1. \E m \in S : \A n \in S : m <= n
  BY Zenon, Smallest
<1>2. QED
  BY Zenon, <1>1 DEF OldestOf

(* What a receive takes is ready and was written *)
LEMMA ReceivableIsReady ==
  ASSUME Receivable # None
  PROVE  Receivable \in Written /\ slot[Receivable] = "ready"
BY Zenon DEF Receivable, InState

(* Nothing is received only where every ready message waits behind one that is   *)
(* not complete, and if that is so nothing is received.                          *)
Behind == \A m \in InState({"ready"}) : \E a \in InState({"acquired"}) : a < m

LEMMA BehindAcquired ==
  ASSUME TypeOK
  PROVE  Receivable = None <=> Behind
<1> DEFINE S == InState({"acquired", "ready"})
<1>1. S \in SUBSET Nat /\ InState({"ready"}) \subseteq S /\ InState({"acquired"}) \subseteq S
      /\ S \subseteq InState({"ready"}) \cup InState({"acquired"})
  <2>1. Written \subseteq Nat
    BY SMT DEF TypeOK, Written
  <2>2. QED
    BY Zenon, <2>1 DEF InState
<1>2. None \notin S
  BY SMT DEF InState, Written, None, TypeOK
<1>3. CASE S = {}
  BY Zenon, <1>1, <1>3 DEF Behind, Receivable
<1>4. CASE S # {}
  <2> DEFINE m == OldestOf(S, None)
  <2>1. m \in S /\ \A n \in S : m <= n
    BY Zenon, <1>1, <1>4, OldestIsFirst
  <2>2. CASE m \in InState({"ready"})
    <3>1. Receivable = m
      BY Zenon, <2>2 DEF Receivable
    <3>2. \A a \in InState({"acquired"}) : ~(a < m)
      BY SMT, <1>1, <2>1
    <3>3. QED
      BY Zenon, <1>2, <2>1, <2>2, <3>1, <3>2 DEF Behind
  <2>3. CASE m \notin InState({"ready"})
    <3>1. Receivable = None
      BY Zenon, <2>3 DEF Receivable
    <3>2. m \in InState({"acquired"}) /\ \A n \in InState({"ready"}) : m <= n /\ m # n
      BY Zenon, <1>1, <2>1, <2>3
    <3>3. \A n \in InState({"ready"}) : m < n
      BY SMT, <1>1, <2>1, <3>2
    <3>4. QED
      BY Zenon, <3>1, <3>2, <3>3 DEF Behind
  <2>4. QED
    BY <2>2, <2>3
<1>5. QED
  BY <1>3, <1>4

--------------------------------------------------------------------------------
(* The inductive invariant *)

CallPCs == {"idle", "acquire", "drop", "return", "count", "complete", "notify", "abort"}

(* A task holds a slot while it fills it and while it drops it *)
CallHolds ==
  \A t \in Tasks :
    /\ call[t].msg = None <=> call[t].pc \notin {"return", "complete"}
    /\ CallAt(t, "return") => slot[call[t].msg] = "taken"
    /\ CallAt(t, "complete") => slot[call[t].msg] = "acquired"

LsHolds ==
  /\ ls.msg = None <=> ls.pc \notin {"queue", "return"}
  /\ ls.msg # None => slot[ls.msg] = "taken"
  /\ ls.pc = "return" => ls.msg \in delivered \cup dropped

SlotsUsed == \A m \in Msgs : slot[m] = "free" <=> m >= write

(* The fate of a message is settled when its slot is returned, or just before    *)
Fates ==
  \A m \in delivered \cup dropped : slot[m] = "returned" \/ (ls.pc = "return" /\ ls.msg = m)

(* logsend waits for the end of its own report *)
Reporting == ls.pc = "reporting" <=> call[LogSend].pc # "idle"

(* Every call under way has a slot left *)
Starters == {t \in Tasks : call[t].pc \in {"acquire", "drop", "return", "count"}}
Room == write + Started <= MaxMsg + 1

(* Every message that was taken out of the ring buffer is where it should be *)
Placed == CallHolds /\ LsHolds /\ SlotsUsed /\ Fates /\ Accounted

IInv == TypeOK /\ Room /\ Placed /\ Reporting

(* What a step does to the record of a call *)
LEMMA HoldEffect ==
  ASSUME TypeOK, NEW t \in Tasks, NEW m \in Msgs \cup {None}, NEW p \in CallPCs, Hold(t, m, p)
  PROVE  /\ call' \in [Tasks -> CallType] /\ call'[t].pc = p /\ call'[t].msg = m
         /\ \A u \in Tasks \ {t} : call'[u] = call[u]
BY SMT DEF TypeOK, CallType, CallPCs, Hold

LEMMA GotoEffect ==
  ASSUME TypeOK, NEW t \in Tasks, NEW p \in CallPCs, Goto(t, p)
  PROVE  /\ call' \in [Tasks -> CallType] /\ call'[t].pc = p /\ call'[t].msg = call[t].msg
         /\ \A u \in Tasks \ {t} : call'[u] = call[u]
BY SMT DEF TypeOK, CallType, CallPCs, Goto

LEMMA SetSlotEffect ==
  ASSUME TypeOK, NEW m \in Msgs, NEW s \in SlotStates, SetSlot(m, s)
  PROVE  /\ slot' \in [Msgs -> SlotStates] /\ slot'[m] = s
         /\ \A n \in Msgs \ {m} : slot'[n] = slot[n]
BY SMT DEF TypeOK, SetSlot

LEMMA LsGotoEffect ==
  ASSUME TypeOK, NEW p, LsGoto(p)
  PROVE  ls'.pc = p /\ ls'.msg = ls.msg
BY Zenon DEF TypeOK, LsType, LsGoto

LEMMA LsGotoType ==
  ASSUME TypeOK, NEW p \in {"wait", "online", "check", "report", "reporting", "reset", "receive", "queue", "return"}, LsGoto(p)
  PROVE  ls' \in LsType
BY SMT DEF TypeOK, LsType, LsGoto

--------------------------------------------------------------------------------
(* Room for every message that was started *)

LEMMA StartersFinite == IsFiniteSet(Starters) /\ Cardinality(Starters) \in Nat /\ Started = Cardinality(Starters)
<1>1. IsFiniteSet(Tasks)
  BY Zenon, FS_AddElement, MqttLogAssumption DEF Tasks
<1>2. Starters \subseteq Tasks
  BY Zenon DEF Starters
<1>3. IsFiniteSet(Starters)
  BY Zenon, <1>1, <1>2, FS_Subset
<1>4. QED
  BY Zenon, <1>3, FS_CardinalityType DEF Starters, Started

(* A call that has not acquired its slot finds one *)
LEMMA RoomLeft ==
  ASSUME TypeOK, Room, NEW t \in Starters
  PROVE  write \in Msgs
<1>1. Cardinality(Starters) # 0
  BY Zenon, StartersFinite, FS_EmptySet
<1>2. QED
  BY SMT, <1>1, StartersFinite, MqttLogAssumption DEF Room, TypeOK, Msgs

LEMMA RoomFrame ==
  ASSUME TypeOK, Room, Starters' \subseteq Starters, write' = write
  PROVE  Room'
<1>1. Started' = Cardinality(Starters') /\ IsFiniteSet(Starters')
  BY Zenon, StartersFinite, FS_Subset DEF Starters, Started
<1>2. Cardinality(Starters') <= Cardinality(Starters) /\ Cardinality(Starters') \in Nat
  BY Zenon, <1>1, StartersFinite, FS_Subset, FS_CardinalityType
<1>3. \A a, b \in Nat : b <= a /\ write + a <= MaxMsg + 1 => write + b <= MaxMsg + 1
  BY SMT, MqttLogAssumption DEF TypeOK
<1>4. QED
  BY Zenon, <1>1, <1>2, <1>3, StartersFinite DEF Room

LEMMA RoomBegin ==
  ASSUME TypeOK, Room, NEW t \in Tasks, BeginLog(t), write' = write
  PROVE  Room'
<1>1. Starters' = Starters \cup {t}
  BY Zenon, GotoEffect DEF BeginLog, Starters, CallPCs
<1>2. Started' = Cardinality(Starters \cup {t})
  BY Zenon, <1>1 DEF Starters, Started
<1>3. Cardinality(Starters \cup {t}) \in {Cardinality(Starters), Cardinality(Starters) + 1}
  BY Zenon, StartersFinite, FS_AddElement
<1>4. write + Started <= MaxMsg
  BY Zenon DEF BeginLog
<1>5. \A a \in Nat : \A b \in {a, a + 1} : write + a <= MaxMsg => write + b <= MaxMsg + 1
  BY SMT, MqttLogAssumption DEF TypeOK
<1>6. QED
  BY Zenon, <1>2, <1>3, <1>4, <1>5, StartersFinite DEF Room

LEMMA RoomAcquire ==
  ASSUME TypeOK, Room, NEW t \in Starters, Starters' = Starters \ {t}, write' = write + 1
  PROVE  Room'
<1>1. Started' = Cardinality(Starters \ {t})
  BY Zenon DEF Starters, Started
<1>2. Cardinality(Starters \ {t}) = Cardinality(Starters) - 1
  BY Zenon, StartersFinite, FS_RemoveElement
<1>3. \A a \in Nat : write + a <= MaxMsg + 1 => (write + 1) + (a - 1) <= MaxMsg + 1
  BY SMT, MqttLogAssumption DEF TypeOK
<1>4. QED
  BY Zenon, <1>1, <1>2, <1>3, StartersFinite DEF Room

LEMMA StartersShrink ==
  ASSUME NEW t \in Tasks, \A u \in Tasks \ {t} : call'[u] = call[u],
         call'[t].pc \in {"acquire", "drop", "return", "count"}
           => call[t].pc \in {"acquire", "drop", "return", "count"}
  PROVE  Starters' \subseteq Starters
BY Zenon DEF Starters

LEMMA ReportingFrame ==
  ASSUME Reporting, NEW t \in Tasks, \A u \in Tasks \ {t} : call'[u] = call[u],
         call'[t].pc = "idle" <=> call[t].pc = "idle", ls' = ls
  PROVE  Reporting'
BY Zenon DEF Reporting, Tasks

--------------------------------------------------------------------------------
(* Steps that take no slot and give none back *)

Holding == {"return", "complete"}
LsHolding == {"queue", "return"}

LEMMA PlacedFrame ==
  ASSUME Placed, UNCHANGED <<ringVars, delivered, dropped>>, ls'.msg = ls.msg,
         ls'.pc = ls.pc \/ (ls.pc \notin LsHolding /\ ls'.pc \notin LsHolding),
         \A t \in Tasks : /\ call'[t].msg = call[t].msg
                          /\ \/ call'[t].pc = call[t].pc
                             \/ call[t].pc \notin Holding /\ call'[t].pc \notin Holding
  PROVE  Placed'
<1>1. CallHolds'
  BY Zenon DEF Placed, CallHolds, CallAt, Holding, ringVars
<1>2. LsHolds' /\ SlotsUsed' /\ Fates'
  BY Zenon DEF Placed, LsHolds, LsHolding, SlotsUsed, Fates, ringVars
<1>3. InHand' = InHand
  BY Zenon DEF InHand
<1>4. Accounted'
  BY Zenon, <1>3 DEF Placed, Accounted, InState, Written, ringVars
<1>5. QED
  BY Zenon, <1>1, <1>2, <1>4 DEF Placed

LEMMA CallMoves ==
  ASSUME TypeOK, Placed, NEW t \in Tasks, NEW p \in CallPCs \ Holding, Goto(t, p),
         call[t].pc \notin Holding, UNCHANGED <<ringVars, delivered, dropped>>, ls'.msg = ls.msg,
         ls'.pc = ls.pc \/ (ls.pc \notin LsHolding /\ ls'.pc \notin LsHolding)
  PROVE  Placed'
<1>1. /\ call'[t].pc = p /\ call'[t].msg = call[t].msg
      /\ \A u \in Tasks \ {t} : call'[u] = call[u]
  BY Zenon, GotoEffect
<1>2. \A u \in Tasks : /\ call'[u].msg = call[u].msg
                       /\ \/ call'[u].pc = call[u].pc
                          \/ call[u].pc \notin Holding /\ call'[u].pc \notin Holding
  BY Zenon, <1>1
<1>3. QED
  BY Zenon, <1>2, PlacedFrame

LEMMA LsMoves ==
  ASSUME TypeOK, Placed, NEW p, p \notin LsHolding, LsGoto(p), ls.pc \notin LsHolding,
         UNCHANGED <<ringVars, call, delivered, dropped>>
  PROVE  Placed'
<1>1. ls'.pc = p /\ ls'.msg = ls.msg
  BY Zenon, LsGotoEffect
<1>2. QED
  BY Zenon, <1>1, PlacedFrame

--------------------------------------------------------------------------------
(* Steps that take a slot or give one back *)

(* What is in hand stays in hand, but for what the task that moves has in hand *)
LEMMA InHandBut ==
  ASSUME NEW t \in Tasks, \A u \in Tasks \ {t} : call'[u] = call[u], ls'.msg = ls.msg
  PROVE  \A n \in InHand : n # call[t].msg => n \in InHand'
BY Zenon DEF InHand

LEMMA LsInHandBut ==
  ASSUME call' = call
  PROVE  \A n \in InHand : n # ls.msg => n \in InHand'
BY Zenon DEF InHand

LEMMA AcquirePlaced ==
  ASSUME TypeOK, Placed, NEW t \in Tasks, write \in Msgs, Acquire(t)
  PROVE  Placed'
<1>1. /\ call'[t].pc = "complete" /\ call'[t].msg = write
      /\ \A u \in Tasks \ {t} : call'[u] = call[u]
  BY Zenon, HoldEffect DEF Acquire, CallPCs
<1>2. slot'[write] = "acquired" /\ \A n \in Msgs \ {write} : slot'[n] = slot[n]
  BY Zenon, SetSlotEffect DEF Acquire, SlotStates
<1>3. write' = write + 1 /\ UNCHANGED <<ls, delivered, dropped>> /\ call[t].pc = "acquire"
  BY Zenon DEF Acquire, CallAt, history
<1>4. slot[write] = "free"
  BY SMT DEF Placed, SlotsUsed, Msgs
<1>5. write \notin delivered \cup dropped /\ ls.msg # write /\ \A u \in Tasks : call[u].msg # write
  BY SMT, <1>4 DEF Placed, Fates, LsHolds, CallHolds, CallAt, TypeOK, CallType, LsType, Msgs, None
<1>6. CallHolds'
  BY SMT, <1>1, <1>2, <1>5 DEF Placed, CallHolds, CallAt, TypeOK, CallType, Msgs, None
<1>7. LsHolds' /\ Fates'
  BY SMT, <1>2, <1>3, <1>5 DEF Placed, LsHolds, Fates, TypeOK, LsType, Msgs, None
<1>8. SlotsUsed'
  BY SMT, <1>2, <1>3, <1>4 DEF Placed, SlotsUsed, TypeOK, Msgs
<1>9. Accounted'
  <2>1. \A m \in Written' : m # write => m \in Written /\ slot'[m] = slot[m]
    <3>1. \A m \in 1 .. (write + 1) - 1 : m # write => m \in 1 .. write - 1 /\ m \in Msgs \ {write}
      BY SMT, MqttLogAssumption DEF TypeOK, Msgs
    <3>2. QED
      BY Zenon, <1>2, <1>3, <3>1 DEF Written
  <2>2. \A m \in InHand : m # None => m \in InHand'
    <3>1. call[t].msg = None
      BY Zenon, <1>3 DEF Placed, CallHolds
    <3>2. QED
      BY Zenon, <1>1, <1>3, <3>1, InHandBut
  <2>3. write \in InHand'
    BY Zenon, <1>1 DEF InHand
  <2>4. \A m \in InState({"returned"})' : m \in delivered' \cup dropped'
    BY SMT, <1>2, <1>3, <2>1 DEF InState, Placed, Accounted
  <2>5. \A m \in InState({"acquired", "taken"})' : m \in InHand'
    BY SMT, <2>1, <2>2, <2>3 DEF InState, Placed, Accounted, Written, None, TypeOK
  <2>6. \A u, v \in Tasks : u # v /\ call'[u].msg = call'[v].msg => call'[u].msg = None
    BY Zenon, <1>1, <1>5 DEF Placed, Accounted
  <2>7. \A u \in Tasks : call'[u].msg = ls'.msg => ls'.msg = None
    BY Zenon, <1>1, <1>3, <1>5 DEF Placed, Accounted
  <2>8. QED
    BY Zenon, <1>3, <2>4, <2>5, <2>6, <2>7 DEF Placed, Accounted
<1>10. QED
  BY Zenon, <1>6, <1>7, <1>8, <1>9 DEF Placed

LEMMA DropReceivePlaced ==
  ASSUME TypeOK, Placed, NEW t \in Tasks, NEW m \in Msgs, m \in Written, slot[m] = "ready",
         call[t].pc = "drop", Hold(t, m, "return"), SetSlot(m, "taken"),
         write' = write, ls' = ls, delivered' = delivered, dropped' = dropped
  PROVE  Placed'
<1>1. /\ call'[t].pc = "return" /\ call'[t].msg = m
      /\ \A u \in Tasks \ {t} : call'[u] = call[u]
  BY Zenon, HoldEffect DEF CallPCs
<1>2. slot'[m] = "taken" /\ \A n \in Msgs \ {m} : slot'[n] = slot[n]
  BY Zenon, SetSlotEffect DEF SlotStates
<1>3. m \notin delivered \cup dropped /\ ls.msg # m /\ \A u \in Tasks : call[u].msg # m
  BY SMT DEF Placed, Fates, LsHolds, CallHolds, CallAt, TypeOK, CallType, LsType, Msgs, None
<1>4. ls'.msg = ls.msg
  BY Zenon
<1>5. CallHolds'
  BY SMT, <1>1, <1>2, <1>3 DEF Placed, CallHolds, CallAt, TypeOK, CallType, Msgs, None
<1>6. LsHolds' /\ Fates'
  BY SMT, <1>2, <1>3 DEF Placed, LsHolds, Fates, TypeOK, LsType, Msgs, None
<1>7. SlotsUsed'
  BY SMT, <1>2 DEF Placed, SlotsUsed, TypeOK, Msgs
<1>8. Accounted'
  <2>1. Written' = Written /\ \A n \in Written : n # m => slot'[n] = slot[n]
    BY SMT, <1>2, MqttLogAssumption DEF Written, TypeOK, Msgs
  <2>2. \A n \in InHand : n # None => n \in InHand'
    <3>1. call[t].msg = None
      BY Zenon DEF Placed, CallHolds
    <3>2. QED
      BY Zenon, <1>1, <1>4, <3>1, InHandBut
  <2>3. m \in InHand'
    BY Zenon, <1>1 DEF InHand
  <2>4. \A n \in InState({"returned"})' : n \in delivered' \cup dropped'
    BY SMT, <1>2, <2>1 DEF InState, Placed, Accounted
  <2>5. \A n \in InState({"acquired", "taken"})' : n \in InHand'
    BY SMT, <2>1, <2>2, <2>3 DEF InState, Placed, Accounted, Written, None, TypeOK
  <2>6. \A u, v \in Tasks : u # v /\ call'[u].msg = call'[v].msg => call'[u].msg = None
    <3>1. \A u, v \in Tasks : u # v /\ call[u].msg = call[v].msg => call[u].msg = None
      BY Zenon DEF Placed, Accounted
    <3>2. \A u \in Tasks : u # t => call'[u].msg = call[u].msg /\ call'[u].msg # m
      BY Zenon, <1>1, <1>3
    <3>3. SUFFICES ASSUME NEW u \in Tasks, NEW v \in Tasks, u # v, call'[u].msg = call'[v].msg
                   PROVE  call'[u].msg = None
      OBVIOUS
    <3>4. u # t /\ v # t
      BY Zenon, <1>1, <3>2, <3>3
    <3>5. QED
      BY Zenon, <3>1, <3>2, <3>3, <3>4
  <2>7. \A u \in Tasks : call'[u].msg = ls'.msg => ls'.msg = None
    <3>1. \A u \in Tasks : call[u].msg = ls.msg => ls.msg = None
      BY Zenon DEF Placed, Accounted
    <3>2. QED
      BY Zenon, <1>1, <1>3, <1>4, <3>1
  <2>8. delivered' \cap dropped' = {}
    BY Zenon DEF Placed, Accounted
  <2>9. QED
    BY Zenon, <2>4, <2>5, <2>6, <2>7, <2>8 DEF Accounted
<1>9. QED
  BY Zenon, <1>5, <1>6, <1>7, <1>8 DEF Placed


(* A task gives up the message m it has in hand: it is ready, or dropped *)
LEMMA GiveUpPlaced ==
  ASSUME TypeOK, Placed, NEW t \in Tasks, NEW m, m = call[t].msg, call[t].pc \in Holding,
         NEW p \in CallPCs \ Holding, Hold(t, None, p), NEW s \in {"ready", "returned"}, SetSlot(m, s),
         s = "returned" => call[t].pc = "return",
         write' = write, ls' = ls, delivered' = delivered,
         dropped' = IF s = "returned" THEN dropped \cup {m} ELSE dropped
  PROVE  Placed'
<1>1. /\ call'[t].pc = p /\ call'[t].msg = None
      /\ \A u \in Tasks \ {t} : call'[u] = call[u]
  BY Zenon, HoldEffect
<1>2. m \in Msgs
  BY SMT DEF TypeOK, CallType, Placed, CallHolds, Holding, Msgs
<1>3. slot'[m] = s /\ \A n \in Msgs \ {m} : slot'[n] = slot[n]
  BY Zenon, <1>2, SetSlotEffect DEF SlotStates
<1>4. \A u \in Tasks \ {t} : call[u].msg # m
  BY SMT, <1>2 DEF Placed, Accounted, Msgs, None
<1>5. ls.msg # m
  BY SMT, <1>2 DEF Placed, Accounted, Msgs, None
<1>6. slot[m] \in {"acquired", "taken"} /\ (s = "returned" => slot[m] = "taken")
  BY Zenon DEF Placed, CallHolds, CallAt, Holding
<1>7. m \notin delivered \cup dropped
  BY SMT, <1>5, <1>6 DEF Placed, Fates
<1>8. CallHolds'
  BY SMT, <1>1, <1>3, <1>4 DEF Placed, CallHolds, CallAt, TypeOK, CallType, Holding, Msgs, None
<1>9. LsHolds'
  BY SMT, <1>3, <1>5 DEF Placed, LsHolds, TypeOK, LsType, Msgs, None
<1>10. Fates'
  BY SMT, <1>3, <1>7 DEF Placed, Fates, TypeOK, Msgs
<1>11. SlotsUsed'
  BY SMT, <1>2, <1>3, <1>6 DEF Placed, SlotsUsed, TypeOK, Msgs
<1>12. ls'.msg = ls.msg
  BY Zenon
<1>13. Accounted'
  <2>1. Written' = Written /\ \A n \in Written : n # m => slot'[n] = slot[n]
    BY SMT, <1>3, MqttLogAssumption DEF Written, TypeOK, Msgs
  <2>2. \A n \in InHand : n # m => n \in InHand'
    BY Zenon, <1>1, <1>12, InHandBut
  <2>3. \A n \in InState({"returned"})' : n \in delivered' \cup dropped'
    BY SMT, <1>3, <2>1 DEF InState, Placed, Accounted
  <2>4. \A n \in InState({"acquired", "taken"})' : n \in InHand'
    BY SMT, <1>3, <2>1, <2>2 DEF InState, Placed, Accounted
  <2>5. \A u, v \in Tasks : u # v /\ call'[u].msg = call'[v].msg => call'[u].msg = None
    <3>1. \A u, v \in Tasks : u # v /\ call[u].msg = call[v].msg => call[u].msg = None
      BY Zenon DEF Placed, Accounted
    <3>2. QED
      BY Zenon, <1>1, <3>1
  <2>6. \A u \in Tasks : call'[u].msg = ls'.msg => ls'.msg = None
    <3>1. \A u \in Tasks : call[u].msg = ls.msg => ls.msg = None
      BY Zenon DEF Placed, Accounted
    <3>2. QED
      BY Zenon, <1>1, <1>12, <3>1
  <2>7. delivered' \cap dropped' = {}
    <3>1. delivered \cap dropped = {}
      BY Zenon DEF Placed, Accounted
    <3>2. QED
      BY SMT, <1>7, <3>1
  <2>8. QED
    BY Zenon, <2>3, <2>4, <2>5, <2>6, <2>7 DEF Accounted
<1>14. QED
  BY Zenon, <1>8, <1>9, <1>10, <1>11, <1>13 DEF Placed

LEMMA LsReceivePlaced ==
  ASSUME TypeOK, Placed, NEW m \in Msgs, m \in Written, slot[m] = "ready", ls.pc = "receive",
         ls' = [pc |-> "queue", msg |-> m], SetSlot(m, "taken"),
         write' = write, call' = call, delivered' = delivered, dropped' = dropped
  PROVE  Placed'
<1>1. ls'.pc = "queue" /\ ls'.msg = m
  BY Zenon
<1>2. slot'[m] = "taken" /\ \A n \in Msgs \ {m} : slot'[n] = slot[n]
  BY Zenon, SetSlotEffect DEF SlotStates
<1>3. m \notin delivered \cup dropped /\ \A u \in Tasks : call[u].msg # m
  BY SMT DEF Placed, Fates, CallHolds, CallAt, TypeOK, CallType, Msgs, None
<1>4. ls.msg = None /\ m # None
  BY SMT DEF Placed, LsHolds, Msgs, None
<1>5. CallHolds'
  BY SMT, <1>2, <1>3 DEF Placed, CallHolds, CallAt, TypeOK, CallType, Msgs, None
<1>6. LsHolds'
  BY SMT, <1>1, <1>2, <1>4 DEF LsHolds
<1>7. Fates'
  BY SMT, <1>2, <1>3 DEF Placed, Fates, TypeOK, Msgs
<1>8. SlotsUsed'
  BY SMT, <1>2 DEF Placed, SlotsUsed, TypeOK, Msgs
<1>9. Accounted'
  <2>1. Written' = Written /\ \A n \in Written : n # m => slot'[n] = slot[n]
    BY SMT, <1>2, MqttLogAssumption DEF Written, TypeOK, Msgs
  <2>2. \A n \in InHand : n # None => n \in InHand'
    BY Zenon, <1>4, LsInHandBut
  <2>3. m \in InHand'
    BY Zenon, <1>1 DEF InHand
  <2>4. \A n \in InState({"returned"})' : n \in delivered' \cup dropped'
    BY SMT, <1>2, <2>1 DEF InState, Placed, Accounted
  <2>5. \A n \in InState({"acquired", "taken"})' : n \in InHand'
    BY SMT, <2>1, <2>2, <2>3 DEF InState, Placed, Accounted, Written, None, TypeOK
  <2>6. \A u, v \in Tasks : u # v /\ call'[u].msg = call'[v].msg => call'[u].msg = None
    BY Zenon DEF Placed, Accounted
  <2>7. \A u \in Tasks : call'[u].msg = ls'.msg => ls'.msg = None
    BY Zenon, <1>1, <1>3
  <2>8. delivered' \cap dropped' = {}
    BY Zenon DEF Placed, Accounted
  <2>9. QED
    BY Zenon, <2>4, <2>5, <2>6, <2>7, <2>8 DEF Accounted
<1>10. QED
  BY Zenon, <1>5, <1>6, <1>7, <1>8, <1>9 DEF Placed

(* The message goes to the queue or, too large for it, on the floor *)
LEMMA LsQueuePlaced ==
  ASSUME TypeOK, Placed, ls.pc = "queue", LsGoto("return"), UNCHANGED ringVars, call' = call,
         \/ delivered' = delivered \cup {ls.msg} /\ dropped' = dropped
         \/ delivered' = delivered /\ dropped' = dropped \cup {ls.msg}
  PROVE  Placed'
<1>1. ls'.pc = "return" /\ ls'.msg = ls.msg /\ slot' = slot /\ write' = write
  BY Zenon, LsGotoEffect DEF ringVars
<1>2. slot[ls.msg] = "taken" /\ ls.msg # None
  BY Zenon DEF Placed, LsHolds
<1>3. ls.msg \notin delivered \cup dropped
  BY SMT, <1>2 DEF Placed, Fates
<1>4. delivered' \cup dropped' = (delivered \cup dropped) \cup {ls.msg}
  BY SMT
<1>5. CallHolds' /\ SlotsUsed'
  BY Zenon, <1>1 DEF Placed, CallHolds, CallAt, SlotsUsed
<1>6. LsHolds'
  BY SMT, <1>1, <1>2, <1>4 DEF LsHolds
<1>7. Fates'
  BY SMT, <1>1, <1>2, <1>4 DEF Placed, Fates
<1>8. Accounted'
  <2>1. InHand' = InHand /\ InState({"returned"})' = InState({"returned"})
        /\ InState({"acquired", "taken"})' = InState({"acquired", "taken"})
    BY Zenon, <1>1 DEF InHand, InState, Written
  <2>2. \A n \in InState({"returned"})' : n \in delivered' \cup dropped'
    BY SMT, <1>4, <2>1 DEF Placed, Accounted
  <2>3. \A n \in InState({"acquired", "taken"})' : n \in InHand'
    BY Zenon, <2>1 DEF Placed, Accounted
  <2>4. delivered' \cap dropped' = {}
    <3>1. delivered \cap dropped = {}
      BY Zenon DEF Placed, Accounted
    <3>2. QED
      BY SMT, <1>3, <3>1
  <2>5. \A u, v \in Tasks : u # v /\ call'[u].msg = call'[v].msg => call'[u].msg = None
    BY Zenon DEF Placed, Accounted
  <2>6. \A u \in Tasks : call'[u].msg = ls'.msg => ls'.msg = None
    BY Zenon, <1>1 DEF Placed, Accounted
  <2>7. QED
    BY Zenon, <2>2, <2>3, <2>4, <2>5, <2>6 DEF Accounted
<1>9. QED
  BY Zenon, <1>5, <1>6, <1>7, <1>8 DEF Placed

LEMMA LsReturnPlaced ==
  ASSUME TypeOK, Placed, ls.pc = "return", NEW m, m = ls.msg, SetSlot(m, "returned"),
         ls' = [pc |-> "online", msg |-> None],
         write' = write, call' = call, delivered' = delivered, dropped' = dropped
  PROVE  Placed'
<1>1. ls'.pc = "online" /\ ls'.msg = None
  BY Zenon
<1>2. m \in Msgs /\ slot[m] = "taken" /\ m \in delivered \cup dropped /\ m # None
  BY SMT DEF Placed, LsHolds, TypeOK, LsType, Msgs, None
<1>3. slot'[m] = "returned" /\ \A n \in Msgs \ {m} : slot'[n] = slot[n]
  BY Zenon, <1>2, SetSlotEffect DEF SlotStates
<1>4. \A u \in Tasks : call[u].msg # m
  BY Zenon, <1>2 DEF Placed, Accounted
<1>5. CallHolds'
  BY SMT, <1>3, <1>4 DEF Placed, CallHolds, CallAt, TypeOK, CallType, Msgs, None
<1>6. LsHolds'
  BY SMT, <1>1 DEF LsHolds
<1>7. Fates'
  BY SMT, <1>3 DEF Placed, Fates, TypeOK, Msgs
<1>8. SlotsUsed'
  BY SMT, <1>2, <1>3 DEF Placed, SlotsUsed, TypeOK, Msgs
<1>9. Accounted'
  <2>1. Written' = Written /\ \A n \in Written : n # m => slot'[n] = slot[n]
    BY SMT, <1>3, MqttLogAssumption DEF Written, TypeOK, Msgs
  <2>2. \A n \in InHand : n # m => n \in InHand'
    BY Zenon, LsInHandBut
  <2>3. \A n \in InState({"returned"})' : n \in delivered' \cup dropped'
    BY SMT, <1>2, <2>1 DEF InState, Placed, Accounted
  <2>4. \A n \in InState({"acquired", "taken"})' : n \in InHand'
    BY SMT, <1>3, <2>1, <2>2 DEF InState, Placed, Accounted
  <2>5. \A u, v \in Tasks : u # v /\ call'[u].msg = call'[v].msg => call'[u].msg = None
    BY Zenon DEF Placed, Accounted
  <2>6. \A u \in Tasks : call'[u].msg = ls'.msg => ls'.msg = None
    BY Zenon, <1>1
  <2>7. delivered' \cap dropped' = {}
    BY Zenon DEF Placed, Accounted
  <2>8. QED
    BY Zenon, <2>3, <2>4, <2>5, <2>6, <2>7 DEF Accounted
<1>10. QED
  BY Zenon, <1>5, <1>6, <1>7, <1>8, <1>9 DEF Placed


--------------------------------------------------------------------------------
(* The steps of a call *)

LEMMA QueueMsgIInv ==
  ASSUME IInv, NEW t \in Tasks, QueueMsg(t)
  PROVE  IInv'
<1> USE DEF IInv
<1>1. CASE Acquire(t)
  <2>1. call[t].pc = "acquire" /\ t \in Starters
    BY Zenon, <1>1 DEF Acquire, CallAt, Starters
  <2>2. write \in Msgs
    BY Zenon, <2>1, RoomLeft
  <2>3. /\ call' \in [Tasks -> CallType] /\ call'[t].pc = "complete"
        /\ \A u \in Tasks \ {t} : call'[u] = call[u]
    BY Zenon, <1>1, <2>2, HoldEffect DEF Acquire, CallPCs
  <2>4. slot' \in [Msgs -> SlotStates] /\ write' = write + 1 /\ ls' = ls
    BY Zenon, <1>1, <2>2, SetSlotEffect DEF Acquire, SlotStates
  <2>5. write' \in 1 .. MaxMsg + 1
    BY SMT, <2>2, <2>4, MqttLogAssumption DEF Msgs
  <2>6. TypeOK'
    BY Zenon, <1>1, <2>3, <2>4, <2>5 DEF Acquire, TypeOK, envVars, history
  <2>7. Starters' = Starters \ {t}
    BY Zenon, <2>1, <2>3 DEF Starters
  <2>8. Room'
    BY Zenon, <2>1, <2>4, <2>7, RoomAcquire
  <2>9. QED
    BY Zenon, <1>1, <2>1, <2>2, <2>3, <2>4, <2>6, <2>8, AcquirePlaced, ReportingFrame
<1>2. CASE FindFull(t) \/ DropFails(t) \/ DropCount(t)
  <2>1. PICK p \in {"drop", "abort", "acquire"} : Goto(t, p) /\ call[t].pc = IF p = "acquire" THEN "count" ELSE IF p = "drop" THEN "acquire" ELSE "drop"
    BY Zenon, <1>2 DEF FindFull, DropFails, DropCount, CallAt
  <2>2. p \in CallPCs \ Holding /\ call[t].pc \notin Holding /\ p # "idle" /\ call[t].pc # "idle"
    BY Zenon, <2>1 DEF CallPCs, Holding
  <2>3. /\ call' \in [Tasks -> CallType] /\ call'[t].pc = p
        /\ \A u \in Tasks \ {t} : call'[u] = call[u]
    BY Zenon, <2>1, <2>2, GotoEffect
  <2>4. UNCHANGED <<ringVars, delivered, dropped>> /\ ls' = ls /\ write' = write
    BY Zenon, <1>2 DEF FindFull, DropFails, DropCount, history, ringVars
  <2>5. discarded' \in Nat /\ counted' \in Nat
    BY SMT, <1>2 DEF FindFull, DropFails, DropCount, TypeOK, history
  <2>6. TypeOK'
    BY Zenon, <1>2, <2>3, <2>4, <2>5 DEF FindFull, DropFails, DropCount, TypeOK, ringVars, envVars, history
  <2>7. Room'
    BY Zenon, <2>1, <2>3, <2>4, StartersShrink, RoomFrame
  <2>8. Placed'
    BY Zenon, <2>1, <2>2, <2>4, CallMoves
  <2>9. QED
    BY Zenon, <2>2, <2>3, <2>4, <2>6, <2>7, <2>8, ReportingFrame
<1>3. CASE DropReceive(t)
  <2>1. Receivable \in Written /\ slot[Receivable] = "ready" /\ call[t].pc = "drop"
    BY Zenon, <1>3, ReceivableIsReady DEF DropReceive, CallAt
  <2>2. Receivable \in Msgs
    BY SMT, <2>1, MqttLogAssumption DEF TypeOK, Written, Msgs
  <2>3. /\ call' \in [Tasks -> CallType] /\ call'[t].pc = "return"
        /\ \A u \in Tasks \ {t} : call'[u] = call[u]
    BY Zenon, <1>3, <2>2, HoldEffect DEF DropReceive, CallPCs
  <2>4. slot' \in [Msgs -> SlotStates] /\ write' = write /\ ls' = ls
        /\ delivered' = delivered /\ dropped' = dropped
    BY Zenon, <1>3, <2>2, SetSlotEffect DEF DropReceive, SlotStates, history
  <2>5. TypeOK'
    BY Zenon, <1>3, <2>3, <2>4 DEF DropReceive, TypeOK, envVars, history
  <2>6. Room'
    BY Zenon, <2>1, <2>3, <2>4, StartersShrink, RoomFrame
  <2>7. Placed'
    BY Zenon, <1>3, <2>1, <2>2, <2>4, DropReceivePlaced DEF DropReceive
  <2>8. QED
    BY Zenon, <2>1, <2>3, <2>4, <2>5, <2>6, <2>7, ReportingFrame
<1>4. CASE DropReturn(t)
  <2>1. /\ Hold(t, None, "count") /\ SetSlot(call[t].msg, "returned") /\ call[t].pc = "return"
        /\ write' = write /\ ls' = ls /\ delivered' = delivered
        /\ dropped' = dropped \cup {call[t].msg}
    BY Zenon, <1>4 DEF DropReturn, CallAt, history
  <2>2. /\ call' \in [Tasks -> CallType] /\ call'[t].pc = "count"
        /\ \A u \in Tasks \ {t} : call'[u] = call[u]
    BY Zenon, <2>1, HoldEffect DEF CallPCs
  <2>3. call[t].msg \in Msgs
    BY SMT, <2>1 DEF TypeOK, CallType, Placed, CallHolds, Msgs
  <2>4. slot' \in [Msgs -> SlotStates] /\ dropped' \subseteq Msgs
    BY Zenon, <2>1, <2>3, SetSlotEffect DEF SlotStates, TypeOK
  <2>5. TypeOK'
    BY Zenon, <1>4, <2>1, <2>2, <2>4 DEF DropReturn, TypeOK, envVars, history
  <2>6. Room'
    BY Zenon, <2>1, <2>2, StartersShrink, RoomFrame
  <2>7. Placed'
    BY Zenon, <2>1, GiveUpPlaced DEF CallPCs, Holding
  <2>8. QED
    BY Zenon, <2>1, <2>2, <2>5, <2>6, <2>7, ReportingFrame
<1>5. CASE Complete(t)
  <2>1. /\ Hold(t, None, "notify") /\ SetSlot(call[t].msg, "ready") /\ call[t].pc = "complete"
        /\ write' = write /\ ls' = ls /\ delivered' = delivered
        /\ dropped' = dropped
    BY Zenon, <1>5 DEF Complete, CallAt, history
  <2>2. /\ call' \in [Tasks -> CallType] /\ call'[t].pc = "notify"
        /\ \A u \in Tasks \ {t} : call'[u] = call[u]
    BY Zenon, <2>1, HoldEffect DEF CallPCs
  <2>3. call[t].msg \in Msgs
    BY SMT, <2>1 DEF TypeOK, CallType, Placed, CallHolds, Msgs
  <2>4. slot' \in [Msgs -> SlotStates] /\ dropped' \subseteq Msgs
    BY Zenon, <2>1, <2>3, SetSlotEffect DEF SlotStates, TypeOK
  <2>5. TypeOK'
    BY Zenon, <1>5, <2>1, <2>2, <2>4 DEF Complete, TypeOK, envVars, history
  <2>6. Room'
    BY Zenon, <2>1, <2>2, StartersShrink, RoomFrame
  <2>7. Placed'
    BY Zenon, <2>1, GiveUpPlaced DEF CallPCs, Holding
  <2>8. QED
    BY Zenon, <2>1, <2>2, <2>5, <2>6, <2>7, ReportingFrame
<1>6. CASE Notify(t)
  <2>1. call[t].pc = "notify" /\ Goto(t, "idle") /\ UNCHANGED <<ringVars, delivered, dropped>> /\ write' = write
    BY Zenon, <1>6 DEF Notify, CallAt, ringVars, history
  <2>2. /\ call' \in [Tasks -> CallType] /\ call'[t].pc = "idle"
        /\ \A u \in Tasks \ {t} : call'[u] = call[u]
    BY Zenon, <2>1, GotoEffect DEF CallPCs
  <2>3. ls' \in LsType /\ ls'.msg = ls.msg /\ (t = LogSend => ls'.pc = "reset") /\ (t # LogSend => ls' = ls)
    BY SMT, <1>6 DEF Notify, TypeOK, LsType
  <2>4. t = LogSend => ls.pc = "reporting"
    BY Zenon, <2>1 DEF Reporting
  <2>5. ls'.pc = ls.pc \/ (ls.pc \notin LsHolding /\ ls'.pc \notin LsHolding)
    BY Zenon, <2>3, <2>4 DEF LsHolding
  <2>6. TypeOK'
    BY Zenon, <1>6, <2>2, <2>3 DEF Notify, TypeOK, ringVars, envVars, history
  <2>7. Room'
    BY Zenon, <2>1, <2>2, StartersShrink, RoomFrame
  <2>8. Placed'
    BY Zenon, <2>1, <2>3, <2>5, CallMoves DEF CallPCs, Holding
  <2>9. Reporting'
    BY Zenon, <2>2, <2>3 DEF Reporting, Tasks
  <2>10. QED
    BY Zenon, <2>6, <2>7, <2>8, <2>9
<1>7. QED
  BY Zenon, <1>1, <1>2, <1>3, <1>4, <1>5, <1>6 DEF QueueMsg


LEMMA LogIInv ==
  ASSUME IInv, NEW t \in Loggers, Log(t)
  PROVE  IInv'
<1> USE DEF IInv
<1>1. /\ t \in Tasks /\ t # LogSend /\ call[t].pc = "idle" /\ Goto(t, "acquire")
      /\ UNCHANGED <<ringVars, delivered, dropped>> /\ write' = write /\ ls' = ls /\ BeginLog(t)
  BY Zenon, MqttLogAssumption DEF Log, BeginLog, CallAt, Tasks, LogSend, ringVars, history
<1>2. /\ call' \in [Tasks -> CallType] /\ \A u \in Tasks \ {t} : call'[u] = call[u]
  BY Zenon, <1>1, GotoEffect DEF CallPCs
<1>3. TypeOK'
  BY Zenon, <1>1, <1>2 DEF Log, TypeOK, ringVars, envVars, history
<1>4. Room'
  BY Zenon, <1>1, RoomBegin
<1>5. Placed'
  BY Zenon, <1>1, CallMoves DEF CallPCs, Holding
<1>6. Reporting'
  BY Zenon, <1>1, <1>2 DEF Reporting, Tasks
<1>7. QED
  BY Zenon, <1>3, <1>4, <1>5, <1>6

--------------------------------------------------------------------------------
(* The steps of logsend, of the client and of a reboot *)

LEMMA LogSendIInv ==
  ASSUME IInv, LogSendTask
  PROVE  IInv'
<1> USE DEF IInv
<1>1. CASE LsNotified \/ LsOnline \/ LsCheck \/ LsReset \/ LsDrained
  <2>1. PICK p \in {"online", "check", "report", "receive", "wait"} : LsGoto(p)
    BY Zenon, <1>1 DEF LsNotified, LsOnline, LsCheck, LsReset, LsDrained
  <2>2. /\ UNCHANGED <<ringVars, call, delivered, dropped>> /\ write' = write /\ call' = call
        /\ ls.pc \notin LsHolding /\ ls.pc # "reporting"
    BY Zenon, <1>1 DEF LsNotified, LsOnline, LsCheck, LsReset, LsDrained, LsHolding, ringVars, history
  <2>3. ls' \in LsType /\ ls'.pc = p
    BY Zenon, <2>1, LsGotoType, LsGotoEffect
  <2>4. discarded' \in Nat /\ notified' \in BOOLEAN
    <3>1. discarded' \in {discarded, 0} /\ notified' \in BOOLEAN
      BY Zenon, <1>1 DEF LsNotified, LsOnline, LsCheck, LsReset, LsDrained, TypeOK
    <3>2. QED
      BY SMT, <3>1 DEF TypeOK
  <2>5. TypeOK'
    BY Zenon, <1>1, <2>2, <2>3, <2>4 DEF LsNotified, LsOnline, LsCheck, LsReset, LsDrained, TypeOK, ringVars, envVars, history
  <2>6. Room'
    BY Zenon, <2>2, RoomFrame DEF Starters
  <2>7. p \notin LsHolding /\ p # "reporting"
    BY Zenon DEF LsHolding
  <2>8. Placed'
    BY Zenon, <2>1, <2>2, <2>7, LsMoves
  <2>9. Reporting'
    BY Zenon, <2>2, <2>3, <2>7 DEF Reporting
  <2>10. QED
    BY Zenon, <2>5, <2>6, <2>8, <2>9
<1>2. CASE LsReport
  <2> DEFINE t == LogSend
  <2>1. /\ t \in Tasks /\ BeginLog(t) /\ call[t].pc = "idle" /\ Goto(t, "acquire") /\ LsGoto("reporting")
        /\ ls.pc = "report" /\ UNCHANGED <<ringVars, delivered, dropped>> /\ write' = write
    BY Zenon, <1>2 DEF LsReport, BeginLog, CallAt, Tasks, ringVars
  <2>2. /\ call' \in [Tasks -> CallType] /\ call'[t].pc = "acquire"
        /\ \A u \in Tasks \ {t} : call'[u] = call[u]
    BY Zenon, <2>1, GotoEffect DEF CallPCs
  <2>3. ls' \in LsType /\ ls'.pc = "reporting" /\ ls'.msg = ls.msg
    BY Zenon, <2>1, LsGotoType, LsGotoEffect
  <2>4. reported' \in Nat
    BY SMT, <1>2 DEF LsReport, TypeOK
  <2>5. TypeOK'
    BY Zenon, <1>2, <2>1, <2>2, <2>3, <2>4 DEF LsReport, TypeOK, ringVars, envVars
  <2>6. Room'
    BY Zenon, <2>1, RoomBegin
  <2>7. Placed'
    BY Zenon, <2>1, <2>3, CallMoves DEF CallPCs, Holding, LsHolding
  <2>8. QED
    BY Zenon, <2>2, <2>3, <2>5, <2>6, <2>7 DEF Reporting
<1>3. CASE LsReceive
  <2>1. Receivable \in Written /\ slot[Receivable] = "ready" /\ ls.pc = "receive"
    BY Zenon, <1>3, ReceivableIsReady DEF LsReceive
  <2>2. Receivable \in Msgs
    BY SMT, <2>1, MqttLogAssumption DEF TypeOK, Written, Msgs
  <2>3. /\ slot' \in [Msgs -> SlotStates] /\ write' = write /\ call' = call
        /\ delivered' = delivered /\ dropped' = dropped
    BY Zenon, <1>3, <2>2, SetSlotEffect DEF LsReceive, SlotStates, history
  <2>4. ls' \in LsType /\ ls'.pc = "queue"
    BY SMT, <1>3, <2>2 DEF LsReceive, LsType
  <2>5. TypeOK'
    BY Zenon, <1>3, <2>3, <2>4 DEF LsReceive, TypeOK, envVars, history
  <2>6. Room'
    BY Zenon, <2>3, RoomFrame DEF Starters
  <2>7. Placed'
    BY Zenon, <1>3, <2>1, <2>2, <2>3, LsReceivePlaced DEF LsReceive
  <2>8. QED
    BY Zenon, <2>1, <2>3, <2>4, <2>5, <2>6, <2>7 DEF Reporting
<1>4. CASE LsQueue \/ LsQueueFails
  <2>1. /\ ls.pc = "queue" /\ LsGoto("return") /\ UNCHANGED ringVars /\ call' = call /\ write' = write
        /\ \/ delivered' = delivered \cup {ls.msg} /\ dropped' = dropped
           \/ delivered' = delivered /\ dropped' = dropped \cup {ls.msg}
    BY Zenon, <1>4 DEF LsQueue, LsQueueFails, ringVars
  <2>2. ls' \in LsType /\ ls'.pc = "return"
    BY Zenon, <2>1, LsGotoType, LsGotoEffect
  <2>3. ls.msg \in Msgs
    BY SMT, <2>1 DEF TypeOK, LsType, Placed, LsHolds, Msgs
  <2>4. delivered' \subseteq Msgs /\ dropped' \subseteq Msgs
    BY SMT, <2>1, <2>3 DEF TypeOK
  <2>5. discarded' \in Nat /\ counted' \in Nat /\ outq' \in 0 .. QueueSlots
    BY SMT, <1>4, MqttLogAssumption DEF LsQueue, LsQueueFails, TypeOK, envVars
  <2>6. TypeOK'
    BY Zenon, <1>4, <2>1, <2>2, <2>4, <2>5 DEF LsQueue, LsQueueFails, TypeOK, ringVars, envVars
  <2>7. Room'
    BY Zenon, <2>1, RoomFrame DEF Starters
  <2>8. Placed'
    BY Zenon, <2>1, LsQueuePlaced
  <2>9. QED
    BY Zenon, <2>1, <2>2, <2>6, <2>7, <2>8 DEF Reporting
<1>5. CASE LsReturn
  <2>1. /\ ls.pc = "return" /\ SetSlot(ls.msg, "returned") /\ ls' = [pc |-> "online", msg |-> None]
        /\ write' = write /\ call' = call /\ delivered' = delivered /\ dropped' = dropped
    BY Zenon, <1>5 DEF LsReturn, history
  <2>2. ls.msg \in Msgs
    BY SMT, <2>1 DEF TypeOK, LsType, Placed, LsHolds, Msgs
  <2>3. slot' \in [Msgs -> SlotStates]
    BY Zenon, <2>1, <2>2, SetSlotEffect DEF SlotStates
  <2>4. ls' \in LsType /\ ls'.pc = "online"
    BY SMT, <2>1 DEF LsType
  <2>5. TypeOK'
    BY Zenon, <1>5, <2>1, <2>3, <2>4 DEF LsReturn, TypeOK, envVars, history
  <2>6. Room'
    BY Zenon, <2>1, RoomFrame DEF Starters
  <2>7. Placed'
    BY Zenon, <2>1, LsReturnPlaced
  <2>8. QED
    BY Zenon, <2>1, <2>4, <2>5, <2>6, <2>7 DEF Reporting
<1>6. QED
  BY Zenon, <1>1, <1>2, <1>3, <1>4, <1>5 DEF LogSendTask

LEMMA ClientIInv ==
  ASSUME IInv, ConnectionChanges \/ Publish \/ UNCHANGED vars
  PROVE  IInv'
<1> USE DEF IInv
<1>1. /\ UNCHANGED <<ringVars, delivered, dropped>> /\ call' = call /\ ls' = ls /\ write' = write
  BY Zenon DEF ConnectionChanges, Publish, vars, ringVars, history
<1>2. connected' \in BOOLEAN /\ outq' \in 0 .. QueueSlots
  <2>1. connected' \in BOOLEAN
    BY Zenon DEF ConnectionChanges, Publish, vars, envVars, TypeOK
  <2>2. outq' = outq \/ (outq > 0 /\ outq' = outq - 1)
    BY Zenon DEF ConnectionChanges, Publish, vars, envVars
  <2>3. QED
    BY SMT, <2>1, <2>2, MqttLogAssumption DEF TypeOK
<1>3. TypeOK'
  BY Zenon, <1>1, <1>2 DEF ConnectionChanges, Publish, TypeOK, vars, ringVars, envVars, history
<1>4. Room'
  BY Zenon, <1>1, RoomFrame DEF Starters
<1>5. Placed'
  BY Zenon, <1>1, PlacedFrame
<1>6. QED
  BY Zenon, <1>1, <1>3, <1>4, <1>5 DEF Reporting

LEMMA InitIInv ==
  ASSUME Init
  PROVE  IInv
<1> USE DEF Init
<1>1. TypeOK
  <2>1. 1 \in 1 .. MaxMsg + 1 /\ 0 \in Nat /\ 0 \in 0 .. QueueSlots
    BY SMT, MqttLogAssumption
  <2>2. slot \in [Msgs -> SlotStates] /\ call \in [Tasks -> CallType] /\ ls \in LsType
    BY SMT DEF SlotStates, CallType, LsType
  <2>3. QED
    BY Zenon, <2>1, <2>2 DEF TypeOK
<1>2. Room
  <2>1. Starters = {}
    BY SMT DEF Starters
  <2>2. Started = 0
    BY Zenon, <2>1, StartersFinite, FS_EmptySet
  <2>3. QED
    BY SMT, <2>2, MqttLogAssumption DEF Room
<1>3. Placed
  <2>1. Written = {}
    BY SMT DEF Written
  <2>2. \A S : InState(S) = {}
    BY Zenon, <2>1 DEF InState
  <2>3. Accounted
    BY SMT, <2>2 DEF Accounted
  <2>4. CallHolds /\ LsHolds /\ Fates
    BY SMT DEF CallHolds, CallAt, LsHolds, Fates
  <2>5. SlotsUsed
    BY SMT, MqttLogAssumption DEF SlotsUsed, Msgs
  <2>6. QED
    BY Zenon, <2>3, <2>4, <2>5 DEF Placed
<1>4. Reporting
  BY SMT DEF Reporting, Tasks
<1>5. QED
  BY Zenon, <1>1, <1>2, <1>3, <1>4 DEF IInv


(* A reboot after an abort is a new start *)
LEMMA RebootIInv == Reboot => IInv'
<1>1. Init => IInv
  BY Zenon, InitIInv
<1>2. Reboot => Init'
  BY Zenon DEF Reboot, Init, Tasks
<1>3. QED
  BY <1>1, <1>2, PTL

LEMMA NextIInv == IInv /\ [Next]_vars => IInv'
<1> SUFFICES ASSUME IInv, [Next]_vars
             PROVE  IInv'
  OBVIOUS
<1>1. CASE Running
  BY Zenon, <1>1, QueueMsgIInv, LogIInv, LogSendIInv, ClientIInv DEF Running
<1>2. CASE Reboot
  BY Zenon, <1>2, RebootIInv
<1>3. CASE UNCHANGED vars
  BY Zenon, <1>3, ClientIInv
<1>4. QED
  BY Zenon, <1>1, <1>2, <1>3 DEF Next

LEMMA InductiveInvariant == Spec => []IInv
<1>1. Init => IInv
  BY Zenon, InitIInv
<1>2. QED
  BY <1>1, NextIInv, PTL DEF Spec

(* Every variable keeps its type, for any number of loggers and any sizes.       *)
THEOREM TypeCorrect == Spec => []TypeOK
<1>1. IInv => TypeOK
  BY Zenon DEF IInv
<1>2. QED
  BY <1>1, InductiveInvariant, PTL

(* A message is waiting, in one pair of hands, delivered or dropped: no two      *)
(* receivers of the ring buffer have the same, and none is dropped and sent.     *)
THEOREM AllAccounted == Spec => []Accounted
<1>1. IInv => Accounted
  BY Zenon DEF IInv, Placed
<1>2. QED
  BY <1>1, InductiveInvariant, PTL


--------------------------------------------------------------------------------
(* No lost wake-up *)

NothingReceivable == Receivable = None

LEMMA BehindNext == TypeOK' => (NothingReceivable' <=> Behind')
<1>1. TypeOK => (NothingReceivable <=> Behind)
  BY Zenon, BehindAcquired DEF NothingReceivable
<1>2. QED
  BY <1>1, PTL

LEMMA WakeFrame ==
  ASSUME NoLostWakeup, UNCHANGED ringVars, notified' = notified, ls'.pc = "wait" => ls.pc = "wait",
         \A t \in Tasks : CallAt(t, "notify") => CallAt(t, "notify")'
  PROVE  NoLostWakeup'
<1>1. Receivable' = Receivable
  BY Zenon DEF Receivable, InState, Written, ringVars
<1>2. QED
  BY Zenon, <1>1 DEF NoLostWakeup

(* A task that does not notify leaves those that are about to *)
LEMMA NotifiersStay ==
  ASSUME NEW t \in Tasks, \A u \in Tasks \ {t} : call'[u] = call[u], call[t].pc # "notify"
  PROVE  \A u \in Tasks : CallAt(u, "notify") => CallAt(u, "notify")'
BY Zenon DEF CallAt

LEMMA QueueMsgWakes ==
  ASSUME IInv, IInv', NoLostWakeup, NEW t \in Tasks, QueueMsg(t)
  PROVE  NoLostWakeup'
<1> USE DEF IInv
<1>1. CASE Acquire(t)
  <2>1. /\ Hold(t, write, "complete") /\ SetSlot(write, "acquired") /\ write' = write + 1
        /\ ls' = ls /\ notified' = notified /\ call[t].pc = "acquire"
    BY Zenon, <1>1 DEF Acquire, CallAt
  <2>2. write \in Msgs
    BY Zenon, <2>1, RoomLeft DEF Starters
  <2>3. \A u \in Tasks : CallAt(u, "notify") => CallAt(u, "notify")'
    BY Zenon, <2>1, <2>2, HoldEffect, NotifiersStay DEF CallPCs
  <2>4. ASSUME Behind
        PROVE  Behind'
    <3>1. slot'[write] = "acquired" /\ \A n \in Msgs \ {write} : slot'[n] = slot[n]
      BY Zenon, <2>1, <2>2, SetSlotEffect DEF SlotStates
    <3>2. /\ \A m \in 1 .. write - 1 : m \in 1 .. (write + 1) - 1 /\ m \in Msgs \ {write}
          /\ \A m \in 1 .. (write + 1) - 1 : m # write => m \in 1 .. write - 1
      BY SMT, <2>2, MqttLogAssumption DEF Msgs
    <3>3. \A m \in InState({"ready"})' : m \in InState({"ready"})
      BY SMT, <2>1, <3>1, <3>2 DEF InState, Written
    <3>4. \A m \in InState({"acquired"}) : m \in InState({"acquired"})'
      BY SMT, <2>1, <3>1, <3>2 DEF InState, Written
    <3>5. QED
      BY Zenon, <2>4, <3>3, <3>4 DEF Behind
  <2>5. QED
    BY Zenon, <2>1, <2>3, <2>4, BehindAcquired, BehindNext DEF NoLostWakeup, NothingReceivable
<1>2. CASE FindFull(t) \/ DropFails(t) \/ DropCount(t)
  <2>1. PICK p \in {"drop", "abort", "acquire"} : Goto(t, p)
    BY Zenon, <1>2 DEF FindFull, DropFails, DropCount
  <2>2. UNCHANGED ringVars /\ notified' = notified /\ ls' = ls /\ call[t].pc # "notify"
    BY Zenon, <1>2 DEF FindFull, DropFails, DropCount, CallAt
  <2>3. \A u \in Tasks : CallAt(u, "notify") => CallAt(u, "notify")'
    BY Zenon, <2>1, <2>2, GotoEffect, NotifiersStay DEF CallPCs
  <2>4. QED
    BY Zenon, <2>2, <2>3, WakeFrame
<1>3. CASE DropReceive(t)
  <2>1. /\ Hold(t, Receivable, "return") /\ Receivable # None /\ ls' = ls
        /\ notified' = notified /\ call[t].pc = "drop"
    BY Zenon, <1>3 DEF DropReceive, CallAt
  <2>2. Receivable \in Msgs
    BY SMT, <2>1, ReceivableIsReady, MqttLogAssumption DEF TypeOK, Written, Msgs
  <2>3. \A u \in Tasks : CallAt(u, "notify") => CallAt(u, "notify")'
    BY Zenon, <2>1, <2>2, HoldEffect, NotifiersStay DEF CallPCs
  <2>4. QED
    BY Zenon, <2>1, <2>3 DEF NoLostWakeup
<1>4. CASE DropReturn(t)
  <2> DEFINE m == call[t].msg
  <2>1. /\ Hold(t, None, "count") /\ SetSlot(m, "returned") /\ call[t].pc = "return"
        /\ write' = write /\ ls' = ls /\ notified' = notified
    BY Zenon, <1>4 DEF DropReturn, CallAt
  <2>2. m \in Msgs /\ slot[m] = "taken"
    BY SMT, <2>1 DEF TypeOK, CallType, Placed, CallHolds, CallAt, Msgs
  <2>3. \A u \in Tasks : CallAt(u, "notify") => CallAt(u, "notify")'
    BY Zenon, <2>1, HoldEffect, NotifiersStay DEF CallPCs
  <2>4. slot'[m] = "returned" /\ \A n \in Msgs \ {m} : slot'[n] = slot[n]
    BY Zenon, <2>1, <2>2, SetSlotEffect DEF SlotStates
  <2>5. Written' = Written /\ Written \subseteq Msgs
    BY SMT, <2>1, MqttLogAssumption DEF Written, TypeOK, Msgs
  <2>6. InState({"ready"})' = InState({"ready"}) /\ InState({"acquired", "ready"})' = InState({"acquired", "ready"})
    BY SMT, <2>2, <2>4, <2>5 DEF InState
  <2>7. Receivable' = Receivable
    BY Zenon, <2>6 DEF Receivable
  <2>8. QED
    BY Zenon, <2>1, <2>3, <2>7 DEF NoLostWakeup
<1>5. CASE Complete(t)
  <2>1. Hold(t, None, "notify")
    BY Zenon, <1>5 DEF Complete
  <2>2. CallAt(t, "notify")'
    BY Zenon, <2>1, HoldEffect DEF CallPCs, CallAt
  <2>3. QED
    BY Zenon, <2>2 DEF NoLostWakeup
<1>6. CASE Notify(t)
  BY Zenon, <1>6 DEF Notify, NoLostWakeup
<1>7. QED
  BY Zenon, <1>1, <1>2, <1>3, <1>4, <1>5, <1>6 DEF QueueMsg

LEMMA LogWakes ==
  ASSUME IInv, NoLostWakeup, NEW t \in Loggers, Log(t)
  PROVE  NoLostWakeup'
<1>1. /\ t \in Tasks /\ call[t].pc = "idle" /\ Goto(t, "acquire")
      /\ UNCHANGED ringVars /\ notified' = notified /\ ls' = ls
  BY Zenon DEF Log, BeginLog, CallAt, Tasks
<1>2. \A u \in Tasks : CallAt(u, "notify") => CallAt(u, "notify")'
  BY Zenon, <1>1, GotoEffect, NotifiersStay DEF CallPCs, IInv
<1>3. QED
  BY Zenon, <1>1, <1>2, WakeFrame

(* logsend goes to sleep only where there is nothing to receive *)
LEMMA LogSendWakes ==
  ASSUME IInv, LogSendTask
  PROVE  NoLostWakeup'
<1> USE DEF IInv
<1>1. CASE LsDrained
  <2>1. Receivable' = Receivable /\ Receivable = None
    BY Zenon, <1>1 DEF LsDrained, Receivable, InState, Written, ringVars
  <2>2. QED
    BY Zenon, <2>1 DEF NoLostWakeup
<1>2. CASE LsNotified \/ LsOnline \/ LsCheck \/ LsReset \/ LsReport \/ LsQueue \/ LsQueueFails
  <2>1. PICK p \in {"online", "check", "report", "receive", "reporting", "return"} : LsGoto(p)
    BY Zenon, <1>2 DEF LsNotified, LsOnline, LsCheck, LsReset, LsReport, LsQueue, LsQueueFails
  <2>2. ls'.pc = p
    BY Zenon, <2>1, LsGotoEffect
  <2>3. QED
    BY Zenon, <2>2 DEF NoLostWakeup
<1>3. CASE LsReceive \/ LsReturn
  <2>1. ls'.pc = "queue" \/ ls'.pc = "online"
    BY SMT, <1>3 DEF LsReceive, LsReturn
  <2>2. QED
    BY Zenon, <2>1 DEF NoLostWakeup
<1>4. QED
  BY Zenon, <1>1, <1>2, <1>3 DEF LogSendTask

LEMMA InitWakes == Init => NoLostWakeup
<1> SUFFICES ASSUME Init
             PROVE  NoLostWakeup
  OBVIOUS
<1>1. Written = {}
  BY SMT DEF Init, Written
<1>2. \A S : InState(S) = {}
  BY Zenon, <1>1 DEF InState
<1>3. None \notin InState({"ready"}) /\ InState({"acquired", "ready"}) = {}
  BY Zenon, <1>2
<1>4. Receivable = None
  BY Zenon, <1>3 DEF Receivable, OldestOf
<1>5. QED
  BY Zenon, <1>4 DEF NoLostWakeup

LEMMA RebootWakes == Reboot => NoLostWakeup'
<1>1. Reboot => Init'
  BY Zenon DEF Reboot, Init, Tasks
<1>2. QED
  BY <1>1, InitWakes, PTL

LEMMA NextWakes == IInv /\ IInv' /\ NoLostWakeup /\ [Next]_vars => NoLostWakeup'
<1> SUFFICES ASSUME IInv, IInv', NoLostWakeup, [Next]_vars
             PROVE  NoLostWakeup'
  OBVIOUS
<1>1. CASE ConnectionChanges \/ Publish \/ UNCHANGED vars
  <2>1. UNCHANGED ringVars /\ notified' = notified /\ ls' = ls /\ call' = call
    BY Zenon, <1>1 DEF ConnectionChanges, Publish, vars, ringVars
  <2>2. QED
    BY Zenon, <2>1, WakeFrame DEF CallAt
<1>2. CASE Running
  BY Zenon, <1>1, <1>2, QueueMsgWakes, LogWakes, LogSendWakes DEF Running
<1>3. CASE Reboot
  BY Zenon, <1>3, RebootWakes
<1>4. QED
  BY Zenon, <1>1, <1>2, <1>3 DEF Next

(* logsend never sleeps over a message it could send, unless it is notified or    *)
(* about to be: the notification comes after the message is complete, and any     *)
(* message it does not receive waits behind one whose logger will notify.         *)
THEOREM NoWakeupLost == Spec => []NoLostWakeup
<1>1. Spec => []IInv
  BY Zenon, InductiveInvariant
<1>2. QED
  BY <1>1, InitWakes, NextWakes, PTL DEF Spec
==============================================================================
