-------------------------- MODULE SensorMgrProofs --------------------------
(***************************************************************************)
(* Proofs about SensorMgr, for every size of the ring buffer, the file      *)
(* system, the batches and the queue, and every number of sensors and       *)
(* readings.                                                                *)
(***************************************************************************)
EXTENDS SensorMgr, FiniteSetTheorems, TLAPS

USE DEF EventBits, STARTED, CONNECTED, NOTCONNECTED, LOWWATER, HIGHWATER,
        DONEWRITING, POLLSENSORS, Consumers, None, NoFile, mqttVars, ringVars,
        fileVars, IterIn, SrAt, FwAt

--------------------------------------------------------------------------------
(* What an update of one of the records does to its fields.                     *)

IterBecomes(c, p, s, r) ==
  /\ iter' \in [Consumers -> IterType]
  /\ iter'[c].pc = p /\ iter'[c].state = s /\ iter'[c].reading = r
  /\ \A d \in Consumers \ {c} : iter'[d] = iter[d]

LEMMA IterGotoEffect ==
  ASSUME TypeOK, NEW c \in Consumers, NEW p \in IterPCs, IterGoto(c, p)
  PROVE  IterBecomes(c, p, iter[c].state, iter[c].reading)
BY Zenon DEF TypeOK, IterType, IterGoto, IterBecomes

LEMMA IterStateEffect ==
  ASSUME TypeOK, NEW c \in Consumers, NEW s \in IterStates, IterState(c, s)
  PROVE  IterBecomes(c, iter[c].pc, s, iter[c].reading)
BY Zenon DEF TypeOK, IterType, IterState, IterBecomes

LEMMA IterToEffect ==
  ASSUME TypeOK, NEW c \in Consumers, NEW s \in IterStates, NEW p \in IterPCs,
         IterTo(c, s, p)
  PROVE  IterBecomes(c, p, s, iter[c].reading)
BY Zenon DEF TypeOK, IterType, IterTo, IterBecomes

LEMMA IterHoldEffect ==
  ASSUME TypeOK, NEW c \in Consumers, NEW r \in Readings \cup {None},
         NEW p \in IterPCs, IterHold(c, r, p)
  PROVE  IterBecomes(c, p, iter[c].state, r)
BY Zenon DEF TypeOK, IterType, IterHold, IterBecomes

LEMMA QsOpenEffect ==
  ASSUME TypeOK, NEW f \in DOMAIN files,
         qs' = [qs EXCEPT !.file = f, !.todo = files[f]]
  PROVE  /\ qs' \in QsType
         /\ qs'.file = f /\ qs'.todo = files[f]
         /\ qs'.pc = qs.pc /\ qs'.reading = qs.reading
         /\ qs'.batch = qs.batch /\ qs'.idx = qs.idx
BY Zenon DEF TypeOK, QsType

LEMMA QsFreadEffect ==
  ASSUME TypeOK, NEW r \in qs.todo,
         qs' = [qs EXCEPT !.todo = @ \ {r}, !.reading = r]
  PROVE  /\ qs' \in QsType
         /\ qs'.todo = qs.todo \ {r} /\ qs'.reading = r
         /\ qs'.pc = qs.pc /\ qs'.file = qs.file
         /\ qs'.batch = qs.batch /\ qs'.idx = qs.idx
BY Zenon DEF TypeOK, QsType

LEMMA QsEndOfFileEffect ==
  ASSUME TypeOK, qs' = [qs EXCEPT !.file = NoFile, !.todo = {}]
  PROVE  /\ qs' \in QsType
         /\ qs'.file = NoFile /\ qs'.todo = {}
         /\ qs'.pc = qs.pc /\ qs'.reading = qs.reading
         /\ qs'.batch = qs.batch /\ qs'.idx = qs.idx
BY Zenon DEF TypeOK, QsType

LEMMA QsAbortEffect ==
  ASSUME TypeOK, NEW c, IterAborts(c)
  PROVE  /\ qs' \in QsType
         /\ qs'.pc = "aborted"
         /\ qs'.file = qs.file /\ qs'.todo = qs.todo /\ qs'.reading = qs.reading
         /\ qs'.batch = qs.batch /\ qs'.idx = qs.idx
         /\ UNCHANGED <<events, mqttVars, ringVars, fileVars, now, iter, sr, fw, sent>>
BY Zenon DEF TypeOK, QsType, IterAborts

LEMMA QsGotoEffect ==
  ASSUME TypeOK, NEW p \in {"wait", "read", "queue"}, QsGoto(p)
  PROVE  /\ qs' \in QsType
         /\ qs'.pc = p
         /\ qs'.file = qs.file /\ qs'.todo = qs.todo /\ qs'.reading = qs.reading
         /\ qs'.batch = qs.batch /\ qs'.idx = qs.idx
BY Zenon DEF TypeOK, QsType, QsGoto

LEMMA QsQueueEffect ==
  ASSUME TypeOK, QsQueue
  PROVE  /\ qs' \in QsType
         /\ qs'.pc = "wait" /\ qs'.batch = {} /\ qs'.idx = 0
         /\ qs'.file = qs.file /\ qs'.todo = qs.todo /\ qs'.reading = qs.reading
<1>1. 0 \in 0 .. BatchMax
  BY SMT, SensorMgrAssumption
<1>2. QED
  BY Zenon, <1>1 DEF TypeOK, QsType, QsQueue

LEMMA QsMarshallEffect ==
  ASSUME TypeOK, qs.idx < BatchMax, QsMarshall
  PROVE  /\ qs' \in QsType
         /\ qs'.batch = qs.batch \cup {QsReading}
         /\ qs'.idx = qs.idx + 1
         /\ qs'.reading = None
         /\ qs'.pc = IF qs.idx + 1 = BatchMax THEN "queue" ELSE "read"
         /\ qs'.file = qs.file /\ qs'.todo = qs.todo
<1>1. qs.idx + 1 \in 0 .. BatchMax
  BY SMT, SensorMgrAssumption DEF TypeOK, QsType
<1>2. QsReading \in Readings
  BY Zenon DEF TypeOK, QsType, IterType, QsReading, QsMarshall
<1>3. QED
  BY Zenon, <1>1, <1>2 DEF TypeOK, QsType, QsMarshall

LEMMA SrGotoEffect ==
  ASSUME TypeOK, NEW p \in {"wait", "full", "retry", "count", "high"}, SrGoto(p)
  PROVE  sr' \in SrType /\ sr'.pc = p
BY Zenon DEF TypeOK, SrType, SrGoto

LEMMA SrNextSensorType ==
  ASSUME TypeOK
  PROVE  SrNextSensor \in SrType /\ SrNextSensor.pc # "count"
<1>1. CASE sr.idx < SensorCount
  <2>1. sr.idx + 1 \in 1 .. SensorCount
    BY SMT, <1>1, SensorMgrAssumption DEF TypeOK, SrType
  <2>2. QED
    BY Zenon, <1>1, <2>1 DEF SrNextSensor, TypeOK, SrType
<1>2. CASE ~(sr.idx < SensorCount)
  BY Zenon, <1>2 DEF SrNextSensor, TypeOK, SrType
<1>3. QED
  BY <1>1, <1>2

LEMMA FwGotoEffect ==
  ASSUME TypeOK, NEW p \in {"wait", "check", "pause", "drain", "paused", "open",
                            "read", "close", "done"}, FwGoto(p)
  PROVE  /\ fw' \in FwType
         /\ fw'.pc = p /\ fw'.file = fw.file /\ fw'.data = fw.data
BY Zenon DEF TypeOK, FwType, FwGoto

LEMMA FwWriteEffect ==
  ASSUME TypeOK, FwWrite
  PROVE  LET data == fw.data \cup {iter["fw"].reading}
             full == Cardinality(data) > fw.room
         IN /\ fw' \in FwType
            /\ fw'.data = data /\ fw'.file = fw.file
            /\ fw'.pc = IF full THEN "close" ELSE "read"
<1> DEFINE data == fw.data \cup {iter["fw"].reading}
<1>1. data \in SUBSET Readings
  BY Zenon DEF TypeOK, FwType, IterType, FwWrite
<1>2. fw' = [fw EXCEPT !.data = data,
                       !.pc = IF Cardinality(data) > fw.room THEN "close" ELSE "read"]
  BY Zenon DEF FwWrite
<1>3. QED
  BY Zenon, <1>1, <1>2 DEF TypeOK, FwType

LEMMA FwCloseEffect ==
  ASSUME TypeOK, FwClose
  PROVE  /\ fw' \in FwType
         /\ fw'.pc = "done" /\ fw'.file = NoFile /\ fw'.data = {}
<1>1. 0 \in 0 .. UintRange - 1
  BY SMT, SensorMgrAssumption
<1>2. QED
  BY Zenon, <1>1 DEF FwClose, FwType

(* The readings in any directory of readings are finitely many. *)
LEMMA UsedIsNatural ==
  ASSUME NEW F, \A f \in DOMAIN F : F[f] \subseteq Readings
  PROVE  Cardinality(UNION {F[f] : f \in DOMAIN F}) \in Nat
<1>1. IsFiniteSet(Readings)
  <2>1. 1 \in Int /\ MaxReading \in Int
    BY SMT, SensorMgrAssumption
  <2>2. QED
    BY Zenon, <2>1, FS_Interval DEF Readings
<1>2. UNION {F[f] : f \in DOMAIN F} \subseteq Readings
  OBVIOUS
<1>3. QED
  BY <1>1, <1>2, FS_Subset, FS_CardinalityType

LEMMA FwOpenEffect ==
  ASSUME TypeOK, FwOpen
  PROVE  /\ now' \in 0 .. MaxTime
         /\ DOMAIN files' = DOMAIN files \cup {now'}
         /\ files'[now'] = {}
         /\ \A f \in DOMAIN files \ {now'} : files'[f] = files[f]
         /\ fw' \in FwType
         /\ fw'.pc = "read" /\ fw'.file = now' /\ fw'.data = fw.data
<1>1. now' \in 0 .. MaxTime
  BY SMT, SensorMgrAssumption DEF TypeOK, FwOpen
<1>2. files' = [f \in DOMAIN files \cup {now'} |-> IF f = now' THEN {} ELSE files[f]]
  BY Zenon DEF FwOpen
<1>3. /\ DOMAIN files' = DOMAIN files \cup {now'}
      /\ files'[now'] = {}
      /\ \A f \in DOMAIN files \ {now'} : files'[f] = files[f]
  BY Zenon, <1>2
<1>4. \A f \in DOMAIN files' : files'[f] \subseteq Readings
  BY Zenon, <1>3 DEF TypeOK
<1>5. DiskUsed' \in Nat
  BY <1>4, UsedIsNatural DEF DiskUsed
<1>6. (DiskFree' - DiskReserve) % UintRange \in 0 .. UintRange - 1
  <2>1. \A a \in Int, b \in Nat \ {0} : a % b \in 0 .. b - 1
    BY SMT
  <2>2. DiskFree' - DiskReserve \in Int /\ UintRange \in Nat \ {0}
    BY SMT, <1>5, SensorMgrAssumption DEF DiskFree
  <2>3. QED
    BY Zenon, <2>1, <2>2
<1>7. /\ fw' \in FwType
      /\ fw'.pc = "read" /\ fw'.file = now' /\ fw'.data = fw.data
  BY Zenon, <1>1, <1>6 DEF FwOpen, TypeOK, FwType, FileNames
<1>8. QED
  BY <1>1, <1>3, <1>7

LEMMA FreeSlotsInt ==
  ASSUME TypeOK
  PROVE  FreeSlots \in Int
<1> DEFINE H == Held \cup {ring.read}
<1>1. H = ({iter["fw"].reading, iter["qs"].reading} \ {0}) \cup {ring.read}
  BY Zenon DEF Held
<1>2. iter["fw"].reading \in Int /\ iter["qs"].reading \in Int /\ ring.read \in Int
  <2>1. iter["fw"].reading \in Readings \cup {0} /\ iter["qs"].reading \in Readings \cup {0}
    BY Zenon DEF TypeOK, IterType
  <2>2. QED
    BY SMT, <2>1 DEF TypeOK, Readings
<1>3. Oldest \in H
  <2>1. \E i \in H : \A j \in H : i <= j
    BY SMT, <1>1, <1>2
  <2>2. QED
    BY Zenon, <2>1 DEF Oldest
<1>4. Oldest \in Int
  BY SMT, <1>1, <1>2, <1>3
<1>5. QED
  BY SMT, <1>4, SensorMgrAssumption DEF FreeSlots, TypeOK

--------------------------------------------------------------------------------
(* Type correctness. It is not inductive alone: the index of the next reading   *)
(* in a batch stays within the batch because queuesend leaves its loop at the   *)
(* last one. Control says what the program counters say of the other locals.    *)

Control ==
  /\ (iter["fw"].pc = "idle") <=> (fw.pc # "read")
  /\ (iter["qs"].pc = "idle") <=> (qs.pc \notin {"read", "aborted"})
  /\ \A c \in Consumers :
       /\ iter[c].state # "NFRB" => iter[c].reading = None
       /\ iter[c].pc \in {"count", "receive", "drained"} => iter[c].reading = None
       /\ iter[c].pc \in {"count", "receive", "space", "high", "low", "drained"}
            => iter[c].state = "NFRB"
       /\ iter[c].pc = "nofile" => iter[c].state = "HFNO"
       /\ iter[c].pc = "fread" => iter[c].state = "HFOO"
  /\ iter["fw"].state \in {"INIT", "NFRB"}
  /\ iter["qs"].state # "HFOO" => qs.file = NoFile /\ qs.todo = {}
  /\ qs.reading # None => iter["qs"].pc = "ret" /\ iter["qs"].state = "HFOO"
  /\ qs.pc = "wait" => qs.idx = 0
  /\ qs.pc = "read" => qs.idx < BatchMax
  /\ fw.pc \notin {"read", "close"} => fw.file = NoFile /\ fw.data = {}

IInv == TypeOK /\ Control

LEMMA InitIInv == Init => IInv
<1> SUFFICES ASSUME Init PROVE IInv
  OBVIOUS
<1> USE SensorMgrAssumption DEF Init
<1>1. DOMAIN files \subseteq FileNames /\ \A f \in DOMAIN files : files[f] \subseteq Readings
  <2>1. PICK old \in 0 .. MaxOld :
          files = [f \in IF old > 0 THEN {0} ELSE {} |-> 1 .. old]
    BY Zenon
  <2>2. 1 .. old \subseteq Readings /\ 0 \in FileNames
    BY SMT, <2>1 DEF Readings, FileNames
  <2>3. QED
    BY Zenon, <2>1, <2>2
<1>2. ring \in [read : 1 .. MaxReading + 1, write : 1 .. MaxReading + 1]
  <2>1. PICK old \in 0 .. MaxOld : ring = [read |-> old + 1, write |-> old + 1]
    BY Zenon
  <2>2. old + 1 \in 1 .. MaxReading + 1
    BY SMT
  <2>3. QED
    BY Zenon, <2>1, <2>2
<1>3. hasFiles \in BOOLEAN
  <2>1. PICK old \in 0 .. MaxOld : hasFiles = (old > 0)
    BY Zenon
  <2>2. QED
    BY SMT, <2>1
<1>4. iter \in [Consumers -> IterType]
  BY Zenon DEF IterType, IterPCs, IterStates
<1>5. 1 \in 1 .. SensorCount /\ RingSlots \in Int /\ 0 \in 0 .. UintRange - 1
      /\ 0 \in 0 .. BatchMax /\ 0 \in 0 .. QueueSlots /\ 0 \in 0 .. MaxTime /\ 0 \in Int
  BY SMT
<1>6. sr \in SrType /\ fw \in FwType /\ qs \in QsType
  BY Zenon, <1>5 DEF SrType, FwType, QsType
<1>7. TypeOK
  BY Zenon, <1>1, <1>2, <1>3, <1>4, <1>5, <1>6 DEF TypeOK
<1>8. Control
  <2>1. /\ iter["fw"] = [pc |-> "idle", state |-> "INIT", reading |-> None]
        /\ iter["qs"] = [pc |-> "idle", state |-> "INIT", reading |-> None]
        /\ fw.pc = "wait" /\ fw.file = NoFile /\ fw.data = {}
        /\ qs.pc = "wait" /\ qs.file = NoFile /\ qs.todo = {}
        /\ qs.reading = None /\ qs.idx = 0
    BY Zenon
  <2>2. QED
    BY SMT, <2>1 DEF Control
<1>9. QED
  BY <1>7, <1>8 DEF IInv

LEMMA IterInitIInv ==
  ASSUME IInv, NEW c \in Consumers, IterInit(c)
  PROVE  IInv'
<1> USE DEF IInv, IterInit, IterAt, IterPCs, IterStates, IterBecomes
<1>1. PICK s \in {"NFRB", "HFNO"} : IterState(c, s) /\ (s = "HFNO" => c = "qs")
  BY Zenon
<1>2. IterBecomes(c, iter[c].pc, s, iter[c].reading)
  BY Zenon, <1>1, IterStateEffect
<1>3. iter[c].pc = "switch" /\ iter[c].state = "INIT"
  BY Zenon
<1>4. TypeOK'
  BY Zenon, <1>2 DEF TypeOK
<1>5. Control'
  BY SMT, <1>1, <1>2, <1>3 DEF Control
<1>6. QED
  BY <1>4, <1>5

LEMMA IterIInv ==
  ASSUME IInv, NEW c \in Consumers, ReadIter(c)
  PROVE  IInv'
<1> USE DEF IInv, IterAt, IterPCs, IterStates, IterBecomes
<1>1. CASE IterInit(c)
  BY <1>1, IterInitIInv
<1>2. CASE IterOpenFile(c)
  <2>1. PICK f \in DOMAIN files : qs' = [qs EXCEPT !.file = f, !.todo = files[f]]
    BY Zenon, <1>2 DEF IterOpenFile
  <2>2. /\ qs' \in QsType
        /\ qs'.pc = qs.pc /\ qs'.reading = qs.reading /\ qs'.idx = qs.idx
    BY Zenon, <2>1, QsOpenEffect
  <2>3. iter[c].pc = "switch" /\ iter[c].state = "HFNO" /\ UNCHANGED fw
    BY Zenon, <1>2 DEF IterOpenFile
  <2>4. IterState(c, "HFOO")
    BY Zenon, <1>2 DEF IterOpenFile
  <2>5. IterBecomes(c, "switch", "HFOO", iter[c].reading)
    BY Zenon, <2>3, <2>4, IterStateEffect
  <2>6. TypeOK'
    BY Zenon, <1>2, <2>2, <2>5 DEF TypeOK, IterOpenFile
  <2>7. Control'
    BY SMT, <2>2, <2>3, <2>5 DEF Control
  <2>8. QED
    BY <2>6, <2>7
<1>3. CASE IterNoFile(c)
  <2>1. IterBecomes(c, "nofile", iter[c].state, iter[c].reading)
    BY Zenon, <1>3, IterGotoEffect DEF IterNoFile
  <2>2. TypeOK'
    BY Zenon, <1>3, <2>1 DEF TypeOK, IterNoFile
  <2>3. Control'
    BY SMT, <1>3, <2>1 DEF Control, IterNoFile
  <2>4. QED
    BY <2>2, <2>3
<1>4. CASE IterClearHasFiles(c)
  <2>1. IterBecomes(c, "switch", "NFRB", iter[c].reading)
    BY Zenon, <1>4, IterToEffect DEF IterClearHasFiles
  <2>2. TypeOK'
    BY Zenon, <1>4, <2>1 DEF TypeOK, IterClearHasFiles
  <2>3. Control'
    BY SMT, <1>4, <2>1 DEF Control, IterClearHasFiles
  <2>4. QED
    BY <2>2, <2>3
<1>5. CASE IterWaitDone(c)
  <2>1. IterBecomes(c, "fread", iter[c].state, iter[c].reading)
    BY Zenon, <1>5, IterGotoEffect DEF IterWaitDone
  <2>2. TypeOK'
    BY Zenon, <1>5, <2>1 DEF TypeOK, IterWaitDone, AwaitBits
  <2>3. Control'
    BY SMT, <1>5, <2>1 DEF Control, IterWaitDone
  <2>4. QED
    BY <2>2, <2>3
<1>6. CASE IterFread(c)
  <2>1. PICK r \in qs.todo : qs' = [qs EXCEPT !.todo = @ \ {r}, !.reading = r]
    BY Zenon, <1>6 DEF IterFread
  <2>2. /\ qs' \in QsType
        /\ qs'.pc = qs.pc /\ qs'.file = qs.file /\ qs'.idx = qs.idx
    BY Zenon, <2>1, QsFreadEffect
  <2>3. iter[c].pc = "fread" /\ UNCHANGED fw
    BY Zenon, <1>6 DEF IterFread
  <2>4. IterBecomes(c, "ret", iter[c].state, iter[c].reading)
    BY Zenon, <1>6, IterGotoEffect DEF IterFread
  <2>5. TypeOK'
    BY Zenon, <1>6, <2>2, <2>4 DEF TypeOK, IterFread
  <2>6. Control'
    BY SMT, <2>2, <2>3, <2>4 DEF Control
  <2>7. QED
    BY <2>5, <2>6
<1>7. CASE IterEndOfFile(c)
  <2>1. /\ qs' \in QsType
        /\ qs'.file = NoFile /\ qs'.todo = {}
        /\ qs'.pc = qs.pc /\ qs'.reading = qs.reading /\ qs'.idx = qs.idx
    BY Zenon, <1>7, QsEndOfFileEffect DEF IterEndOfFile
  <2>2. IterBecomes(c, "switch", "HFNO", iter[c].reading)
    BY Zenon, <1>7, IterToEffect DEF IterEndOfFile
  <2>3. DOMAIN files' \subseteq FileNames /\ \A f \in DOMAIN files' : files'[f] \subseteq Readings
    <3>1. files' = [f \in DOMAIN files \ {qs.file} |-> files[f]]
      BY Zenon, <1>7 DEF IterEndOfFile
    <3>2. QED
      BY Zenon, <3>1 DEF TypeOK
  <2>4. lost' \subseteq Readings
    <3>1. lost' = lost \cup ((Contents(qs.file) \cup qs.todo) \ Delivered)
      BY Zenon, <1>7 DEF IterEndOfFile
    <3>2. Contents(qs.file) \subseteq Readings /\ qs.todo \subseteq Readings
      BY Zenon DEF TypeOK, Contents, QsType
    <3>3. QED
      BY Zenon, <3>1, <3>2 DEF TypeOK
  <2>5. iter[c].pc = "fread"
        /\ UNCHANGED <<events, mqttVars, ringVars, hasFiles, now, sr, fw, sent>>
    BY Zenon, <1>7 DEF IterEndOfFile
  <2>6. TypeOK'
    BY Zenon, <2>1, <2>2, <2>3, <2>4, <2>5 DEF TypeOK
  <2>7. Control'
    BY SMT, <2>1, <2>2, <2>5 DEF Control
  <2>8. QED
    BY <2>6, <2>7
<1>8. CASE IterReturnItem(c)
  <2>1. IterBecomes(c, "count", iter[c].state, None)
    BY Zenon, <1>8, IterHoldEffect DEF IterReturnItem
  <2>2. TypeOK'
    BY Zenon, <1>8, <2>1 DEF TypeOK, IterReturnItem
  <2>3. Control'
    BY SMT, <1>8, <2>1 DEF Control, IterReturnItem
  <2>4. QED
    BY <2>2, <2>3
<1>9. CASE IterUncount(c)
  <2>1. IterBecomes(c, "receive", iter[c].state, iter[c].reading)
    BY Zenon, <1>9, IterGotoEffect DEF IterUncount
  <2>2. TypeOK'
    <3>1. itemCount' \in Int
      BY SMT, <1>9 DEF TypeOK, IterUncount
    <3>2. QED
      BY Zenon, <1>9, <2>1, <3>1 DEF TypeOK, IterUncount
  <2>3. Control'
    BY SMT, <1>9, <2>1 DEF Control, IterUncount
  <2>4. QED
    BY <2>2, <2>3
<1>10. CASE IterReceive(c)
  <2>1. CASE Unread = {}
    <3>1. IterBecomes(c, "space", iter[c].state, iter[c].reading)
      BY Zenon, <1>10, <2>1, IterGotoEffect DEF IterReceive
    <3>2. TypeOK'
      BY Zenon, <1>10, <2>1, <3>1 DEF TypeOK, IterReceive
    <3>3. Control'
      BY SMT, <1>10, <2>1, <3>1 DEF Control, IterReceive
    <3>4. QED
      BY <3>2, <3>3
  <2>2. CASE Unread # {}
    <3>1. ring.read \in Readings /\ ring.read + 1 \in 1 .. MaxReading + 1
      BY SMT, <2>2, SensorMgrAssumption DEF TypeOK, Unread, Readings
    <3>2. IterBecomes(c, "space", iter[c].state, ring.read)
      BY Zenon, <1>10, <2>2, <3>1, IterHoldEffect DEF IterReceive
    <3>3. TypeOK'
      BY Zenon, <1>10, <2>2, <3>1, <3>2 DEF TypeOK, IterReceive
    <3>4. Control'
      BY SMT, <1>10, <2>2, <3>2 DEF Control, IterReceive
    <3>5. QED
      BY <3>3, <3>4
  <2>3. QED
    BY <2>1, <2>2
<1>11. CASE IterFreeSpace(c)
  <2>1. PICK p \in {"high", "low"} : IterGoto(c, p)
    BY Zenon, <1>11 DEF IterFreeSpace
  <2>2. IterBecomes(c, p, iter[c].state, iter[c].reading)
    BY Zenon, <2>1, IterGotoEffect
  <2>3. TypeOK'
    BY Zenon, <1>11, <2>2 DEF TypeOK, IterFreeSpace
  <2>4. iter[c].pc = "space" /\ UNCHANGED <<fw, qs>>
    BY Zenon, <1>11 DEF IterFreeSpace
  <2>5. Control'
    BY SMT, <2>1, <2>2, <2>4 DEF Control
  <2>6. QED
    BY <2>3, <2>5
<1>12. CASE IterClearHigh(c)
  <2>1. IterBecomes(c, "low", iter[c].state, iter[c].reading)
    BY Zenon, <1>12, IterGotoEffect DEF IterClearHigh
  <2>2. TypeOK'
    BY Zenon, <1>12, <2>1 DEF TypeOK, IterClearHigh, ClearBits
  <2>3. Control'
    BY SMT, <1>12, <2>1 DEF Control, IterClearHigh
  <2>4. QED
    BY <2>2, <2>3
<1>13. CASE IterClearLow(c)
  <2>1. iter[c].pc = "low" /\ UNCHANGED <<fw, qs>>
    BY Zenon, <1>13 DEF IterClearLow
  <2>2. PICK p \in {"drained", "ret"} :
          IterGoto(c, p) /\ (p = "drained" => iter[c].reading = None)
    BY Zenon, <1>13 DEF IterClearLow
  <2>3. IterBecomes(c, p, iter[c].state, iter[c].reading)
    BY Zenon, <2>2, IterGotoEffect
  <2>4. TypeOK'
    BY Zenon, <1>13, <2>3 DEF TypeOK, IterClearLow, ClearBits
  <2>5. Control'
    BY SMT, <2>1, <2>2, <2>3 DEF Control
  <2>6. QED
    BY <2>4, <2>5
<1>14. CASE IterDrained(c)
  <2>1. IterBecomes(c, "ret", "INIT", iter[c].reading)
    BY Zenon, <1>14, IterToEffect DEF IterDrained
  <2>2. TypeOK'
    BY Zenon, <1>14, <2>1 DEF TypeOK, IterDrained, SetBits
  <2>3. Control'
    BY SMT, <1>14, <2>1 DEF Control, IterDrained
  <2>4. QED
    BY <2>2, <2>3
<1>15. CASE IterAborts(c)
  <2>1. TypeOK'
    BY Zenon, <1>15, QsAbortEffect DEF TypeOK
  <2>2. iter[c].pc = "fread"
    BY Zenon, <1>15 DEF IterAborts
  <2>3. c = "qs"
    BY Zenon, <2>2 DEF Control
  <2>4. Control'
    BY SMT, <1>15, <2>2, <2>3, QsAbortEffect DEF Control
  <2>5. QED
    BY <2>1, <2>4
<1>16. QED
  BY <1>1, <1>2, <1>3, <1>4, <1>5, <1>6, <1>7, <1>8, <1>9, <1>10, <1>11, <1>12,
     <1>13, <1>14, <1>15 DEF ReadIter

LEMMA SensorReadIInv ==
  ASSUME IInv, SensorRead
  PROVE  IInv'
<1> USE DEF IInv
<1>1. UNCHANGED <<mqttVars, fileVars, now, iter, fw, qs, sent>>
  BY Zenon DEF SensorRead, SrWaitPoll, SrMeasureFails, SrStore, SrFull, SrRetry,
     SrCount, SrFreeSpace, SrSetLow, SrSetHigh
<1>2. Control'
  BY Zenon, <1>1 DEF Control
<1>3. sr' \in SrType
  <2>1. CASE SrWaitPoll
    <3>1. 1 \in 1 .. SensorCount
      BY SMT, SensorMgrAssumption
    <3>2. QED
      BY Zenon, <2>1, <3>1 DEF SrWaitPoll, TypeOK, SrType
  <2>2. CASE SrMeasureFails \/ SrCount
    BY Zenon, <2>2, SrNextSensorType DEF SrMeasureFails, SrCount
  <2>3. CASE SrStore \/ SrFull \/ SrRetry \/ SrSetLow
    <3>1. PICK p \in {"wait", "full", "retry", "count", "high"} : SrGoto(p)
      BY Zenon, <2>3 DEF SrStore, SrFull, SrRetry, SrSetLow
    <3>2. QED
      BY Zenon, <3>1, SrGotoEffect
  <2>4. CASE SrFreeSpace
    BY Zenon, <2>4, FreeSlotsInt DEF SrFreeSpace, TypeOK, SrType
  <2>5. CASE SrSetHigh
    <3>1. 1 \in 1 .. SensorCount /\ RingSlots \in Int
      BY SMT, SensorMgrAssumption
    <3>2. QED
      BY Zenon, <2>5, <3>1 DEF SrSetHigh, SrType
  <2>6. QED
    BY <2>1, <2>2, <2>3, <2>4, <2>5 DEF SensorRead
<1>4. events' \subseteq EventBits
  BY Zenon DEF TypeOK, SensorRead, SrWaitPoll, SrMeasureFails, SrStore, SrFull, SrRetry,
     SrCount, SrFreeSpace, SrSetLow, SrSetHigh, AwaitBits, SetBits
<1>5. ring' \in [read : 1 .. MaxReading + 1, write : 1 .. MaxReading + 1]
  <2>1. CASE SrStore
    <3>1. ring.write + 1 \in 1 .. MaxReading + 1
      BY SMT, <2>1, SensorMgrAssumption DEF SrStore, TypeOK
    <3>2. QED
      BY Zenon, <2>1, <3>1 DEF SrStore, TypeOK
  <2>2. CASE ~SrStore
    BY Zenon, <2>2 DEF TypeOK, SensorRead, SrWaitPoll, SrMeasureFails, SrFull, SrRetry,
       SrCount, SrFreeSpace, SrSetLow, SrSetHigh
  <2>3. QED
    BY <2>1, <2>2
<1>6. itemCount' \in Int
  <2>1. itemCount' = itemCount \/ itemCount' = itemCount + 1
    BY Zenon DEF SensorRead, SrWaitPoll, SrMeasureFails, SrStore, SrFull, SrRetry,
       SrCount, SrFreeSpace, SrSetLow, SrSetHigh
  <2>2. QED
    BY SMT, <2>1 DEF TypeOK
<1>7. TypeOK'
  BY Zenon, <1>1, <1>3, <1>4, <1>5, <1>6 DEF TypeOK
<1>8. QED
  BY <1>2, <1>7

LEMMA FileWriterIInv ==
  ASSUME IInv, FileWriter
  PROVE  IInv'
<1> USE DEF IInv, IterPCs, IterStates, IterBecomes
<1>1. CASE FwWaitOffline \/ FwCheckSpace \/ FwPausePolling \/ FwWantDrain \/ FwResume
             \/ FwDoneWriting
  <2>1. PICK p \in {"check", "pause", "open", "drain", "paused", "wait"} :
          FwGoto(p) /\ fw.pc \notin {"read", "close"}
    BY Zenon, <1>1 DEF FwWaitOffline, FwCheckSpace, FwPausePolling, FwWantDrain, FwResume,
       FwDoneWriting
  <2>2. fw' \in FwType /\ fw'.pc = p /\ fw'.file = fw.file /\ fw'.data = fw.data
    BY Zenon, <2>1, FwGotoEffect
  <2>3. UNCHANGED <<mqttVars, ringVars, fileVars, now, iter, sr, qs, sent>>
    BY Zenon, <1>1 DEF FwWaitOffline, FwCheckSpace, FwPausePolling, FwWantDrain, FwResume,
       FwDoneWriting
  <2>4. events' \subseteq EventBits
    BY Zenon, <1>1 DEF TypeOK, FwWaitOffline, FwCheckSpace, FwPausePolling, FwWantDrain,
       FwResume, FwDoneWriting, AwaitBits, SetBits, ClearBits
  <2>5. TypeOK'
    BY Zenon, <2>2, <2>3, <2>4 DEF TypeOK
  <2>6. Control'
    BY SMT, <2>1, <2>2, <2>3 DEF Control
  <2>7. QED
    BY <2>5, <2>6
<1>2. CASE FwOpen
  <2>1. IterBecomes("fw", "switch", iter["fw"].state, iter["fw"].reading)
    BY Zenon, <1>2, IterGotoEffect DEF FwOpen
  <2>2. DOMAIN files' \subseteq FileNames /\ \A f \in DOMAIN files' : files'[f] \subseteq Readings
    BY Zenon, <1>2, FwOpenEffect DEF TypeOK, FileNames
  <2>3. lost' \subseteq Readings
    <3>1. \A f : Contents(f) \subseteq Readings
      BY Zenon DEF TypeOK, Contents
    <3>2. lost' = lost \cup (Contents(now') \ (Delivered \cup qs.todo \cup {qs.reading}))
      BY Zenon, <1>2 DEF FwOpen
    <3>3. QED
      BY Zenon, <3>1, <3>2 DEF TypeOK
  <2>4. fw.pc = "open" /\ UNCHANGED <<events, mqttVars, ringVars, hasFiles, sr, qs, sent>>
    BY Zenon, <1>2 DEF FwOpen
  <2>5. TypeOK'
    BY Zenon, <1>2, <2>1, <2>2, <2>3, <2>4, FwOpenEffect DEF TypeOK
  <2>6. Control'
    BY SMT, <1>2, <2>1, <2>4, FwOpenEffect DEF Control
  <2>7. QED
    BY <2>5, <2>6
<1>3. CASE FwNothingLeft
  <2>1. IterBecomes("fw", "idle", iter["fw"].state, iter["fw"].reading)
    BY Zenon, <1>3, IterGotoEffect DEF FwNothingLeft
  <2>2. fw' \in FwType /\ fw'.pc = "close" /\ fw'.file = fw.file /\ fw'.data = fw.data
    BY Zenon, <1>3, FwGotoEffect DEF FwNothingLeft
  <2>3. TypeOK'
    BY Zenon, <1>3, <2>1, <2>2 DEF TypeOK, FwNothingLeft
  <2>4. Control'
    BY SMT, <1>3, <2>1, <2>2 DEF Control, FwNothingLeft
  <2>5. QED
    BY <2>3, <2>4
<1>4. CASE FwWrite
  <2>1. PICK full \in BOOLEAN :
          /\ fw'.pc = (IF full THEN "close" ELSE "read")
          /\ IterGoto("fw", IF full THEN "idle" ELSE "switch")
    <3>1. (Cardinality(fw.data \cup {iter["fw"].reading}) > fw.room) \in BOOLEAN
      BY SMT
    <3>2. QED
      BY Zenon, <1>4, <3>1, FwWriteEffect DEF FwWrite
  <2>2. IterBecomes("fw", IF full THEN "idle" ELSE "switch", iter["fw"].state, iter["fw"].reading)
    BY Zenon, <2>1, IterGotoEffect
  <2>3. fw' \in FwType /\ fw.pc = "read" /\ iter["fw"].pc = "ret"
        /\ UNCHANGED <<events, mqttVars, ringVars, fileVars, now, sr, qs, sent>>
    BY Zenon, <1>4, FwWriteEffect DEF FwWrite
  <2>4. TypeOK'
    BY Zenon, <2>2, <2>3 DEF TypeOK
  <2>5. Control'
    BY SMT, <2>1, <2>2, <2>3 DEF Control
  <2>6. QED
    BY <2>4, <2>5
<1>5. CASE FwClose
  <2>1. DOMAIN files' \subseteq FileNames /\ \A f \in DOMAIN files' : files'[f] \subseteq Readings
    BY Zenon, <1>5 DEF FwClose, TypeOK, FwType
  <2>2. lost' \subseteq Readings
    BY Zenon, <1>5 DEF FwClose, TypeOK, FwType
  <2>3. fw.pc = "close" /\ hasFiles' \in BOOLEAN
        /\ UNCHANGED <<events, mqttVars, ringVars, now, iter, sr, qs, sent>>
    BY Zenon, <1>5 DEF FwClose
  <2>4. TypeOK'
    BY Zenon, <1>5, <2>1, <2>2, <2>3, FwCloseEffect DEF TypeOK
  <2>5. Control'
    BY SMT, <1>5, <2>3, FwCloseEffect DEF Control
  <2>6. QED
    BY <2>4, <2>5
<1>6. CASE ReadIter("fw")
  BY <1>6, IterIInv
<1>7. QED
  BY <1>1, <1>2, <1>3, <1>4, <1>5, <1>6 DEF FileWriter

LEMMA QueueSendIInv ==
  ASSUME IInv, QueueSend
  PROVE  IInv'
<1> USE DEF IInv, IterPCs, IterStates, IterBecomes
<1>1. CASE QsWaitOnline
  <2>1. IterBecomes("qs", "switch", iter["qs"].state, iter["qs"].reading)
    BY Zenon, <1>1, IterGotoEffect DEF QsWaitOnline
  <2>2. /\ qs' \in QsType
        /\ qs'.pc = "read" /\ qs'.file = qs.file /\ qs'.todo = qs.todo
        /\ qs'.reading = qs.reading /\ qs'.idx = qs.idx
    BY Zenon, <1>1, QsGotoEffect DEF QsWaitOnline
  <2>3. qs.pc = "wait" /\ UNCHANGED <<events, mqttVars, ringVars, fileVars, now, sr, fw, sent>>
    BY Zenon, <1>1 DEF QsWaitOnline, AwaitBits
  <2>4. TypeOK'
    BY Zenon, <2>1, <2>2, <2>3 DEF TypeOK
  <2>5. Control'
    BY SMT, <2>1, <2>2, <2>3, SensorMgrAssumption DEF Control
  <2>6. QED
    BY <2>4, <2>5
<1>2. CASE QsMarshall
  <2>1. PICK full \in BOOLEAN :
          /\ full = (qs.idx + 1 = BatchMax)
          /\ IterGoto("qs", IF full THEN "idle" ELSE "switch")
    BY Zenon, <1>2 DEF QsMarshall
  <2>2. IterBecomes("qs", IF full THEN "idle" ELSE "switch", iter["qs"].state, iter["qs"].reading)
    BY Zenon, <2>1, IterGotoEffect
  <2>3. qs.pc = "read" /\ iter["qs"].pc = "ret"
        /\ UNCHANGED <<events, mqttVars, ringVars, fileVars, now, sr, fw, sent>>
    BY Zenon, <1>2 DEF QsMarshall
  <2>4. qs.idx < BatchMax
    BY Zenon, <2>3 DEF Control
  <2>5. /\ qs' \in QsType
        /\ qs'.pc = (IF full THEN "queue" ELSE "read") /\ qs'.idx = qs.idx + 1
        /\ qs'.file = qs.file /\ qs'.todo = qs.todo /\ qs'.reading = None
    BY Zenon, <1>2, <2>1, <2>4, QsMarshallEffect
  <2>6. TypeOK'
    BY Zenon, <2>2, <2>3, <2>5 DEF TypeOK
  <2>7. qs.idx \in Int
    <3>1. qs.idx \in 0 .. BatchMax
      BY Zenon DEF TypeOK, QsType
    <3>2. QED
      BY SMT, <3>1
  <2>8. Control'
    <3>1. qs'.pc = "read" => qs'.idx < BatchMax
      <4>1. qs'.pc = "read" => qs.idx + 1 # BatchMax
        BY Zenon, <2>1, <2>5
      <4>2. QED
        BY SMT, <2>4, <2>5, <2>7, <4>1, SensorMgrAssumption
    <3>2. CASE full
      <4>1. qs'.pc = "queue" /\ iter'["qs"].pc = "idle"
        BY Zenon, <2>2, <2>5, <3>2
      <4>2. QED
        BY SMT, <2>2, <2>3, <2>5, <4>1 DEF Control
    <3>3. CASE ~full
      <4>1. qs'.pc = "read" /\ iter'["qs"].pc = "switch"
        BY Zenon, <2>2, <2>5, <3>3
      <4>2. QED
        BY SMT, <2>2, <2>3, <2>5, <3>1, <4>1 DEF Control
    <3>4. QED
      BY <3>2, <3>3
  <2>9. QED
    BY <2>6, <2>8
<1>3. CASE QsNothingLeft
  <2>1. PICK p \in {"queue", "wait"} : QsGoto(p) /\ (p = "wait" => qs.idx = 0)
    BY Zenon, <1>3 DEF QsNothingLeft
  <2>2. /\ qs' \in QsType
        /\ qs'.pc = p /\ qs'.file = qs.file /\ qs'.todo = qs.todo
        /\ qs'.reading = qs.reading /\ qs'.idx = qs.idx
    BY Zenon, <2>1, QsGotoEffect
  <2>3. IterBecomes("qs", "idle", iter["qs"].state, iter["qs"].reading)
    BY Zenon, <1>3, IterGotoEffect DEF QsNothingLeft
  <2>4. /\ qs.pc = "read" /\ iter["qs"].pc = "ret" /\ QsReading = None
        /\ UNCHANGED <<events, mqttVars, ringVars, fileVars, now, sr, fw, sent>>
    BY Zenon, <1>3 DEF QsNothingLeft
  <2>5. TypeOK'
    BY Zenon, <2>2, <2>3, <2>4 DEF TypeOK
  <2>6. Control'
    BY SMT, <2>1, <2>2, <2>3, <2>4 DEF Control, QsReading
  <2>7. QED
    BY <2>5, <2>6
<1>4. CASE QsQueue
  <2>1. qs.pc = "queue" /\ UNCHANGED <<events, net, ringVars, fileVars, now, iter, sr, fw>>
    BY Zenon, <1>4 DEF QsQueue
  <2>2. outq' \in 0 .. QueueSlots
    BY SMT, <1>4, SensorMgrAssumption DEF QsQueue, TypeOK
  <2>3. sent' \subseteq Readings
    BY Zenon, <1>4 DEF QsQueue, TypeOK, QsType
  <2>4. TypeOK'
    BY Zenon, <1>4, <2>1, <2>2, <2>3, QsQueueEffect DEF TypeOK
  <2>5. Control'
    BY SMT, <1>4, <2>1, QsQueueEffect DEF Control
  <2>6. QED
    BY <2>4, <2>5
<1>5. CASE ReadIter("qs")
  BY <1>5, IterIInv
<1>6. QED
  BY <1>1, <1>2, <1>3, <1>4, <1>5 DEF QueueSend

LEMMA MqttIInv ==
  ASSUME IInv, Mqtt
  PROVE  IInv'
<1> USE DEF IInv
<1>1. UNCHANGED <<ringVars, fileVars, now, iter, sr, fw, qs, sent>>
  BY Zenon DEF Mqtt, MqttConnected, MqttNotNotConn, MqttConnectFails, MqttDisconnected,
     MqttNotConnected, WatchdogRestarts, MqttPublish, MqttBits
<1>2. events' \subseteq EventBits /\ net' \in {"down", "connecting", "up", "dropping"}
  BY Zenon DEF TypeOK, Mqtt, MqttConnected, MqttNotNotConn, MqttConnectFails,
     MqttDisconnected, MqttNotConnected, WatchdogRestarts, MqttPublish, MqttBits
<1>3. outq' \in 0 .. QueueSlots
  <2>1. outq' = outq \/ (outq > 0 /\ outq' = outq - 1)
    BY Zenon DEF Mqtt, MqttConnected, MqttNotNotConn, MqttConnectFails, MqttDisconnected,
       MqttNotConnected, WatchdogRestarts, MqttPublish, MqttBits
  <2>2. QED
    BY SMT, <2>1, SensorMgrAssumption DEF TypeOK
<1>4. TypeOK'
  BY Zenon, <1>1, <1>2, <1>3 DEF TypeOK
<1>5. Control'
  BY Zenon, <1>1 DEF Control
<1>6. QED
  BY <1>4, <1>5

LEMMA NextIInv == IInv /\ [Next]_vars => IInv'
<1> SUFFICES ASSUME IInv, [Next]_vars PROVE IInv'
  OBVIOUS
<1>1. CASE SensorRead
  BY <1>1, SensorReadIInv
<1>2. CASE FileWriter
  BY <1>2, FileWriterIInv
<1>3. CASE QueueSend
  BY <1>3, QueueSendIInv
<1>4. CASE Mqtt
  BY <1>4, MqttIInv
<1>5. CASE UNCHANGED vars
  <2>1. TypeOK'
    BY Zenon, <1>5 DEF IInv, TypeOK, vars
  <2>2. Control'
    BY Zenon, <1>5 DEF IInv, Control, vars
  <2>3. QED
    BY Zenon, <2>1, <2>2 DEF IInv
<1>6. QED
  BY <1>1, <1>2, <1>3, <1>4, <1>5 DEF Next, Aborted

LEMMA InductiveInvariant == Spec => []IInv
BY InitIInv, NextIInv, PTL DEF Spec

(* Every variable keeps its type: the MQTT queue never exceeds its capacity and *)
(* a batch never more readings than the loop of queuesend may take.             *)
THEOREM TypeCorrect == Spec => []TypeOK
<1>1. IInv => TypeOK
  BY DEF IInv
<1>2. QED
  BY <1>1, InductiveInvariant, PTL

--------------------------------------------------------------------------------
(* Where the readings are. Every reading is either still unread in the ring     *)
(* buffer or in one of the places below, and these are disjoint, but that the   *)
(* file queuesend reads still holds what it has read: that is why the removal   *)
(* of a file takes nothing else away, and why nothing is sent twice.            *)

(* Received from the ring buffer, and not yet written or put in a batch         *)
FreshOf(c) ==
  {r \in Readings : /\ r = iter[c].reading
                    /\ iter[c].pc \in {"space", "high", "low", "drained", "ret"}}

Todo == qs.todo \cup ({qs.reading} \ {None})

Taken == fw.data \cup Todo \cup Stored \cup Delivered \cup lost

TakenOnce ==
  /\ ring.read <= ring.write
  /\ \A r \in Readings :
       r < ring.read <=> r \in FreshOf("fw") \cup FreshOf("qs") \cup Taken
  /\ FreshOf("fw") \cap FreshOf("qs") = {}
  /\ FreshOf("fw") \cap Taken = {}
  /\ FreshOf("qs") \cap Taken = {}

FilesApart ==
  /\ \A f \in DOMAIN files : f # qs.file => files[f] \cap (Delivered \cup Todo) = {}
  /\ \A f, g \in DOMAIN files : f # g => files[f] \cap files[g] = {}
  /\ fw.file \in DOMAIN files => files[fw.file] = {}

TasksApart ==
  /\ fw.data \cap (Todo \cup Stored \cup Delivered \cup lost) = {}
  /\ lost \cap (Todo \cup Stored \cup Delivered) = {}
  /\ Todo \cap Delivered = {}
  /\ qs.reading \notin qs.todo
  /\ qs.batch \cap sent = {}

Places == TakenOnce /\ FilesApart /\ TasksApart

LEMMA PlacesFrame ==
  ASSUME Places, UNCHANGED <<ring, files, lost, sent>>,
         FreshOf("fw")' = FreshOf("fw"), FreshOf("qs")' = FreshOf("qs"),
         fw'.data = fw.data, fw'.file = fw.file, qs'.todo = qs.todo,
         qs'.reading = qs.reading, qs'.file = qs.file, qs'.batch = qs.batch
  PROVE  Places'
<1>1. Todo' = Todo /\ Stored' = Stored /\ Delivered' = Delivered
  BY Zenon DEF Todo, Stored, Delivered
<1>2. Taken' = Taken
  BY Zenon, <1>1 DEF Taken
<1>3. QED
  BY Zenon, <1>1, <1>2 DEF Places, TakenOnce, FilesApart, TasksApart

LEMMA InStored ==
  ASSUME NEW r
  PROVE  /\ r \in Stored <=> \E f \in DOMAIN files : r \in files[f]
         /\ (r \in Stored)' <=> \E f \in DOMAIN files' : r \in files'[f]
BY Zenon DEF Stored

LEMMA FreshFrame ==
  ASSUME IInv, NEW c \in Consumers, NEW p, NEW s,
         IterBecomes(c, p, s, iter[c].reading),
         \/ iter[c].reading = None
         \/ {p, iter[c].pc} \subseteq {"space", "high", "low", "drained", "ret"}
         \/ {p, iter[c].pc} \cap {"space", "high", "low", "drained", "ret"} = {}
  PROVE  FreshOf("fw")' = FreshOf("fw") /\ FreshOf("qs")' = FreshOf("qs")
<1>1. FreshOf(c)' = FreshOf(c)
  <2>1. None \notin Readings
    BY SMT DEF Readings
  <2>2. QED
    BY Zenon, <2>1 DEF FreshOf, IterBecomes
<1>2. \A d \in Consumers \ {c} : FreshOf(d)' = FreshOf(d)
  BY Zenon DEF FreshOf, IterBecomes
<1>3. QED
  BY Zenon, <1>1, <1>2

LEMMA ReceivePlaces ==
  ASSUME IInv, Places, NEW c \in Consumers, IterReceive(c)
  PROVE  Places'
<1> USE DEF IInv
<1>1. iter[c].reading = None
  BY Zenon DEF IterReceive, IterAt, Control
<1>2. UNCHANGED <<itemCount, files, lost, sent, fw, qs>>
  BY Zenon DEF IterReceive
<1>3. CASE Unread = {}
  <2>1. UNCHANGED ring /\ IterGoto(c, "space")
    BY Zenon, <1>3 DEF IterReceive
  <2>2. IterBecomes(c, "space", iter[c].state, iter[c].reading)
    BY Zenon, <2>1, IterGotoEffect DEF IterPCs
  <2>3. QED
    BY Zenon, <1>1, <1>2, <2>1, <2>2, FreshFrame, PlacesFrame
<1>4. CASE Unread # {}
  <2>1. ring.read \in Readings /\ ring.read < ring.write
    BY SMT, <1>4, SensorMgrAssumption DEF TypeOK, Unread, Readings
  <2>2. ring' = [ring EXCEPT !.read = @ + 1] /\ IterHold(c, ring.read, "space")
    BY Zenon, <1>4 DEF IterReceive
  <2>3. ring'.read = ring.read + 1 /\ ring'.write = ring.write
    BY Zenon, <2>2 DEF TypeOK
  <2>4. IterBecomes(c, "space", iter[c].state, ring.read)
    BY Zenon, <2>1, <2>2, IterHoldEffect DEF IterPCs
  <2>5. FreshOf(c) = {} /\ FreshOf(c)' = {ring.read}
    <3>1. None \notin Readings
      BY SMT DEF Readings
    <3>2. QED
      BY Zenon, <1>1, <2>1, <2>4, <3>1 DEF FreshOf, IterBecomes
  <2>6. \A d \in Consumers \ {c} : FreshOf(d)' = FreshOf(d)
    BY Zenon, <2>4 DEF FreshOf, IterBecomes
  <2>7. Todo' = Todo /\ Stored' = Stored /\ Delivered' = Delivered
    BY Zenon, <1>2 DEF Todo, Stored, Delivered
  <2>8. Taken' = Taken
    BY Zenon, <1>2, <2>7 DEF Taken
  <2>9. FilesApart' /\ TasksApart'
    BY Zenon, <1>2, <2>7 DEF Places, FilesApart, TasksApart
  <2>10. TakenOnce'
    <3>1. ring.read \in Int /\ ring.write \in Int
      BY SMT DEF TypeOK
    <3>2. Readings \subseteq Int
      BY SMT DEF Readings
    <3>3. CASE c = "fw"
      BY SMT, <2>1, <2>3, <2>5, <2>6, <2>8, <3>1, <3>2, <3>3 DEF Places, TakenOnce
    <3>4. CASE c = "qs"
      BY SMT, <2>1, <2>3, <2>5, <2>6, <2>8, <3>1, <3>2, <3>4 DEF Places, TakenOnce
    <3>5. QED
      BY <3>3, <3>4
  <2>11. QED
    BY <2>9, <2>10 DEF Places
<1>5. QED
  BY <1>3, <1>4

LEMMA StorePlaces ==
  ASSUME IInv, Places, SrStore
  PROVE  Places'
<1> USE DEF IInv
<1>1. ring'.read = ring.read /\ ring'.write = ring.write + 1
  BY Zenon DEF SrStore, TypeOK
<1>2. UNCHANGED <<files, lost, iter, fw, qs, sent>>
  BY Zenon DEF SrStore
<1>3. Todo' = Todo /\ Stored' = Stored /\ Delivered' = Delivered
      /\ FreshOf("fw")' = FreshOf("fw") /\ FreshOf("qs")' = FreshOf("qs")
  BY Zenon, <1>2 DEF Todo, Stored, Delivered, FreshOf
<1>4. Taken' = Taken
  BY Zenon, <1>2, <1>3 DEF Taken
<1>5. FilesApart' /\ TasksApart'
  BY Zenon, <1>2, <1>3 DEF Places, FilesApart, TasksApart
<1>6. ring'.read <= ring'.write
  BY SMT, <1>1 DEF Places, TakenOnce, TypeOK
<1>7. QED
  BY Zenon, <1>1, <1>3, <1>4, <1>5, <1>6 DEF Places, TakenOnce

LEMMA WritePlaces ==
  ASSUME IInv, Places, FwWrite
  PROVE  Places'
<1> USE DEF IInv
<1> DEFINE r == iter["fw"].reading
<1>1. r \in Readings /\ iter["fw"].pc = "ret" /\ fw.pc = "read"
      /\ UNCHANGED <<ring, files, lost, qs, sent>>
  BY Zenon DEF FwWrite, TypeOK, IterType
<1>2. fw'.data = fw.data \cup {r} /\ fw'.file = fw.file
  BY Zenon, FwWriteEffect
<1>3. PICK p \in {"idle", "switch"} : IterGoto("fw", p)
  BY Zenon DEF FwWrite
<1>4. IterBecomes("fw", p, iter["fw"].state, r)
  BY Zenon, <1>3, IterGotoEffect DEF IterPCs
<1>5. FreshOf("fw") = {r} /\ FreshOf("fw")' = {} /\ FreshOf("qs")' = FreshOf("qs")
  BY Zenon, <1>1, <1>4 DEF FreshOf, IterBecomes
<1>6. Todo' = Todo /\ Stored' = Stored /\ Delivered' = Delivered
  BY Zenon, <1>1 DEF Todo, Stored, Delivered
<1>7. Taken' = Taken \cup {r}
  BY Zenon, <1>1, <1>2, <1>6 DEF Taken
<1>8. r \notin Taken
  BY Zenon, <1>5 DEF Places, TakenOnce
<1>9. TakenOnce'
  BY SMT, <1>1, <1>5, <1>7 DEF Places, TakenOnce
<1>10. FilesApart'
  BY Zenon, <1>1, <1>2, <1>6 DEF Places, FilesApart
<1>11. TasksApart'
  BY SMT, <1>1, <1>2, <1>6, <1>8 DEF Places, TasksApart, Taken
<1>12. QED
  BY <1>9, <1>10, <1>11 DEF Places

LEMMA OpenPlaces ==
  ASSUME IInv, Places, FwOpen
  PROVE  Places'
<1> USE DEF IInv
<1> DEFINE erased == Contents(now') \ (Delivered \cup qs.todo \cup {qs.reading})
<1>1. /\ fw.pc = "open" /\ fw.data = {}
      /\ UNCHANGED <<ring, qs, sent>>
      /\ lost' = lost \cup erased
  BY Zenon DEF FwOpen, Control
<1>2. /\ DOMAIN files' = DOMAIN files \cup {now'}
      /\ files'[now'] = {}
      /\ \A f \in DOMAIN files \ {now'} : files'[f] = files[f]
      /\ fw'.file = now' /\ fw'.data = {}
  BY Zenon, <1>1, FwOpenEffect
<1>3. IterBecomes("fw", "switch", iter["fw"].state, iter["fw"].reading)
  BY Zenon, IterGotoEffect DEF FwOpen, IterPCs
<1>4. iter["fw"].pc = "idle"
  BY Zenon, <1>1 DEF Control
<1>5. FreshOf("fw")' = FreshOf("fw") /\ FreshOf("qs")' = FreshOf("qs")
  BY Zenon, <1>3, <1>4, FreshFrame
<1>6. Todo' = Todo /\ Delivered' = Delivered
  BY Zenon, <1>1 DEF Todo, Delivered
<1>7. erased \subseteq Stored /\ \A x \in erased : x \notin Delivered /\ x \notin Todo
  BY Zenon DEF Contents, Stored, Todo
<1>8. \A x : x \in Stored <=> x \in Stored' \/ x \in Contents(now')
  <2>1. \A x : x \in Contents(now') <=> now' \in DOMAIN files /\ x \in files[now']
    BY Zenon DEF Contents
  <2>2. QED
    BY Zenon, <1>2, <2>1, InStored
<1>9. \A x \in erased : x \notin Stored'
  <2>1. SUFFICES ASSUME NEW x \in erased, NEW f \in DOMAIN files', x \in files'[f]
                 PROVE  FALSE
    BY Zenon, InStored
  <2>2. f # now' /\ f \in DOMAIN files /\ x \in files[f]
    BY Zenon, <1>2, <2>1
  <2>3. now' \in DOMAIN files /\ x \in files[now']
    BY Zenon, <2>1 DEF Contents
  <2>4. QED
    BY Zenon, <2>2, <2>3 DEF Places, FilesApart
<1>10. \A x : x \in Taken' <=> x \in Taken
  <2>1. \A x : x \in Contents(now') => x \in erased \/ x \in Delivered \/ x \in Todo
    <3>1. \A x : x \in Contents(now') => x \in Readings
      BY Zenon DEF TypeOK, Contents
    <3>2. None \notin Readings
      BY SMT DEF Readings
    <3>3. QED
      BY Zenon, <3>1, <3>2 DEF Todo
  <2>2. QED
    BY Zenon, <1>1, <1>2, <1>6, <1>7, <1>8, <2>1 DEF Taken
<1>11. TakenOnce'
  BY Zenon, <1>1, <1>5, <1>10 DEF Places, TakenOnce
<1>12. FilesApart'
  BY Zenon, <1>1, <1>2, <1>6 DEF Places, FilesApart
<1>13. TasksApart'
  BY Zenon, <1>1, <1>2, <1>6, <1>7, <1>8, <1>9 DEF Places, TasksApart
<1>14. QED
  BY <1>11, <1>12, <1>13 DEF Places

LEMMA ClosePlaces ==
  ASSUME IInv, Places, FwClose
  PROVE  Places'
<1> USE DEF IInv
<1>1. /\ fw'.data = {} /\ fw'.file = NoFile
      /\ UNCHANGED <<ring, iter, qs, sent>>
  BY Zenon, FwCloseEffect DEF FwClose
<1>2. FreshOf("fw")' = FreshOf("fw") /\ FreshOf("qs")' = FreshOf("qs")
      /\ Todo' = Todo /\ Delivered' = Delivered
  BY Zenon, <1>1 DEF FreshOf, Todo, Delivered
<1>3. NoFile \notin FileNames
  BY SMT DEF FileNames
<1>4. DOMAIN files' = DOMAIN files /\ NoFile \notin DOMAIN files'
  BY Zenon, <1>3 DEF FwClose, TypeOK
<1>5. CASE fw.file \in DOMAIN files
  <2>1. /\ lost' = lost /\ files'[fw.file] = fw.data
        /\ \A f \in DOMAIN files \ {fw.file} : files'[f] = files[f]
    BY Zenon, <1>5 DEF FwClose
  <2>2. files[fw.file] = {}
    BY Zenon, <1>5 DEF Places, FilesApart
  <2>3. \A x : x \in Stored' <=> x \in Stored \/ x \in fw.data
    BY Zenon, <1>4, <1>5, <2>1, <2>2, InStored
  <2>4. \A x : x \in Taken' <=> x \in Taken
    BY Zenon, <1>1, <1>2, <2>1, <2>3 DEF Taken
  <2>5. TakenOnce'
    BY Zenon, <1>1, <1>2, <2>4 DEF Places, TakenOnce
  <2>6. \A x \in fw.data : x \notin Todo /\ x \notin Delivered /\ x \notin Stored
                             /\ x \notin lost
    BY Zenon DEF Places, TasksApart
  <2>7. FilesApart'
    <3>1. \A f \in DOMAIN files' : f # qs'.file => files'[f] \cap (Delivered' \cup Todo') = {}
      BY Zenon, <1>1, <1>2, <1>4, <2>1, <2>6 DEF Places, FilesApart
    <3>2. \A f \in DOMAIN files : files[f] \cap fw.data = {}
      BY Zenon, <2>6, InStored
    <3>3. ASSUME NEW f \in DOMAIN files', NEW g \in DOMAIN files', f # g
          PROVE  files'[f] \cap files'[g] = {}
      <4>1. CASE f = fw.file
        BY Zenon, <1>4, <2>1, <3>2, <3>3, <4>1
      <4>2. CASE g = fw.file
        BY Zenon, <1>4, <2>1, <3>2, <3>3, <4>2
      <4>3. CASE f # fw.file /\ g # fw.file
        BY Zenon, <1>4, <2>1, <3>3, <4>3 DEF Places, FilesApart
      <4>4. QED
        BY <4>1, <4>2, <4>3
    <3>4. QED
      BY Zenon, <1>1, <1>4, <3>1, <3>3 DEF FilesApart
  <2>8. TasksApart'
    BY Zenon, <1>1, <1>2, <2>1, <2>3, <2>6 DEF Places, TasksApart
  <2>9. QED
    BY <2>5, <2>7, <2>8 DEF Places
<1>6. CASE fw.file \notin DOMAIN files
  <2>1. lost' = lost \cup fw.data /\ files' = files
    BY Zenon, <1>6 DEF FwClose
  <2>2. Stored' = Stored
    BY Zenon, <2>1 DEF Stored
  <2>3. \A x : x \in Taken' <=> x \in Taken
    BY Zenon, <1>1, <1>2, <2>1, <2>2 DEF Taken
  <2>4. TakenOnce'
    BY Zenon, <1>1, <1>2, <2>3 DEF Places, TakenOnce
  <2>5. FilesApart'
    BY Zenon, <1>1, <1>2, <1>4, <2>1 DEF Places, FilesApart
  <2>6. TasksApart'
    BY Zenon, <1>1, <1>2, <2>1, <2>2 DEF Places, TasksApart
  <2>7. QED
    BY <2>4, <2>5, <2>6 DEF Places
<1>7. QED
  BY <1>5, <1>6

LEMMA OpenFilePlaces ==
  ASSUME IInv, Places, NEW c \in Consumers, IterOpenFile(c)
  PROVE  Places'
<1> USE DEF IInv
<1>1. PICK f \in DOMAIN files : qs' = [qs EXCEPT !.file = f, !.todo = files[f]]
  BY Zenon DEF IterOpenFile
<1>2. /\ qs'.file = f /\ qs'.todo = files[f]
      /\ qs'.reading = qs.reading /\ qs'.batch = qs.batch
  BY Zenon, <1>1, QsOpenEffect
<1>3. iter[c].pc = "switch" /\ iter[c].state = "HFNO" /\ iter[c].reading = None
      /\ IterState(c, "HFOO") /\ UNCHANGED <<ring, files, lost, fw, sent>>
  BY Zenon DEF IterOpenFile, IterAt, Control
<1>4. c = "qs" /\ qs.file = NoFile /\ qs.todo = {} /\ qs.reading = None
  BY Zenon, <1>3 DEF Control
<1>5. IterBecomes(c, "switch", "HFOO", iter[c].reading)
  BY Zenon, <1>3, IterStateEffect DEF IterStates
<1>6. FreshOf("fw")' = FreshOf("fw") /\ FreshOf("qs")' = FreshOf("qs")
  BY Zenon, <1>3, <1>5, FreshFrame
<1>7. Todo' = files[f] /\ Todo = {} /\ Stored' = Stored /\ Delivered' = Delivered
  BY Zenon, <1>2, <1>3, <1>4 DEF Todo, Stored, Delivered
<1>8. files[f] \subseteq Stored /\ None \notin files[f]
  <2>1. None \notin Readings
    BY SMT DEF Readings
  <2>2. QED
    BY Zenon, <2>1 DEF Stored, TypeOK
<1>9. \A x : x \in Taken' <=> x \in Taken
  BY Zenon, <1>3, <1>7, <1>8 DEF Taken
<1>10. TakenOnce'
  BY Zenon, <1>3, <1>6, <1>9 DEF Places, TakenOnce
<1>11. \A g \in DOMAIN files : files[g] \cap Delivered = {}
  <2>1. NoFile \notin FileNames
    BY SMT DEF FileNames
  <2>2. QED
    BY Zenon, <1>4, <2>1 DEF Places, FilesApart, TypeOK
<1>12. FilesApart'
  BY Zenon, <1>2, <1>3, <1>7, <1>11 DEF Places, FilesApart
<1>13. TasksApart'
  BY Zenon, <1>2, <1>3, <1>4, <1>7, <1>8, <1>11 DEF Places, TasksApart
<1>14. QED
  BY <1>10, <1>12, <1>13 DEF Places

LEMMA FreadPlaces ==
  ASSUME IInv, Places, NEW c \in Consumers, IterFread(c)
  PROVE  Places'
<1> USE DEF IInv
<1>1. PICK r \in qs.todo : qs' = [qs EXCEPT !.todo = @ \ {r}, !.reading = r]
  BY Zenon DEF IterFread
<1>2. /\ qs'.todo = qs.todo \ {r} /\ qs'.reading = r
      /\ qs'.file = qs.file /\ qs'.batch = qs.batch
  BY Zenon, <1>1, QsFreadEffect
<1>3. iter[c].pc = "fread" /\ iter[c].reading = None
      /\ IterGoto(c, "ret") /\ UNCHANGED <<ring, files, lost, fw, sent>>
  BY Zenon DEF IterFread, Control
<1>4. IterBecomes(c, "ret", iter[c].state, iter[c].reading)
  BY Zenon, <1>3, IterGotoEffect DEF IterPCs
<1>5. FreshOf("fw")' = FreshOf("fw") /\ FreshOf("qs")' = FreshOf("qs")
  BY Zenon, <1>3, <1>4, FreshFrame
<1>6. qs.reading = None
  BY Zenon, <1>3 DEF Control
<1>7. r # None
  <2>1. r \in Readings
    BY Zenon, <1>1 DEF TypeOK, QsType
  <2>2. QED
    BY SMT, <2>1 DEF Readings
<1>8. Todo' = Todo /\ Stored' = Stored /\ Delivered' = Delivered
  BY Zenon, <1>1, <1>2, <1>3, <1>6, <1>7 DEF Todo, Stored, Delivered
<1>9. Taken' = Taken
  BY Zenon, <1>3, <1>8 DEF Taken
<1>10. QED
  BY Zenon, <1>2, <1>3, <1>5, <1>8, <1>9 DEF Places, TakenOnce, FilesApart, TasksApart

LEMMA EndOfFilePlaces ==
  ASSUME IInv, Places, NEW c \in Consumers, IterEndOfFile(c)
  PROVE  Places'
<1> USE DEF IInv
<1> DEFINE erased == (Contents(qs.file) \cup qs.todo) \ Delivered
<1>1. /\ iter[c].pc = "fread" /\ iter[c].reading = None
      /\ files' = [f \in DOMAIN files \ {qs.file} |-> files[f]]
      /\ lost' = lost \cup erased
      /\ IterTo(c, "HFNO", "switch") /\ UNCHANGED <<ring, fw, sent>>
  BY Zenon DEF IterEndOfFile, Control
<1>2. /\ qs'.file = NoFile /\ qs'.todo = {}
      /\ qs'.reading = qs.reading /\ qs'.batch = qs.batch
  BY Zenon, QsEndOfFileEffect DEF IterEndOfFile
<1>3. IterBecomes(c, "switch", "HFNO", iter[c].reading)
  BY Zenon, <1>1, IterToEffect DEF IterPCs, IterStates
<1>4. FreshOf("fw")' = FreshOf("fw") /\ FreshOf("qs")' = FreshOf("qs")
  BY Zenon, <1>1, <1>3, FreshFrame
<1>5. qs.reading = None
  BY Zenon, <1>1 DEF Control
<1>6. Todo' = {} /\ Todo = qs.todo /\ Delivered' = Delivered
  BY Zenon, <1>1, <1>2, <1>5 DEF Todo, Delivered
<1>7. /\ DOMAIN files' = DOMAIN files \ {qs.file}
      /\ \A f \in DOMAIN files' : files'[f] = files[f]
  BY Zenon, <1>1
<1>8. \A x : x \in Stored <=> x \in Stored' \/ x \in Contents(qs.file)
  <2>1. \A x : x \in Contents(qs.file) <=> qs.file \in DOMAIN files /\ x \in files[qs.file]
    BY Zenon DEF Contents
  <2>2. QED
    BY Zenon, <1>7, <2>1, InStored
<1>9. \A x : x \in Stored' => x \notin Contents(qs.file) /\ x \notin Todo /\ x \notin Delivered
  <2>1. SUFFICES ASSUME NEW x, NEW f \in DOMAIN files', x \in files'[f]
                 PROVE  x \notin Contents(qs.file) /\ x \notin Todo /\ x \notin Delivered
    BY Zenon, InStored
  <2>2. f # qs.file /\ f \in DOMAIN files /\ x \in files[f]
    BY Zenon, <1>7, <2>1
  <2>3. QED
    BY Zenon, <2>2 DEF Places, FilesApart, Contents
<1>10. \A x : x \in Taken' <=> x \in Taken
  BY Zenon, <1>1, <1>6, <1>8 DEF Taken
<1>11. TakenOnce'
  BY Zenon, <1>1, <1>4, <1>10 DEF Places, TakenOnce
<1>12. FilesApart'
  <2>1. \A f \in DOMAIN files' : files'[f] \cap Delivered = {}
    BY Zenon, <1>7 DEF Places, FilesApart
  <2>2. QED
    BY Zenon, <1>1, <1>2, <1>6, <1>7, <2>1 DEF Places, FilesApart
<1>13. TasksApart'
  BY Zenon, <1>1, <1>2, <1>6, <1>8, <1>9 DEF Places, TasksApart
<1>14. QED
  BY <1>11, <1>12, <1>13 DEF Places

LEMMA MarshallPlaces ==
  ASSUME IInv, Places, QsMarshall
  PROVE  Places'
<1> USE DEF IInv
<1> DEFINE r == QsReading
<1>1. /\ qs.pc = "read" /\ iter["qs"].pc = "ret" /\ r # None
      /\ UNCHANGED <<ring, files, lost, fw, sent>>
  BY Zenon DEF QsMarshall
<1>2. /\ qs'.batch = qs.batch \cup {r} /\ qs'.reading = None
      /\ qs'.file = qs.file /\ qs'.todo = qs.todo
  <2>1. qs.idx < BatchMax
    BY Zenon, <1>1 DEF Control
  <2>2. QED
    BY Zenon, <2>1, QsMarshallEffect
<1>3. PICK p \in {"idle", "switch"} : IterGoto("qs", p)
  BY Zenon DEF QsMarshall
<1>4. IterBecomes("qs", p, iter["qs"].state, iter["qs"].reading)
  BY Zenon, <1>3, IterGotoEffect DEF IterPCs
<1>5. FreshOf("fw")' = FreshOf("fw") /\ FreshOf("qs")' = {}
  BY Zenon, <1>4 DEF FreshOf, IterBecomes
<1>6. Stored' = Stored /\ Delivered' = Delivered \cup {r}
  BY Zenon, <1>1, <1>2 DEF Stored, Delivered
<1>7. r \in Readings
  BY Zenon, <1>1 DEF QsReading, TypeOK, QsType, IterType
<1>8. CASE iter["qs"].state = "HFOO"
  <2>1. iter["qs"].reading = None /\ r = qs.reading
    BY Zenon, <1>8 DEF Control, QsReading
  <2>2. FreshOf("qs") = {}
    <3>1. None \notin Readings
      BY SMT DEF Readings
    <3>2. QED
      BY Zenon, <2>1, <3>1 DEF FreshOf
  <2>3. Todo = Todo' \cup {r} /\ r \notin Todo'
    BY Zenon, <1>1, <1>2, <2>1 DEF Todo, Places, TasksApart
  <2>4. r \notin Delivered /\ r \notin lost /\ r \notin fw.data /\ r \notin sent
    BY Zenon, <2>3 DEF Places, TasksApart, Delivered
  <2>5. \A x : x \in Taken' <=> x \in Taken
    BY Zenon, <1>1, <1>6, <2>3 DEF Taken
  <2>6. TakenOnce'
    BY Zenon, <1>1, <1>5, <2>2, <2>5 DEF Places, TakenOnce
  <2>7. FilesApart'
    BY Zenon, <1>1, <1>2, <1>6, <2>3 DEF Places, FilesApart
  <2>8. TasksApart'
    <3>1. qs'.reading \notin qs'.todo
      <4>1. None \notin Readings
        BY SMT DEF Readings
      <4>2. QED
        BY Zenon, <1>2, <4>1 DEF TypeOK, QsType
    <3>2. QED
      BY Zenon, <1>1, <1>2, <1>6, <2>3, <2>4, <3>1 DEF Places, TasksApart
  <2>9. QED
    BY <2>6, <2>7, <2>8 DEF Places
<1>9. CASE iter["qs"].state # "HFOO"
  <2>1. r = iter["qs"].reading /\ qs.reading = None /\ qs.file = NoFile /\ qs.todo = {}
    BY Zenon, <1>9 DEF Control, QsReading
  <2>2. FreshOf("qs") = {r}
    BY Zenon, <1>1, <1>7, <2>1 DEF FreshOf
  <2>3. Todo' = {} /\ Todo = {}
    BY Zenon, <1>2, <2>1 DEF Todo
  <2>4. r \notin Taken
    BY Zenon, <2>2 DEF Places, TakenOnce
  <2>5. \A x : x \in Taken' <=> x \in Taken \/ x = r
    BY Zenon, <1>1, <1>6, <2>3 DEF Taken
  <2>6. TakenOnce'
    <3>1. r \notin FreshOf("fw")
      BY Zenon, <2>2 DEF Places, TakenOnce
    <3>2. QED
      BY Zenon, <1>1, <1>5, <2>2, <2>5, <3>1 DEF Places, TakenOnce
  <2>7. FilesApart'
    <3>1. \A f \in DOMAIN files : r \notin files[f]
      BY Zenon, <2>4, InStored DEF Taken
    <3>2. QED
      BY Zenon, <1>1, <1>2, <1>6, <2>3, <3>1 DEF Places, FilesApart
  <2>8. TasksApart'
    <3>1. r \notin fw.data /\ r \notin lost /\ r \notin sent
      BY Zenon, <2>4 DEF Taken, Delivered
    <3>2. QED
      BY Zenon, <1>1, <1>2, <1>6, <2>1, <2>3, <3>1 DEF Places, TasksApart
  <2>9. QED
    BY <2>6, <2>7, <2>8 DEF Places
<1>10. QED
  BY <1>8, <1>9

LEMMA QueuePlaces ==
  ASSUME IInv, Places, QsQueue
  PROVE  Places'
<1> USE DEF IInv
<1>1. /\ qs'.batch = {} /\ sent' = sent \cup qs.batch
      /\ qs'.file = qs.file /\ qs'.todo = qs.todo /\ qs'.reading = qs.reading
      /\ UNCHANGED <<ring, files, lost, iter, fw>>
  BY Zenon, QsQueueEffect DEF QsQueue
<1>2. Delivered' = Delivered
  BY Zenon, <1>1 DEF Delivered
<1>3. Todo' = Todo /\ Stored' = Stored
      /\ FreshOf("fw")' = FreshOf("fw") /\ FreshOf("qs")' = FreshOf("qs")
  BY Zenon, <1>1 DEF Todo, Stored, FreshOf
<1>4. Taken' = Taken
  BY Zenon, <1>1, <1>2, <1>3 DEF Taken
<1>5. QED
  BY Zenon, <1>1, <1>2, <1>3, <1>4 DEF Places, TakenOnce, FilesApart, TasksApart

(* The steps that take no reading anywhere: all but these                        *)

MovesIn(c) == IterReceive(c) \/ IterOpenFile(c) \/ IterFread(c) \/ IterEndOfFile(c)

Moves == \/ SrStore \/ FwOpen \/ FwWrite \/ FwClose \/ QsMarshall \/ QsQueue
         \/ MovesIn("fw") \/ MovesIn("qs")

Quiet ==
  /\ UNCHANGED <<ring, files, lost, sent>>
  /\ FreshOf("fw")' = FreshOf("fw") /\ FreshOf("qs")' = FreshOf("qs")
  /\ fw'.data = fw.data /\ fw'.file = fw.file
  /\ qs'.todo = qs.todo /\ qs'.reading = qs.reading
  /\ qs'.file = qs.file /\ qs'.batch = qs.batch

LEMMA IterQuiet ==
  ASSUME IInv, NEW c \in Consumers, ReadIter(c), ~MovesIn(c)
  PROVE  Quiet
<1> USE DEF IInv
<1>1. CASE \/ IterInit(c) \/ IterNoFile(c) \/ IterClearHasFiles(c) \/ IterWaitDone(c)
           \/ IterFreeSpace(c) \/ IterClearHigh(c) \/ IterClearLow(c) \/ IterDrained(c)
           \/ IterUncount(c)
  <2>1. UNCHANGED <<ring, files, lost, sent, fw, qs>>
    BY Zenon, <1>1 DEF IterInit, IterNoFile, IterClearHasFiles, IterWaitDone, IterFreeSpace,
       IterClearHigh, IterClearLow, IterDrained, IterUncount
  <2>2. PICK p \in IterPCs, s \in IterStates :
          /\ IterGoto(c, p) \/ (IterState(c, s) /\ p = iter[c].pc) \/ IterTo(c, s, p)
          /\ \/ iter[c].reading = None
             \/ {p, iter[c].pc} \subseteq {"space", "high", "low", "drained", "ret"}
             \/ {p, iter[c].pc} \cap {"space", "high", "low", "drained", "ret"} = {}
    <3>1. CASE IterInit(c)
      BY Zenon, <3>1 DEF IterInit, IterAt, IterPCs, IterStates
    <3>2. CASE IterNoFile(c) \/ IterWaitDone(c) \/ IterUncount(c) \/ IterClearHigh(c)
      BY Zenon, <3>2 DEF IterNoFile, IterWaitDone, IterUncount, IterClearHigh, IterAt,
         IterPCs, IterStates
    <3>3. CASE IterClearHasFiles(c) \/ IterDrained(c)
      BY Zenon, <3>3 DEF IterClearHasFiles, IterDrained, IterPCs, IterStates
    <3>4. CASE IterFreeSpace(c) \/ IterClearLow(c)
      BY Zenon, <3>4 DEF IterFreeSpace, IterClearLow, IterPCs, IterStates
    <3>5. QED
      BY <1>1, <3>1, <3>2, <3>3, <3>4
  <2>3. \E t : IterBecomes(c, p, t, iter[c].reading)
    BY Zenon, <2>2, IterGotoEffect, IterStateEffect, IterToEffect
  <2>4. FreshOf("fw")' = FreshOf("fw") /\ FreshOf("qs")' = FreshOf("qs")
    BY Zenon, <2>2, <2>3, FreshFrame
  <2>5. QED
    BY Zenon, <2>1, <2>4 DEF Quiet
<1>2. CASE IterReturnItem(c)
  <2>1. UNCHANGED <<ring, files, lost, sent, fw, qs>>
        /\ iter[c].pc = "switch" /\ IterHold(c, None, "count")
    BY Zenon, <1>2 DEF IterReturnItem, IterAt
  <2>2. IterBecomes(c, "count", iter[c].state, None)
    BY Zenon, <2>1, IterHoldEffect DEF IterPCs
  <2>3. FreshOf("fw")' = FreshOf("fw") /\ FreshOf("qs")' = FreshOf("qs")
    BY Zenon, <2>1, <2>2 DEF FreshOf, IterBecomes
  <2>4. QED
    BY Zenon, <2>1, <2>3 DEF Quiet
<1>3. CASE IterAborts(c)
  <2>1. FreshOf("fw")' = FreshOf("fw") /\ FreshOf("qs")' = FreshOf("qs")
    BY Zenon, <1>3, QsAbortEffect DEF FreshOf
  <2>2. QED
    BY Zenon, <1>3, <2>1, QsAbortEffect DEF Quiet
<1>4. QED
  BY <1>1, <1>2, <1>3 DEF ReadIter, MovesIn

LEMMA StepQuiet ==
  ASSUME IInv, [Next]_vars, ~Moves
  PROVE  Quiet
<1> USE DEF IInv
<1>1. CASE SensorRead
  <2>1. UNCHANGED <<ring, files, lost, iter, fw, qs, sent>>
    BY Zenon, <1>1 DEF Moves, SensorRead, SrWaitPoll, SrMeasureFails, SrFull, SrRetry,
       SrCount, SrFreeSpace, SrSetLow, SrSetHigh
  <2>2. FreshOf("fw")' = FreshOf("fw") /\ FreshOf("qs")' = FreshOf("qs")
    BY Zenon, <2>1 DEF FreshOf
  <2>3. QED
    BY Zenon, <2>1, <2>2 DEF Quiet
<1>2. CASE FileWriter
  <2>1. CASE FwWaitOffline \/ FwCheckSpace \/ FwPausePolling \/ FwWantDrain \/ FwResume
               \/ FwDoneWriting
    <3>1. PICK p \in {"check", "pause", "open", "drain", "paused", "wait"} : FwGoto(p)
      BY Zenon, <2>1 DEF FwWaitOffline, FwCheckSpace, FwPausePolling, FwWantDrain, FwResume,
         FwDoneWriting
    <3>2. fw'.file = fw.file /\ fw'.data = fw.data
      BY Zenon, <3>1, FwGotoEffect
    <3>3. UNCHANGED <<ring, files, lost, iter, qs, sent>>
      BY Zenon, <2>1 DEF FwWaitOffline, FwCheckSpace, FwPausePolling, FwWantDrain, FwResume,
         FwDoneWriting
    <3>4. FreshOf("fw")' = FreshOf("fw") /\ FreshOf("qs")' = FreshOf("qs")
      BY Zenon, <3>3 DEF FreshOf
    <3>5. QED
      BY Zenon, <3>2, <3>3, <3>4 DEF Quiet
  <2>2. CASE FwNothingLeft
    <3>1. iter["fw"].reading = None /\ UNCHANGED <<ring, files, lost, qs, sent>>
      BY Zenon, <2>2 DEF FwNothingLeft
    <3>2. IterBecomes("fw", "idle", iter["fw"].state, iter["fw"].reading)
      BY Zenon, <2>2, IterGotoEffect DEF FwNothingLeft, IterPCs
    <3>3. fw'.file = fw.file /\ fw'.data = fw.data
      BY Zenon, <2>2, FwGotoEffect DEF FwNothingLeft
    <3>4. FreshOf("fw")' = FreshOf("fw") /\ FreshOf("qs")' = FreshOf("qs")
      BY Zenon, <3>1, <3>2, FreshFrame
    <3>5. QED
      BY Zenon, <3>1, <3>3, <3>4 DEF Quiet
  <2>3. CASE ReadIter("fw")
    BY <2>3, IterQuiet DEF Moves
  <2>4. QED
    BY <1>2, <2>1, <2>2, <2>3 DEF FileWriter, Moves
<1>3. CASE QueueSend
  <2>1. CASE QsWaitOnline
    <3>1. /\ qs'.todo = qs.todo /\ qs'.reading = qs.reading /\ qs'.file = qs.file
          /\ qs'.batch = qs.batch
      BY Zenon, <2>1, QsGotoEffect DEF QsWaitOnline
    <3>2. qs.pc = "wait" /\ UNCHANGED <<ring, files, lost, fw, sent>>
      BY Zenon, <2>1 DEF QsWaitOnline
    <3>3. iter["qs"].pc = "idle"
      BY Zenon, <3>2 DEF Control
    <3>4. IterBecomes("qs", "switch", iter["qs"].state, iter["qs"].reading)
      BY Zenon, <2>1, IterGotoEffect DEF QsWaitOnline, IterPCs
    <3>5. FreshOf("fw")' = FreshOf("fw") /\ FreshOf("qs")' = FreshOf("qs")
      BY Zenon, <3>3, <3>4, FreshFrame
    <3>6. QED
      BY Zenon, <3>1, <3>2, <3>5 DEF Quiet
  <2>2. CASE QsNothingLeft
    <3>1. QsReading = None /\ UNCHANGED <<ring, files, lost, fw, sent>>
      BY Zenon, <2>2 DEF QsNothingLeft
    <3>2. iter["qs"].reading = None
      BY Zenon, <3>1 DEF QsReading, Control
    <3>3. /\ qs'.todo = qs.todo /\ qs'.reading = qs.reading /\ qs'.file = qs.file
          /\ qs'.batch = qs.batch
      BY Zenon, <2>2, QsGotoEffect DEF QsNothingLeft
    <3>4. IterBecomes("qs", "idle", iter["qs"].state, iter["qs"].reading)
      BY Zenon, <2>2, IterGotoEffect DEF QsNothingLeft, IterPCs
    <3>5. FreshOf("fw")' = FreshOf("fw") /\ FreshOf("qs")' = FreshOf("qs")
      BY Zenon, <3>2, <3>4, FreshFrame
    <3>6. QED
      BY Zenon, <3>1, <3>3, <3>5 DEF Quiet
  <2>3. CASE ReadIter("qs")
    BY <2>3, IterQuiet DEF Moves
  <2>4. QED
    BY <1>3, <2>1, <2>2, <2>3 DEF QueueSend, Moves
<1>4. CASE Mqtt \/ UNCHANGED vars
  <2>1. UNCHANGED <<ring, files, lost, iter, fw, qs, sent>>
    BY Zenon, <1>4 DEF Mqtt, MqttConnected, MqttNotNotConn, MqttConnectFails,
       MqttDisconnected, MqttNotConnected, WatchdogRestarts, MqttPublish, MqttBits, vars
  <2>2. FreshOf("fw")' = FreshOf("fw") /\ FreshOf("qs")' = FreshOf("qs")
    BY Zenon, <2>1 DEF FreshOf
  <2>3. QED
    BY Zenon, <2>1, <2>2 DEF Quiet
<1>5. QED
  BY <1>1, <1>2, <1>3, <1>4 DEF Next, Aborted

LEMMA IterPlaces ==
  ASSUME IInv, Places, NEW c \in Consumers, MovesIn(c)
  PROVE  Places'
<1>1. CASE IterReceive(c)
  BY <1>1, ReceivePlaces
<1>2. CASE IterOpenFile(c)
  BY <1>2, OpenFilePlaces
<1>3. CASE IterFread(c)
  BY <1>3, FreadPlaces
<1>4. CASE IterEndOfFile(c)
  BY <1>4, EndOfFilePlaces
<1>5. QED
  BY <1>1, <1>2, <1>3, <1>4 DEF MovesIn

LEMMA InitPlaces == Init => Places
<1> SUFFICES ASSUME Init PROVE Places
  OBVIOUS
<1> USE SensorMgrAssumption DEF Init
<1>1. PICK old \in 0 .. MaxOld :
        /\ ring = [read |-> old + 1, write |-> old + 1]
        /\ files = [f \in IF old > 0 THEN {0} ELSE {} |-> 1 .. old]
  BY Zenon
<1>2. /\ \A c \in Consumers : iter[c].pc = "idle"
      /\ fw.data = {} /\ fw.file = NoFile /\ qs.todo = {} /\ qs.reading = None
      /\ qs.batch = {} /\ sent = {} /\ lost = {}
  BY Zenon
<1>3. FreshOf("fw") = {} /\ FreshOf("qs") = {} /\ Todo = {} /\ Delivered = {}
  BY Zenon, <1>2 DEF FreshOf, Todo, Delivered
<1>4. \A x : x \in Stored <=> x \in 1 .. old
  <2>1. CASE old > 0
    <3>1. DOMAIN files = {0} /\ files[0] = 1 .. old
      BY Zenon, <1>1, <2>1
    <3>2. QED
      BY Zenon, <3>1, InStored
  <2>2. CASE ~(old > 0)
    <3>1. DOMAIN files = {}
      BY Zenon, <1>1, <2>2
    <3>2. 1 .. old = {}
      BY SMT, <2>2
    <3>3. QED
      BY Zenon, <3>1, <3>2, InStored
  <2>3. QED
    BY <2>1, <2>2
<1>5. ring.read = old + 1 /\ ring.write = old + 1
  BY Zenon, <1>1
<1>6. \A x : x \in Taken <=> x \in 1 .. old
  BY Zenon, <1>2, <1>3, <1>4 DEF Taken
<1>7. TakenOnce
  <2>1. \A r \in Readings : r < old + 1 <=> r \in 1 .. old
    BY SMT DEF Readings
  <2>2. old + 1 <= old + 1
    BY SMT
  <2>3. QED
    BY Zenon, <1>3, <1>5, <1>6, <2>1, <2>2 DEF TakenOnce
<1>8. FilesApart
  <2>1. DOMAIN files \subseteq {0} /\ NoFile \notin {0}
    BY SMT, <1>1
  <2>2. QED
    BY Zenon, <1>2, <1>3, <2>1 DEF FilesApart
<1>9. TasksApart
  BY Zenon, <1>2, <1>3 DEF TasksApart
<1>10. QED
  BY <1>7, <1>8, <1>9 DEF Places

LEMMA NextPlaces == IInv /\ Places /\ [Next]_vars => Places'
<1> SUFFICES ASSUME IInv, Places, [Next]_vars PROVE Places'
  OBVIOUS
<1>1. CASE SrStore
  BY <1>1, StorePlaces
<1>2. CASE FwOpen
  BY <1>2, OpenPlaces
<1>3. CASE FwWrite
  BY <1>3, WritePlaces
<1>4. CASE FwClose
  BY <1>4, ClosePlaces
<1>5. CASE QsMarshall
  BY <1>5, MarshallPlaces
<1>6. CASE QsQueue
  BY <1>6, QueuePlaces
<1>7. CASE MovesIn("fw") \/ MovesIn("qs")
  BY <1>7, IterPlaces
<1>8. CASE ~Moves
  BY Zenon, <1>8, StepQuiet, PlacesFrame DEF Quiet
<1>9. QED
  BY <1>1, <1>2, <1>3, <1>4, <1>5, <1>6, <1>7, <1>8 DEF Moves

LEMMA PlacesInvariant == Spec => []Places
<1>1. Spec => [](IInv /\ Places)
  BY InitIInv, InitPlaces, NextIInv, NextPlaces, PTL DEF Spec
<1>2. QED
  BY <1>1, PTL

(* No reading vanishes on its way from the sensors to the MQTT queue: what was  *)
(* stored is in the ring buffer, with a task, in a file or delivered, or else a *)
(* truncation or the removal of a file erased its last copy.                    *)
THEOREM NothingVanishes == Spec => []Conservation
<1>1. IInv /\ Places => Conservation
  <2> SUFFICES ASSUME IInv, Places PROVE Conservation
    OBVIOUS
  <2> USE DEF IInv
  <2>1. ASSUME NEW r \in 1 .. (ring.write - 1)
        PROVE  r \in Unread \cup Held \cup InFlight \cup Stored \cup Delivered \cup lost
    <3>1. r \in Readings /\ (r < ring.read \/ r \in Unread)
      BY SMT, <2>1, SensorMgrAssumption DEF Readings, Unread, TypeOK
    <3>2. CASE r \in Unread
      BY <3>2
    <3>3. CASE r < ring.read
      <4>1. r \in FreshOf("fw") \cup FreshOf("qs") \cup Taken
        BY Zenon, <3>1, <3>3 DEF Places, TakenOnce
      <4>2. r # None
        BY SMT, <3>1 DEF Readings
      <4>3. r \in FreshOf("fw") \cup FreshOf("qs") => r \in Held
        BY Zenon, <4>2 DEF FreshOf, Held
      <4>4. QED
        BY Zenon, <4>1, <4>3 DEF Taken, Todo, InFlight
    <3>4. QED
      BY <3>1, <3>2, <3>3
  <2>2. ASSUME NEW r \in lost
        PROVE  r \notin Unread \cup InFlight \cup Stored \cup Delivered
    <3>1. r \in Readings /\ r < ring.read
      BY Zenon, <2>2 DEF TypeOK, Taken, Places, TakenOnce
    <3>2. r \notin Unread
      BY SMT, <3>1 DEF Unread, Readings, TypeOK
    <3>3. QED
      BY Zenon, <2>2, <3>2 DEF Places, TasksApart, InFlight, Todo
  <2>3. QED
    BY Zenon, <2>1, <2>2 DEF Conservation
<1>2. QED
  BY <1>1, InductiveInvariant, PlacesInvariant, PTL

(* No reading is delivered twice, although the sender takes readings from files *)
(* and from the ring buffer that the file writer drains at the same time.       *)
THEOREM DeliveredOnce == Spec => []NoSecondDelivery
<1>1. IInv /\ Places => NoSecondDelivery
  <2> SUFFICES ASSUME IInv, Places PROVE NoSecondDelivery
    OBVIOUS
  <2> USE DEF IInv
  <2>1. ASSUME qs.pc = "read", iter["qs"].pc = "ret"
        PROVE  QsReading \notin Delivered
    <3>1. None \notin Delivered
      <4>1. None \notin Readings
        BY SMT DEF Readings
      <4>2. QED
        BY Zenon, <4>1 DEF Delivered, TypeOK, QsType
    <3>2. CASE QsReading = None
      BY <3>1, <3>2
    <3>3. CASE QsReading # None /\ iter["qs"].state = "HFOO"
      BY Zenon, <3>3 DEF QsReading, Todo, Places, TasksApart
    <3>4. CASE QsReading # None /\ iter["qs"].state # "HFOO"
      <4>1. QsReading = iter["qs"].reading /\ QsReading \in Readings
        BY Zenon, <3>4 DEF QsReading, TypeOK, IterType
      <4>2. QsReading \in FreshOf("qs")
        BY Zenon, <2>1, <4>1 DEF FreshOf
      <4>3. QED
        BY Zenon, <4>2 DEF Places, TakenOnce, Taken
    <3>5. QED
      BY <3>2, <3>3, <3>4
  <2>2. QED
    BY Zenon, <2>1 DEF NoSecondDelivery, Places, TasksApart
<1>2. QED
  BY <1>1, InductiveInvariant, PlacesInvariant, PTL

--------------------------------------------------------------------------------
(* The item count. *)

Full(c) == One(iter[c].reading # None) + One(iter[c].pc = "count")

LEMMA CountByParts ==
  ASSUME TypeOK
  PROVE  /\ CountAccurate <=> itemCount = ring.write - ring.read + Full("fw") + Full("qs")
                                            - One(sr.pc = "count")
         /\ ring.write \in Int /\ ring.read \in Int /\ itemCount \in Int
         /\ Full("fw") \in Int /\ Full("qs") \in Int
BY SMT DEF CountAccurate, Full, One, TypeOK

LEMMA CountFrame ==
  ASSUME CountAccurate, UNCHANGED <<ring, itemCount>>,
         Full("fw")' = Full("fw"), Full("qs")' = Full("qs"),
         (sr'.pc = "count") <=> (sr.pc = "count"), TypeOK, TypeOK'
  PROVE  CountAccurate'
<1>1. One(sr.pc = "count")' = One(sr.pc = "count")
  BY Zenon DEF One
<1>2. CountAccurate' <=> itemCount' = ring'.write - ring'.read + Full("fw")' + Full("qs")'
                                        - One(sr.pc = "count")'
  BY SMT DEF CountAccurate, Full, One, TypeOK
<1>3. QED
  BY Zenon, <1>1, <1>2, CountByParts

(* A call step that neither starts nor ends a decrement keeps the reading it holds *)
LEMMA FullFrame ==
  ASSUME IInv, NEW c \in Consumers, NEW p, NEW s,
         IterBecomes(c, p, s, iter[c].reading), p # "count", iter[c].pc # "count"
  PROVE  Full("fw")' = Full("fw") /\ Full("qs")' = Full("qs")
<1>1. Full(c)' = Full(c)
  BY Zenon DEF Full, One, IterBecomes
<1>2. \A d \in Consumers \ {c} : Full(d)' = Full(d)
  BY Zenon DEF Full, IterBecomes
<1>3. QED
  BY Zenon, <1>1, <1>2

LEMMA IterCount ==
  ASSUME IInv, IInv', CountAccurate, NEW c \in Consumers, ReadIter(c)
  PROVE  CountAccurate'
<1> USE DEF IInv
<1>1. UNCHANGED sr
  BY Zenon DEF ReadIter, IterInit, IterOpenFile, IterNoFile, IterClearHasFiles, IterWaitDone,
     IterFread, IterEndOfFile, IterAborts, IterReturnItem, IterUncount, IterReceive, IterFreeSpace,
     IterClearHigh, IterClearLow, IterDrained
<1>2. \A d \in Consumers \ {c} : iter'[d] = iter[d] => Full(d)' = Full(d)
  BY Zenon DEF Full
<1>3. CASE IterReturnItem(c)
  <2>1. /\ iter[c].reading # None /\ iter[c].pc = "switch"
        /\ IterHold(c, None, "count") /\ UNCHANGED <<ring, itemCount>>
    BY Zenon, <1>3 DEF IterReturnItem, IterAt
  <2>2. IterBecomes(c, "count", iter[c].state, None)
    BY Zenon, <2>1, IterHoldEffect DEF IterPCs
  <2>3. Full(c) = 1 + 0 /\ Full(c)' = 0 + 1
    BY Zenon, <2>1, <2>2 DEF Full, One, IterBecomes
  <2>4. Full(c)' = Full(c)
    BY SMT, <2>3
  <2>5. QED
    BY Zenon, <1>1, <1>2, <2>1, <2>2, <2>4, CountFrame DEF IterBecomes
<1>4. CASE IterUncount(c)
  <2>1. /\ iter[c].pc = "count" /\ iter[c].reading = None
        /\ itemCount' = itemCount - 1 /\ UNCHANGED ring /\ IterGoto(c, "receive")
    BY Zenon, <1>4 DEF IterUncount, Control
  <2>2. IterBecomes(c, "receive", iter[c].state, None)
    BY Zenon, <2>1, IterGotoEffect DEF IterPCs
  <2>3. Full(c) = 0 + 1 /\ Full(c)' = 0 + 0
    BY Zenon, <2>1, <2>2 DEF Full, One, IterBecomes
  <2>4. \A d \in Consumers \ {c} : Full(d)' = Full(d)
    BY Zenon, <1>2, <2>2 DEF IterBecomes
  <2>5. CountAccurate' <=> itemCount' = ring'.write - ring'.read + Full("fw")' + Full("qs")'
                                          - One(sr.pc = "count")'
    BY SMT DEF CountAccurate, Full, One, TypeOK
  <2>6. One(sr.pc = "count")' = One(sr.pc = "count") /\ One(sr.pc = "count") \in {0, 1}
    BY Zenon, <1>1 DEF One
  <2>7. CASE c = "fw"
    BY SMT, <2>1, <2>3, <2>4, <2>5, <2>6, <2>7, CountByParts
  <2>8. CASE c = "qs"
    BY SMT, <2>1, <2>3, <2>4, <2>5, <2>6, <2>8, CountByParts
  <2>9. QED
    BY <2>7, <2>8
<1>5. CASE IterReceive(c) /\ Unread # {}
  <2>1. ring.read \in Readings /\ ring.read # None
    BY SMT, <1>5, SensorMgrAssumption DEF TypeOK, Unread, Readings
  <2>2. /\ iter[c].reading = None /\ iter[c].pc # "count"
        /\ UNCHANGED itemCount /\ ring' = [ring EXCEPT !.read = @ + 1]
        /\ IterHold(c, ring.read, "space")
    BY Zenon, <1>5 DEF IterReceive, IterAt, Control
  <2>3. ring'.read = ring.read + 1 /\ ring'.write = ring.write
    BY Zenon, <2>2 DEF TypeOK
  <2>4. IterBecomes(c, "space", iter[c].state, ring.read)
    BY Zenon, <2>1, <2>2, IterHoldEffect DEF IterPCs
  <2>5. Full(c) = 0 + 0 /\ Full(c)' = 1 + 0
    BY Zenon, <2>1, <2>2, <2>4 DEF Full, One, IterBecomes
  <2>6. \A d \in Consumers \ {c} : Full(d)' = Full(d)
    BY Zenon, <1>2, <2>4 DEF IterBecomes
  <2>7. CountAccurate' <=> itemCount' = ring'.write - ring'.read + Full("fw")' + Full("qs")'
                                          - One(sr.pc = "count")'
    BY SMT DEF CountAccurate, Full, One, TypeOK
  <2>8. One(sr.pc = "count")' = One(sr.pc = "count") /\ One(sr.pc = "count") \in {0, 1}
    BY Zenon, <1>1 DEF One
  <2>9. CASE c = "fw"
    BY SMT, <2>2, <2>3, <2>5, <2>6, <2>7, <2>8, <2>9, CountByParts
  <2>10. CASE c = "qs"
    BY SMT, <2>2, <2>3, <2>5, <2>6, <2>7, <2>8, <2>10, CountByParts
  <2>11. QED
    BY <2>9, <2>10
<1>6. CASE ~IterReturnItem(c) /\ ~IterUncount(c) /\ ~(IterReceive(c) /\ Unread # {})
           /\ ~IterAborts(c)
  <2>1. UNCHANGED <<ring, itemCount>>
    BY Zenon, <1>6 DEF ReadIter, IterInit, IterOpenFile, IterNoFile, IterClearHasFiles,
       IterWaitDone, IterFread, IterEndOfFile, IterAborts, IterReceive, IterFreeSpace,
       IterClearHigh, IterClearLow, IterDrained
  <2>2. PICK p \in IterPCs, s \in IterStates :
          /\ IterGoto(c, p) \/ (IterState(c, s) /\ p = iter[c].pc) \/ IterTo(c, s, p)
          /\ p # "count" /\ iter[c].pc # "count"
    <3>1. CASE IterInit(c) \/ IterOpenFile(c)
      BY Zenon, <3>1 DEF IterInit, IterOpenFile, IterAt, IterPCs, IterStates
    <3>2. CASE IterNoFile(c) \/ IterWaitDone(c) \/ IterFread(c) \/ IterClearHigh(c)
      BY Zenon, <3>2 DEF IterNoFile, IterWaitDone, IterFread, IterClearHigh, IterAt,
         IterPCs, IterStates
    <3>3. CASE IterClearHasFiles(c) \/ IterDrained(c) \/ IterEndOfFile(c)
      BY Zenon, <3>3 DEF IterClearHasFiles, IterDrained, IterEndOfFile, IterPCs, IterStates
    <3>4. CASE IterFreeSpace(c) \/ IterClearLow(c)
      BY Zenon, <3>4 DEF IterFreeSpace, IterClearLow, IterPCs, IterStates
    <3>5. CASE IterReceive(c) /\ Unread = {}
      BY Zenon, <3>5 DEF IterReceive, IterAt, IterPCs, IterStates
    <3>6. QED
      BY Zenon, <1>6, <3>1, <3>2, <3>3, <3>4, <3>5 DEF ReadIter
  <2>3. \E t : IterBecomes(c, p, t, iter[c].reading)
    BY Zenon, <2>2, IterGotoEffect, IterStateEffect, IterToEffect
  <2>4. Full("fw")' = Full("fw") /\ Full("qs")' = Full("qs")
    BY Zenon, <2>2, <2>3, FullFrame
  <2>5. QED
    BY Zenon, <1>1, <2>1, <2>4, CountFrame
<1>7. CASE IterAborts(c)
  BY Zenon, <1>1, <1>7, QsAbortEffect, CountFrame DEF Full
<1>8. QED
  BY <1>3, <1>4, <1>5, <1>6, <1>7

LEMMA NextCount == IInv /\ IInv' /\ CountAccurate /\ [Next]_vars => CountAccurate'
<1> SUFFICES ASSUME IInv, IInv', CountAccurate, [Next]_vars PROVE CountAccurate'
  OBVIOUS
<1> USE DEF IInv
<1>1. CASE SensorRead
  <2>1. UNCHANGED iter
    BY Zenon, <1>1 DEF SensorRead, SrWaitPoll, SrMeasureFails, SrStore, SrFull, SrRetry,
       SrCount, SrFreeSpace, SrSetLow, SrSetHigh
  <2>2. Full("fw")' = Full("fw") /\ Full("qs")' = Full("qs")
    BY Zenon, <2>1 DEF Full
  <2>3. CountAccurate' <=> itemCount' = ring'.write - ring'.read + Full("fw")' + Full("qs")'
                                          - One(sr.pc = "count")'
    BY SMT DEF CountAccurate, Full, One, TypeOK
  <2>4. CASE SrStore
    <3>1. /\ ring'.read = ring.read /\ ring'.write = ring.write + 1
          /\ UNCHANGED itemCount /\ SrGoto("count") /\ sr.pc # "count"
      BY Zenon, <2>4 DEF SrStore, TypeOK
    <3>2. One(sr.pc = "count") = 0 /\ One(sr.pc = "count")' = 1
      BY Zenon, <3>1, SrGotoEffect DEF One
    <3>3. QED
      BY SMT, <2>2, <2>3, <3>1, <3>2, CountByParts
  <2>5. CASE SrCount
    <3>1. UNCHANGED ring /\ itemCount' = itemCount + 1
      BY Zenon, <2>5 DEF SrCount
    <3>2. One(sr.pc = "count") = 1 /\ One(sr.pc = "count")' = 0
      BY Zenon, <2>5, SrNextSensorType DEF One, SrCount
    <3>3. QED
      BY SMT, <2>2, <2>3, <3>1, <3>2, CountByParts
  <2>6. CASE ~SrStore /\ ~SrCount
    <3>1. UNCHANGED <<ring, itemCount>>
      BY Zenon, <1>1, <2>6 DEF SensorRead, SrWaitPoll, SrMeasureFails, SrFull, SrRetry,
         SrFreeSpace, SrSetLow, SrSetHigh
    <3>2. sr.pc # "count" /\ sr'.pc # "count"
      <4>1. CASE SrWaitPoll \/ SrFreeSpace \/ SrSetHigh
        <5>1. CASE SrWaitPoll
          BY Zenon, <5>1 DEF SrWaitPoll, TypeOK, SrType
        <5>2. CASE SrFreeSpace
          BY Zenon, <5>2 DEF SrFreeSpace, TypeOK, SrType
        <5>3. CASE SrSetHigh
          <6>1. sr.pc = "high" /\ sr'.pc = "wait"
            BY Zenon, <5>3 DEF SrSetHigh
          <6>2. QED
            BY Zenon, <6>1
        <5>4. QED
          BY <4>1, <5>1, <5>2, <5>3
      <4>2. CASE SrMeasureFails
        BY Zenon, <4>2, SrNextSensorType DEF SrMeasureFails
      <4>3. CASE SrFull \/ SrRetry \/ SrSetLow
        BY Zenon, <4>3, SrGotoEffect DEF SrFull, SrRetry, SrSetLow
      <4>4. QED
        BY <1>1, <2>6, <4>1, <4>2, <4>3 DEF SensorRead
    <3>3. QED
      BY Zenon, <2>2, <3>1, <3>2, CountFrame
  <2>7. QED
    BY <2>4, <2>5, <2>6
<1>2. CASE ReadIter("fw") \/ ReadIter("qs")
  BY <1>2, IterCount
<1>3. CASE FileWriter /\ ~ReadIter("fw")
  <2>1. UNCHANGED <<ring, itemCount, sr>>
    BY Zenon, <1>3 DEF FileWriter, FwWaitOffline, FwCheckSpace, FwPausePolling, FwWantDrain,
       FwResume, FwOpen, FwNothingLeft, FwWrite, FwClose, FwDoneWriting
  <2>2. \/ UNCHANGED iter
        \/ \E p \in {"idle", "switch"} : IterGoto("fw", p) /\ iter["fw"].pc \in {"idle", "ret"}
    <3>1. CASE FwOpen
      BY Zenon, <3>1 DEF FwOpen, Control
    <3>2. CASE FwNothingLeft \/ FwWrite
      BY Zenon, <3>2 DEF FwNothingLeft, FwWrite
    <3>3. CASE ~FwOpen /\ ~FwNothingLeft /\ ~FwWrite
      BY Zenon, <1>3, <3>3 DEF FileWriter, FwWaitOffline, FwCheckSpace, FwPausePolling,
         FwWantDrain, FwResume, FwClose, FwDoneWriting
    <3>4. QED
      BY <3>1, <3>2, <3>3
  <2>3. CASE UNCHANGED iter
    BY Zenon, <2>1, <2>3, CountFrame DEF Full
  <2>4. CASE \E p \in {"idle", "switch"} : IterGoto("fw", p) /\ iter["fw"].pc \in {"idle", "ret"}
    <3>1. PICK p \in {"idle", "switch"} : IterGoto("fw", p) /\ iter["fw"].pc \in {"idle", "ret"}
      BY <2>4
    <3>2. IterBecomes("fw", p, iter["fw"].state, iter["fw"].reading)
      BY Zenon, <3>1, IterGotoEffect DEF IterPCs
    <3>3. QED
      BY Zenon, <2>1, <3>1, <3>2, FullFrame, CountFrame
  <2>5. QED
    BY <2>2, <2>3, <2>4
<1>4. CASE QueueSend /\ ~ReadIter("qs")
  <2>1. UNCHANGED <<ring, itemCount, sr>>
    BY Zenon, <1>4 DEF QueueSend, QsWaitOnline, QsMarshall, QsNothingLeft, QsQueue
  <2>2. \/ UNCHANGED iter
        \/ \E p \in {"idle", "switch"} : IterGoto("qs", p) /\ iter["qs"].pc \in {"idle", "ret"}
    <3>1. CASE QsWaitOnline
      BY Zenon, <3>1 DEF QsWaitOnline, Control
    <3>2. CASE QsMarshall \/ QsNothingLeft
      BY Zenon, <3>2 DEF QsMarshall, QsNothingLeft
    <3>3. CASE QsQueue
      BY Zenon, <3>3 DEF QsQueue
    <3>4. QED
      BY <1>4, <3>1, <3>2, <3>3 DEF QueueSend
  <2>3. CASE UNCHANGED iter
    BY Zenon, <2>1, <2>3, CountFrame DEF Full
  <2>4. CASE \E p \in {"idle", "switch"} : IterGoto("qs", p) /\ iter["qs"].pc \in {"idle", "ret"}
    <3>1. PICK p \in {"idle", "switch"} : IterGoto("qs", p) /\ iter["qs"].pc \in {"idle", "ret"}
      BY <2>4
    <3>2. IterBecomes("qs", p, iter["qs"].state, iter["qs"].reading)
      BY Zenon, <3>1, IterGotoEffect DEF IterPCs
    <3>3. QED
      BY Zenon, <2>1, <3>1, <3>2, FullFrame, CountFrame
  <2>5. QED
    BY <2>2, <2>3, <2>4
<1>5. CASE Mqtt \/ UNCHANGED vars
  <2>1. UNCHANGED <<ring, itemCount, iter, sr>>
    BY Zenon, <1>5 DEF Mqtt, MqttConnected, MqttNotNotConn, MqttConnectFails,
       MqttDisconnected, MqttNotConnected, WatchdogRestarts, MqttPublish, MqttBits, vars
  <2>2. QED
    BY Zenon, <2>1, CountFrame DEF Full
<1>6. QED
  BY <1>1, <1>2, <1>3, <1>4, <1>5 DEF Next, Aborted

LEMMA InitCount == Init => CountAccurate
<1> SUFFICES ASSUME Init PROVE CountAccurate
  OBVIOUS
<1>1. ring.write = ring.read /\ ring.read \in Int /\ itemCount = 0
  <2>1. PICK old \in 0 .. MaxOld : ring = [read |-> old + 1, write |-> old + 1]
    BY Zenon DEF Init
  <2>2. ring.read = old + 1 /\ ring.write = old + 1 /\ itemCount = 0
    BY Zenon, <2>1 DEF Init
  <2>3. old + 1 \in Int
    BY SMT
  <2>4. QED
    BY Zenon, <2>2, <2>3
<1>2. /\ iter["fw"].reading = None /\ iter["qs"].reading = None /\ sr.pc = "wait"
      /\ iter["fw"].pc = "idle" /\ iter["qs"].pc = "idle"
  BY Zenon DEF Init
<1>3. QED
  BY SMT, <1>1, <1>2 DEF CountAccurate, One

(* The count that decides when a drain is over is the number of readings in the *)
(* ring buffer at every step, but for the updates still to be made.             *)
THEOREM CountIsAccurate == Spec => []CountAccurate
<1>1. Spec => [](IInv /\ CountAccurate)
  BY InitIInv, InitCount, NextIInv, NextCount, PTL DEF Spec
<1>2. QED
  BY <1>1, PTL

--------------------------------------------------------------------------------
(* Nobody sleeps over a disk the file writer filled.                            *)

(* LOWWATER is clear only between the last receive of a drain and the setting of *)
(* POLLSENSORS: an item of the file writer counts until then.                    *)
DrainUnderWay ==
  Paused /\ iter["fw"].reading # None /\ LOWWATER \notin events
    => qs.pc = "read" /\ iter["qs"].pc = "drained"

LEMMA InitDrain == Init => DrainUnderWay
BY Zenon DEF Init, DrainUnderWay, Paused

(* At most one item is in the ring buffer and not counted, the one sensorread   *)
(* stored last: two held items are one counted at least.                        *)
LEMMA TwoHeldCount ==
  ASSUME IInv, CountAccurate, ring.read <= ring.write, itemCount = 0,
         iter["fw"].reading # None, iter["fw"].pc # "count",
         iter["qs"].pc # "count"
  PROVE  iter["qs"].reading = None
BY SMT DEF IInv, TypeOK, CountAccurate, One

LEMMA DrainFrame ==
  ASSUME DrainUnderWay, fw'.pc = fw.pc, iter'["fw"] = iter["fw"],
         LOWWATER \in events => LOWWATER \in events',
         POLLSENSORS \in events => POLLSENSORS \in events',
         qs.pc = "read" /\ iter["qs"].pc = "drained" =>
           qs'.pc = "read" /\ iter'["qs"].pc = "drained"
  PROVE  DrainUnderWay'
BY Zenon DEF DrainUnderWay, Paused

(* A call of the iterator by queuesend *)
LEMMA IterDrain ==
  ASSUME IInv, CountAccurate, ring.read <= ring.write, DrainUnderWay, ReadIter("qs")
  PROVE  DrainUnderWay'
<1> USE DEF IInv
<1>1. UNCHANGED fw /\ (IterAborts("qs") \/ (qs'.pc = "read" /\ qs.pc = "read"))
      /\ iter["qs"].pc # "idle"
  <2>1. iter["qs"].pc # "idle" /\ UNCHANGED fw
    BY Zenon DEF ReadIter, IterAt, IterInit, IterOpenFile, IterNoFile, IterClearHasFiles,
       IterWaitDone, IterFread, IterEndOfFile, IterAborts, IterReturnItem, IterUncount, IterReceive,
       IterFreeSpace, IterClearHigh, IterClearLow, IterDrained
  <2>2. Running
    BY Zenon DEF ReadIter, IterAt, IterInit, IterOpenFile, IterNoFile, IterClearHasFiles,
       IterWaitDone, IterFread, IterEndOfFile, IterAborts, IterReturnItem, IterUncount,
       IterReceive, IterFreeSpace, IterClearHigh, IterClearLow, IterDrained
  <2>3. CASE UNCHANGED qs
    BY Zenon, <2>1, <2>2, <2>3 DEF Control, Running
  <2>4. CASE IterOpenFile("qs")
    BY Zenon, <2>1, <2>2, <2>4, QsOpenEffect DEF IterOpenFile, Control, Running
  <2>5. CASE IterFread("qs")
    BY Zenon, <2>1, <2>2, <2>5, QsFreadEffect DEF IterFread, Control, Running
  <2>6. CASE IterEndOfFile("qs")
    BY Zenon, <2>1, <2>2, <2>6, QsEndOfFileEffect DEF IterEndOfFile, Control, Running
  <2>7. QED
    BY Zenon, <2>1, <2>3, <2>4, <2>5, <2>6 DEF ReadIter, IterInit, IterNoFile,
       IterClearHasFiles, IterWaitDone, IterReturnItem, IterUncount, IterReceive, IterFreeSpace, IterClearHigh,
       IterClearLow, IterDrained
<1>2. iter'["fw"] = iter["fw"]
  BY Zenon DEF TypeOK, ReadIter, IterInit, IterOpenFile, IterNoFile, IterClearHasFiles,
     IterWaitDone, IterFread, IterEndOfFile, IterAborts, IterReturnItem, IterUncount, IterReceive,
     IterFreeSpace, IterClearHigh, IterClearLow, IterDrained, IterGoto, IterState, IterTo, IterHold
<1>3. CASE IterClearLow("qs") /\ itemCount = 0
  <2> SUFFICES ASSUME Paused, iter["fw"].reading # None
               PROVE  iter'["qs"].pc = "drained"
    BY Zenon, <1>1, <1>2, <1>3 DEF DrainUnderWay, Paused, IterClearLow, IterAborts, ClearBits
  <2>1. iter["fw"].pc = "idle" /\ iter["qs"].pc = "low"
    BY Zenon, <1>3 DEF Paused, Control, IterClearLow
  <2>2. iter["qs"].reading = None
    BY Zenon, <1>3, <2>1, TwoHeldCount
  <2>3. IterGoto("qs", "drained")
    BY Zenon, <1>3, <2>2 DEF IterClearLow
  <2>4. QED
    BY Zenon, <2>3, IterGotoEffect DEF IterBecomes, IterPCs
<1>4. CASE IterDrained("qs")
  BY Zenon, <1>4 DEF IterDrained, SetBits, DrainUnderWay, Paused
<1>5. CASE ~IterDrained("qs") /\ ~(IterClearLow("qs") /\ itemCount = 0) /\ ~IterAborts("qs")
  <2>1. iter["qs"].pc # "drained"
    BY Zenon, <1>5 DEF ReadIter, IterAt, IterInit, IterOpenFile, IterNoFile, IterClearHasFiles,
       IterWaitDone, IterFread, IterEndOfFile, IterAborts, IterReturnItem, IterUncount, IterReceive,
       IterFreeSpace, IterClearHigh, IterClearLow
  <2>2. UNCHANGED events \/ events' = events \ {HIGHWATER}
    BY Zenon, <1>5 DEF ReadIter, IterInit, IterOpenFile, IterNoFile, IterClearHasFiles,
       IterWaitDone, IterFread, IterEndOfFile, IterAborts, IterReturnItem, IterUncount, IterReceive,
       IterFreeSpace, IterClearHigh, IterClearLow, ClearBits, AwaitBits
  <2>3. QED
    BY Zenon, <1>1, <1>2, <2>1, <2>2, DrainFrame
<1>6. CASE IterAborts("qs")
  <2>1. iter["qs"].pc = "fread"
    BY Zenon, <1>6 DEF IterAborts
  <2>2. QED
    BY Zenon, <1>6, <2>1, QsAbortEffect, DrainFrame
<1>7. QED
  BY <1>3, <1>4, <1>5, <1>6

LEMMA NextDrain ==
  IInv /\ CountAccurate /\ ring.read <= ring.write /\ DrainUnderWay /\ [Next]_vars => DrainUnderWay'
<1> SUFFICES ASSUME IInv, CountAccurate, ring.read <= ring.write, DrainUnderWay, [Next]_vars
             PROVE  DrainUnderWay'
  OBVIOUS
<1> USE DEF IInv
<1>1. CASE SensorRead
  BY Zenon, <1>1, DrainFrame DEF SensorRead, SrWaitPoll, SrMeasureFails, SrStore, SrFull, SrRetry,
     SrCount, SrFreeSpace, SrSetLow, SrSetHigh, AwaitBits, SetBits
<1>2. CASE ReadIter("qs")
  BY Zenon, <1>2, IterDrain
<1>3. CASE ReadIter("fw")
  <2>1. iter["fw"].pc # "idle" /\ UNCHANGED fw
    BY Zenon, <1>3 DEF ReadIter, IterAt, IterInit, IterNoFile, IterClearHasFiles, IterOpenFile,
       IterWaitDone, IterFread, IterEndOfFile, IterAborts, IterReturnItem, IterUncount, IterReceive,
       IterFreeSpace, IterClearHigh, IterClearLow, IterDrained
  <2>2. QED
    BY Zenon, <2>1 DEF Control, DrainUnderWay, Paused
<1>4. CASE FileWriter /\ ~ReadIter("fw")
  <2>1. CASE FwWantDrain
    BY Zenon, <2>1 DEF FwWantDrain, SetBits, DrainUnderWay
  <2>2. CASE FwWrite
    BY Zenon, <2>2, FwWriteEffect DEF DrainUnderWay, Paused
  <2>3. CASE FwOpen \/ FwClose
    <3>1. CASE FwOpen
      BY Zenon, <3>1, FwOpenEffect DEF DrainUnderWay, Paused
    <3>2. CASE FwClose
      BY Zenon, <3>2, FwCloseEffect DEF DrainUnderWay, Paused
    <3>3. QED
      BY <2>3, <3>1, <3>2
  <2>4. CASE FileWriter /\ ~ReadIter("fw") /\ ~FwWantDrain /\ ~FwWrite /\ ~FwOpen /\ ~FwClose
    <3>1. \E p \in {"wait", "check", "pause", "drain", "open", "close"} : FwGoto(p)
      BY Zenon, <2>4 DEF FileWriter, FwWaitOffline, FwCheckSpace, FwPausePolling, FwResume,
         FwNothingLeft, FwDoneWriting
    <3>2. QED
      BY Zenon, <3>1, FwGotoEffect DEF DrainUnderWay, Paused
  <2>5. QED
    BY <1>4, <2>1, <2>2, <2>3, <2>4
<1>5. CASE QueueSend /\ ~ReadIter("qs")
  <2>1. UNCHANGED <<events, fw>>
    BY Zenon, <1>5 DEF QueueSend, QsWaitOnline, QsMarshall, QsNothingLeft, QsQueue, AwaitBits
  <2>2. iter'["fw"] = iter["fw"]
    BY Zenon, <1>5 DEF QueueSend, QsWaitOnline, QsMarshall, QsNothingLeft, QsQueue, IterGoto, TypeOK
  <2>3. ~(qs.pc = "read" /\ iter["qs"].pc = "drained")
    BY Zenon, <1>5 DEF QueueSend, QsWaitOnline, QsMarshall, QsNothingLeft, QsQueue
  <2>4. QED
    BY Zenon, <2>1, <2>2, <2>3, DrainFrame
<1>6. CASE Mqtt \/ UNCHANGED vars
  <2>1. /\ UNCHANGED <<iter, fw, qs>>
        /\ LOWWATER \in events => LOWWATER \in events'
        /\ POLLSENSORS \in events => POLLSENSORS \in events'
    BY Zenon, <1>6 DEF Mqtt, MqttConnected, MqttNotNotConn, MqttConnectFails,
       MqttDisconnected, MqttNotConnected, WatchdogRestarts, MqttPublish, MqttBits, vars
  <2>2. QED
    BY Zenon, <2>1, DrainFrame
<1>7. QED
  BY <1>1, <1>2, <1>3, <1>4, <1>5, <1>6 DEF Next, Aborted, FileWriter, QueueSend

(* While a file writer that filled the disk is paused, the drain it waits for   *)
(* is asked for or under way, for every size of the ring buffer, the batches    *)
(* and the disk.                                                                *)
THEOREM PausedIsDrained == Spec => []PausedAsksForDrain
<1>1. DrainUnderWay => PausedAsksForDrain
  BY Zenon DEF DrainUnderWay, PausedAsksForDrain
<1>2. Places => ring.read <= ring.write
  BY Zenon DEF Places, TakenOnce
<1>3. Spec => [](IInv /\ CountAccurate /\ DrainUnderWay)
  BY <1>2, InitIInv, InitCount, InitDrain, NextIInv, NextCount, NextDrain, PlacesInvariant, PTL DEF Spec
<1>4. QED
  BY <1>1, <1>3, PTL

--------------------------------------------------------------------------------
(* The reserve of the file system. bytes_free is a bound on what the open file   *)
(* may take: it was computed when the disk was below the limit, and only the     *)
(* file writer fills the disk.                                                   *)

Limit == DiskUnits - DiskReserve

ReserveInv ==
  /\ fw.pc = "open" => DiskUsed <= Limit
  /\ fw.pc = "read" => DiskUsed + fw.room <= Limit /\ Cardinality(fw.data) <= fw.room
  /\ ReserveKept

LEMMA Sizes ==
  ASSUME TypeOK
  PROVE  /\ IsFiniteSet(Stored) /\ DiskUsed = Cardinality(Stored) /\ DiskUsed \in Nat
         /\ IsFiniteSet(fw.data) /\ Cardinality(fw.data) \in Nat
         /\ fw.room \in Nat /\ Limit \in Int
<1>1. IsFiniteSet(Readings)
  <2>1. 1 \in Int /\ MaxReading \in Int
    BY SMT, SensorMgrAssumption
  <2>2. QED
    BY Zenon, <2>1, FS_Interval DEF Readings
<1>2. Stored \in SUBSET Readings /\ fw.data \in SUBSET Readings
  <2>1. \A f \in DOMAIN files : files[f] \subseteq Readings
    BY Zenon DEF TypeOK
  <2>2. Stored \subseteq Readings
    BY Zenon, <2>1 DEF Stored
  <2>3. fw.data \in SUBSET Readings
    BY Zenon DEF TypeOK, FwType
  <2>4. QED
    BY <2>2, <2>3
<1>3. IsFiniteSet(Stored) /\ IsFiniteSet(fw.data)
  BY <1>1, <1>2, FS_Subset
<1>4. Cardinality(Stored) \in Nat /\ Cardinality(fw.data) \in Nat
  BY <1>3, FS_CardinalityType
<1>5. DiskUsed = Cardinality(Stored)
  BY Zenon DEF DiskUsed, Stored
<1>6. fw.room \in Nat /\ Limit \in Int
  BY SMT, SensorMgrAssumption DEF TypeOK, FwType, Limit
<1>7. QED
  BY <1>3, <1>4, <1>5, <1>6

LEMMA UsedShrinks ==
  ASSUME TypeOK, TypeOK', Stored' \subseteq Stored
  PROVE  DiskUsed' <= DiskUsed /\ DiskUsed \in Nat /\ DiskUsed' \in Nat
<1>1. IsFiniteSet(Stored) /\ DiskUsed = Cardinality(Stored) /\ DiskUsed \in Nat
  BY Zenon, Sizes
<1>2. DiskUsed' = Cardinality(Stored')
  BY Zenon DEF DiskUsed, Stored
<1>3. Cardinality(Stored') <= Cardinality(Stored)
  BY <1>1, FS_Subset
<1>4. IsFiniteSet(Stored')
  BY <1>1, FS_Subset
<1>5. Cardinality(Stored') \in Nat
  BY <1>4, FS_CardinalityType
<1>6. QED
  BY Zenon, <1>1, <1>2, <1>3, <1>5

LEMMA ReserveFrame ==
  ASSUME TypeOK, TypeOK', ReserveInv, Stored' \subseteq Stored, UNCHANGED fw
  PROVE  ReserveInv'
<1>1. DiskUsed' <= DiskUsed /\ DiskUsed \in Nat /\ DiskUsed' \in Nat
  BY Zenon, UsedShrinks
<1>2. Cardinality(fw.data) \in Nat /\ fw.room \in Nat /\ Limit \in Int
  BY Zenon, Sizes
<1>3. QED
  BY SMT, <1>1, <1>2, SensorMgrAssumption DEF ReserveInv, ReserveKept, Limit

(* A step of the file writer that neither opens, writes nor closes a file *)
LEMMA ReserveGoto ==
  ASSUME TypeOK, ReserveInv, UNCHANGED files, NEW p \in {"wait", "check", "pause", "drain", "paused", "close"},
         FwGoto(p)
  PROVE  ReserveInv'
<1>1. fw'.pc = p /\ fw'.data = fw.data
  BY Zenon, FwGotoEffect
<1>2. DiskUsed' = DiskUsed
  BY Zenon DEF DiskUsed
<1>3. ReserveKept' <=> ReserveKept
  BY Zenon, <1>1, <1>2 DEF ReserveKept
<1>4. QED
  BY Zenon, <1>1, <1>3 DEF ReserveInv

LEMMA RoomLeft ==
  ASSUME NEW a \in Nat, NEW b \in Nat, NEW m \in Int, b <= a, a <= m
  PROVE  /\ \A r \in Nat : m < r => m - b \in 0 .. r - 1
         /\ b + (m - b) <= m /\ 0 <= m - b /\ b + 0 <= m + 1
  BY SMT

LEMMA FileWriterReserve ==
  ASSUME IInv, IInv', ReserveInv, FileWriter, ~ReadIter("fw")
  PROVE  ReserveInv'
<1> USE DEF IInv
<1>1. CASE FwCheckSpace
  <2>1. UNCHANGED files /\ fw.pc = "check"
    BY Zenon, <1>1 DEF FwCheckSpace
  <2>2. CASE DiskFree < DiskReserve
    BY Zenon, <1>1, <2>1, <2>2, ReserveGoto DEF FwCheckSpace
  <2>3. CASE ~(DiskFree < DiskReserve)
    <3>1. fw'.pc = "open" /\ fw'.data = fw.data
      BY Zenon, <1>1, <2>3, FwGotoEffect DEF FwCheckSpace
    <3>2. DiskUsed' = DiskUsed
      BY Zenon, <2>1 DEF DiskUsed
    <3>3. DiskUsed <= Limit
      BY SMT, <2>3, Sizes, SensorMgrAssumption DEF DiskFree, Limit
    <3>4. QED
      BY Zenon, <3>1, <3>2, <3>3 DEF ReserveInv, ReserveKept, Limit
  <2>4. QED
    BY <2>2, <2>3
<1>2. CASE FwOpen
  <2>1. /\ DOMAIN files' = DOMAIN files \cup {now'} /\ files'[now'] = {}
        /\ \A f \in DOMAIN files \ {now'} : files'[f] = files[f]
        /\ fw'.pc = "read" /\ fw'.data = fw.data
    BY Zenon, <1>2, FwOpenEffect
  <2>2. Stored' \subseteq Stored
    BY Zenon, <2>1 DEF Stored
  <2>3. DiskUsed' <= DiskUsed /\ DiskUsed \in Nat /\ DiskUsed' \in Nat
    BY Zenon, <2>2, UsedShrinks
  <2>4. DiskUsed <= Limit /\ fw'.data = {}
    BY Zenon, <1>2, <2>1 DEF FwOpen, ReserveInv, Control
  <2>5. Cardinality(fw'.data) = 0
    BY Zenon, <2>4, FS_EmptySet
  <2>6. fw'.room = (Limit - DiskUsed') % UintRange
    <3>1. fw'.room = (DiskFree' - DiskReserve) % UintRange
      BY Zenon, <1>2 DEF FwOpen, TypeOK, FwType
    <3>2. DiskFree' - DiskReserve = Limit - DiskUsed'
      BY SMT, <2>3, SensorMgrAssumption DEF DiskFree, Limit
    <3>3. QED
      BY Zenon, <3>1, <3>2
  <2>7. Limit - DiskUsed' \in 0 .. UintRange - 1 /\ Limit \in Int
    <3>1. Limit \in Int /\ Limit < UintRange /\ UintRange \in Nat
      BY SMT, SensorMgrAssumption DEF Limit
    <3>2. DiskUsed <= Limit
      BY <2>4
    <3>3. QED
      BY Zenon, <2>3, <3>1, <3>2, RoomLeft
  <2>8. \A n \in 0 .. UintRange - 1 : n % UintRange = n
    BY SMT, SensorMgrAssumption
  <2>9. fw'.room = Limit - DiskUsed'
    BY Zenon, <2>6, <2>7, <2>8
  <2>10. DiskUsed' + fw'.room <= Limit /\ 0 <= fw'.room /\ DiskUsed' + 0 <= Limit + 1
    BY Zenon, <2>3, <2>4, <2>7, <2>9, RoomLeft
  <2>11. QED
    BY Zenon, <2>1, <2>5, <2>10 DEF ReserveInv, ReserveKept, Limit
<1>3. CASE FwWrite
  <2> DEFINE data == fw.data \cup {iter["fw"].reading}
  <2>1. /\ fw'.data = data /\ fw.pc = "read" /\ UNCHANGED files
        /\ fw'.pc = IF Cardinality(data) > fw.room THEN "close" ELSE "read"
    BY Zenon, <1>3, FwWriteEffect DEF FwWrite
  <2>2. fw'.room = fw.room
    BY Zenon, <1>3 DEF FwWrite, TypeOK, FwType
  <2>3. DiskUsed' = DiskUsed
    BY Zenon, <2>1 DEF DiskUsed
  <2>4. /\ Cardinality(fw.data) \in Nat /\ fw.room \in Nat /\ DiskUsed \in Nat /\ Limit \in Int
        /\ IsFiniteSet(fw.data)
    BY Zenon, Sizes
  <2>5. Cardinality(data) \in {Cardinality(fw.data), Cardinality(fw.data) + 1}
    BY <2>4, FS_AddElement
  <2>6. DiskUsed + fw.room <= Limit /\ Cardinality(fw.data) <= fw.room
    BY Zenon, <2>1 DEF ReserveInv
  <2>7. /\ DiskUsed + Cardinality(data) <= Limit + 1
        /\ ~(Cardinality(data) > fw.room) => Cardinality(data) <= fw.room
    BY SMT, <2>4, <2>5, <2>6
  <2>8. QED
    BY Zenon, <2>1, <2>2, <2>3, <2>6, <2>7 DEF ReserveInv, ReserveKept, Limit
<1>4. CASE FwClose
  <2>1. fw'.pc = "done" /\ fw'.data = {}
    BY Zenon, <1>4, FwCloseEffect
  <2>2. Stored' \subseteq Stored \cup fw.data
    <3>1. CASE fw.file \in DOMAIN files
      <4>1. files' = [files EXCEPT ![fw.file] = fw.data]
        BY Zenon, <1>4, <3>1 DEF FwClose
      <4>2. QED
        BY Zenon, <4>1 DEF Stored
    <3>2. CASE fw.file \notin DOMAIN files
      BY Zenon, <1>4, <3>2 DEF FwClose, Stored
    <3>3. QED
      BY <3>1, <3>2
  <2>3. /\ IsFiniteSet(Stored) /\ DiskUsed = Cardinality(Stored) /\ DiskUsed \in Nat
        /\ IsFiniteSet(fw.data) /\ Cardinality(fw.data) \in Nat /\ Limit \in Int
    BY Zenon, Sizes
  <2>4. IsFiniteSet(Stored') /\ DiskUsed' = Cardinality(Stored') /\ DiskUsed' \in Nat
    <3>1. IsFiniteSet(Stored \cup fw.data)
      BY <2>3, FS_Union
    <3>2. IsFiniteSet(Stored')
      BY <2>2, <3>1, FS_Subset
    <3>3. Cardinality(Stored') \in Nat
      BY <3>2, FS_CardinalityType
    <3>4. DiskUsed' = Cardinality(Stored')
      BY Zenon DEF DiskUsed, Stored
    <3>5. QED
      BY <3>2, <3>3, <3>4
  <2>5. DiskUsed' <= DiskUsed + Cardinality(fw.data)
    <3>1. IsFiniteSet(Stored \cup fw.data) /\ IsFiniteSet(Stored \cap fw.data)
      BY <2>3, FS_Union, FS_Subset
    <3>2. Cardinality(Stored') <= Cardinality(Stored \cup fw.data)
      BY <2>2, <3>1, FS_Subset
    <3>3. Cardinality(Stored \cup fw.data)
            = Cardinality(Stored) + Cardinality(fw.data) - Cardinality(Stored \cap fw.data)
      BY <2>3, FS_Union
    <3>4. Cardinality(Stored \cap fw.data) \in Nat
      BY <3>1, FS_CardinalityType
    <3>5. QED
      BY SMT, <2>3, <2>4, <3>2, <3>3, <3>4
  <2>6. Cardinality(fw'.data) = 0
    BY Zenon, <2>1, FS_EmptySet
  <2>7. DiskUsed + Cardinality(fw.data) <= Limit + 1
    BY Zenon DEF ReserveInv, ReserveKept, Limit
  <2>8. DiskUsed' + 0 <= Limit + 1
    BY SMT, <2>3, <2>4, <2>5, <2>7
  <2>9. QED
    BY Zenon, <2>1, <2>6, <2>8 DEF ReserveInv, ReserveKept, Limit
<1>5. CASE ~FwCheckSpace /\ ~FwOpen /\ ~FwWrite /\ ~FwClose
  <2>1. UNCHANGED files /\ \E p \in {"wait", "check", "pause", "drain", "paused", "close"} : FwGoto(p)
    BY Zenon, <1>5 DEF FileWriter, FwWaitOffline, FwPausePolling, FwWantDrain, FwResume,
       FwNothingLeft, FwDoneWriting
  <2>2. QED
    BY Zenon, <2>1, ReserveGoto
<1>6. QED
  BY <1>1, <1>2, <1>3, <1>4, <1>5

LEMMA NextReserve == IInv /\ IInv' /\ ReserveInv /\ [Next]_vars => ReserveInv'
<1> SUFFICES ASSUME IInv, IInv', ReserveInv, [Next]_vars PROVE ReserveInv'
  OBVIOUS
<1> USE DEF IInv
<1>1. CASE FileWriter /\ ~ReadIter("fw")
  BY Zenon, <1>1, FileWriterReserve
<1>2. ASSUME NEW c \in Consumers, ReadIter(c) PROVE ReserveInv'
  <2>1. UNCHANGED fw
    BY Zenon, <1>2 DEF ReadIter, IterInit, IterOpenFile, IterNoFile, IterClearHasFiles, IterWaitDone,
       IterFread, IterEndOfFile, IterAborts, IterReturnItem, IterUncount, IterReceive, IterFreeSpace,
       IterClearHigh, IterClearLow, IterDrained
  <2>2. CASE IterEndOfFile(c)
    <3>1. Stored' \subseteq Stored
      BY Zenon, <2>2 DEF IterEndOfFile, Stored
    <3>2. QED
      BY Zenon, <2>1, <3>1, ReserveFrame
  <2>3. CASE ~IterEndOfFile(c)
    <3>1. UNCHANGED files
      BY Zenon, <1>2, <2>3 DEF ReadIter, IterInit, IterOpenFile, IterNoFile, IterClearHasFiles,
         IterWaitDone, IterFread, IterAborts, IterReturnItem, IterUncount, IterReceive,
         IterFreeSpace, IterClearHigh, IterClearLow, IterDrained
    <3>2. QED
      BY Zenon, <2>1, <3>1, ReserveFrame DEF Stored
  <2>4. QED
    BY <2>2, <2>3
<1>3. CASE SensorRead \/ (QueueSend /\ ~ReadIter("qs")) \/ Mqtt \/ UNCHANGED vars
  <2>1. UNCHANGED <<files, fw>>
    BY Zenon, <1>3 DEF SensorRead, SrWaitPoll, SrMeasureFails, SrStore, SrFull, SrRetry, SrCount,
       SrFreeSpace, SrSetLow, SrSetHigh, QueueSend, QsWaitOnline, QsMarshall, QsNothingLeft, QsQueue,
       Mqtt, MqttConnected, MqttNotNotConn, MqttConnectFails, MqttDisconnected, MqttNotConnected,
       WatchdogRestarts, MqttPublish, MqttBits, vars
  <2>2. QED
    BY Zenon, <2>1, ReserveFrame DEF Stored
<1>4. QED
  BY <1>1, <1>2, <1>3 DEF Next, Aborted, FileWriter, QueueSend

LEMMA InitReserve ==
  ASSUME MaxOld <= Limit + 1, Init
  PROVE  ReserveInv
<1>1. PICK old \in 0 .. MaxOld : files = [f \in IF old > 0 THEN {0} ELSE {} |-> 1 .. old]
  BY Zenon DEF Init
<1>2. fw.pc = "wait" /\ fw.data = {}
  BY Zenon DEF Init
<1>3. Stored \subseteq 1 .. old
  BY Zenon, <1>1 DEF Stored
<1>4. 1 \in Int /\ old \in Int /\ old <= Limit + 1 /\ old \in Nat /\ Limit \in Int
  BY SMT, SensorMgrAssumption DEF Limit
<1>5. IsFiniteSet(1 .. old) /\ Cardinality(1 .. old) = IF 1 > old THEN 0 ELSE old - 1 + 1
  BY <1>4, FS_Interval
<1>6. IsFiniteSet(Stored) /\ Cardinality(Stored) <= Cardinality(1 .. old)
  BY <1>3, <1>5, FS_Subset
<1>7. Cardinality(Stored) \in Nat
  BY <1>6, FS_CardinalityType
<1>8. Cardinality(Stored) + 0 <= Limit + 1
  BY SMT, <1>4, <1>5, <1>6, <1>7
<1>9. DiskUsed = Cardinality(Stored) /\ Cardinality(fw.data) = 0
  BY Zenon, <1>2, FS_EmptySet DEF DiskUsed, Stored
<1>10. QED
  BY Zenon, <1>2, <1>8, <1>9 DEF ReserveInv, ReserveKept, Limit

(* Where an earlier boot left the disk within its bound, as this one does, the   *)
(* file writer never goes over the reserve by more than one reading, and         *)
(* bytes_free never wraps around.                                                *)
THEOREM ReserveIsKept ==
  ASSUME MaxOld <= DiskUnits - DiskReserve + 1
  PROVE  Spec => []ReserveKept
<1>1. Init => ReserveInv
  BY Zenon, InitReserve DEF Limit
<1>2. Spec => [](IInv /\ ReserveInv)
  BY <1>1, InitIInv, NextIInv, NextReserve, PTL DEF Spec
<1>3. ReserveInv => ReserveKept
  BY Zenon DEF ReserveInv
<1>4. QED
  BY <1>2, <1>3, PTL

--------------------------------------------------------------------------------
(* The refinement: every step of the tasks and of the MQTT client is a step of  *)
(* StoreForward or changes nothing of it, for all values of the constants.      *)
(*                                                                              *)
(* What Places does not say: a consumer holds only what it received, and a      *)
(* batch that is queued has a reading, and no more than BatchMax of them.       *)

HoldsReceived == iter["fw"].reading < ring.read /\ iter["qs"].reading < ring.read

BatchCounted ==
  /\ IsFiniteSet(qs.batch) /\ Cardinality(qs.batch) <= qs.idx
  /\ qs.idx # 0 => qs.batch # {}
  /\ qs.pc = "queue" => qs.idx # 0

HoldsInv == IInv /\ Places /\ HoldsReceived /\ BatchCounted

LEMMA InitHoldsInv == Init => HoldsInv
<1> SUFFICES ASSUME Init PROVE HoldsInv
  OBVIOUS
<1>1. IInv /\ Places
  BY InitIInv, InitPlaces
<1>2. HoldsReceived
  <2>1. iter["fw"].reading = 0 /\ iter["qs"].reading = 0
    BY Zenon DEF Init
  <2>2. ring.read \in 1 .. MaxReading + 1
    BY Zenon, <1>1 DEF IInv, TypeOK
  <2>3. QED
    BY SMT, <2>1, <2>2, SensorMgrAssumption DEF HoldsReceived
<1>3. BatchCounted
  <2>1. qs.batch = {} /\ qs.idx = 0 /\ qs.pc = "wait"
    BY Zenon DEF Init
  <2>2. QED
    BY <2>1, FS_EmptySet DEF BatchCounted
<1>4. QED
  BY <1>1, <1>2, <1>3 DEF HoldsInv

(* What a step of the iterator leaves alone, and what it may hold afterwards    *)
LEMMA IterHolds ==
  ASSUME IInv, HoldsReceived, NEW c \in Consumers, ReadIter(c)
  PROVE  HoldsReceived'
<1> USE DEF IInv
<1>1. ring.read \in Int /\ 0 < ring.read
  BY SMT, SensorMgrAssumption DEF TypeOK
<1>2. CASE IterReceive(c) /\ Unread # {}
  <2>1. ring.read \in Readings
    BY SMT, <1>2, SensorMgrAssumption DEF TypeOK, Unread, Readings
  <2>2. ring' = [ring EXCEPT !.read = @ + 1] /\ IterHold(c, ring.read, "space")
    BY Zenon, <1>2 DEF IterReceive
  <2>3. ring'.read = ring.read + 1
    BY Zenon, <2>2 DEF TypeOK
  <2>4. IterBecomes(c, "space", iter[c].state, ring.read)
    BY Zenon, <2>1, <2>2, IterHoldEffect DEF IterPCs
  <2>5. \A d \in Consumers : iter'[d].reading = iter[d].reading \/ iter'[d].reading = ring.read
    BY Zenon, <2>4 DEF IterBecomes
  <2>6. iter["fw"].reading \in Int /\ iter["qs"].reading \in Int
    <3>1. iter["fw"].reading \in Readings \cup {0} /\ iter["qs"].reading \in Readings \cup {0}
      BY Zenon DEF TypeOK, IterType
    <3>2. QED
      BY SMT, <3>1 DEF Readings
  <2>7. QED
    BY SMT, <1>1, <2>3, <2>5, <2>6 DEF HoldsReceived
<1>3. CASE ~(IterReceive(c) /\ Unread # {})
  <2>1. UNCHANGED ring
    BY Zenon, <1>3 DEF ReadIter, IterInit, IterOpenFile, IterNoFile, IterClearHasFiles,
       IterWaitDone, IterFread, IterEndOfFile, IterAborts, IterReturnItem, IterUncount, IterReceive,
       IterFreeSpace, IterClearHigh, IterClearLow, IterDrained
  <2>2. \/ UNCHANGED iter
        \/ \E p \in IterPCs, s \in IterStates :
             IterGoto(c, p) \/ IterState(c, s) \/ IterTo(c, s, p) \/ IterHold(c, None, p)
    <3>1. CASE IterInit(c) \/ IterOpenFile(c) \/ IterNoFile(c) \/ IterClearHasFiles(c)
      BY Zenon, <3>1 DEF IterInit, IterOpenFile, IterNoFile, IterClearHasFiles, IterPCs, IterStates
    <3>2. CASE IterWaitDone(c) \/ IterFread(c) \/ IterEndOfFile(c) \/ IterReturnItem(c)
      BY Zenon, <3>2 DEF IterWaitDone, IterFread, IterEndOfFile, IterReturnItem, IterPCs, IterStates
    <3>3. CASE IterUncount(c) \/ IterReceive(c) \/ IterFreeSpace(c)
      BY Zenon, <1>3, <3>3 DEF IterUncount, IterReceive, IterFreeSpace, IterPCs, IterStates
    <3>4. CASE IterClearHigh(c) \/ IterClearLow(c) \/ IterDrained(c)
      BY Zenon, <3>4 DEF IterClearHigh, IterClearLow, IterDrained, IterPCs, IterStates
    <3>5. CASE IterAborts(c)
      BY Zenon, <3>5 DEF IterAborts
    <3>6. QED
      BY <3>1, <3>2, <3>3, <3>4, <3>5 DEF ReadIter
  <2>3. \A d \in Consumers : iter'[d].reading = iter[d].reading \/ iter'[d].reading = None
    BY Zenon, <2>2, IterGotoEffect, IterStateEffect, IterToEffect, IterHoldEffect DEF IterBecomes
  <2>4. QED
    BY SMT, <1>1, <2>1, <2>3 DEF HoldsReceived
<1>4. QED
  BY <1>2, <1>3

(* The fields of queuesend that its batch is about                              *)
LEMMA IterBatch ==
  ASSUME IInv, BatchCounted, NEW c \in Consumers, ReadIter(c)
  PROVE  BatchCounted'
<1> USE DEF IInv
<1>1. qs'.batch = qs.batch /\ qs'.idx = qs.idx /\ (qs'.pc = qs.pc \/ qs'.pc = "aborted")
  <2>1. CASE IterOpenFile(c)
    BY Zenon, <2>1, QsOpenEffect DEF IterOpenFile
  <2>2. CASE IterFread(c)
    BY Zenon, <2>2, QsFreadEffect DEF IterFread
  <2>3. CASE IterEndOfFile(c)
    BY Zenon, <2>3, QsEndOfFileEffect DEF IterEndOfFile
  <2>4. CASE IterAborts(c)
    BY Zenon, <2>4, QsAbortEffect
  <2>5. CASE ~(IterOpenFile(c) \/ IterFread(c) \/ IterEndOfFile(c) \/ IterAborts(c))
    BY Zenon, <2>5 DEF ReadIter, IterInit, IterNoFile, IterClearHasFiles,
       IterWaitDone, IterReturnItem, IterUncount, IterReceive,
       IterFreeSpace, IterClearHigh, IterClearLow, IterDrained
  <2>6. QED
    BY <2>1, <2>2, <2>3, <2>4, <2>5
<1>2. QED
  BY Zenon, <1>1 DEF BatchCounted

LEMMA NextHolds == IInv /\ HoldsReceived /\ [Next]_vars => HoldsReceived'
<1> SUFFICES ASSUME IInv, HoldsReceived, [Next]_vars PROVE HoldsReceived'
  OBVIOUS
<1> USE DEF IInv
<1>1. CASE \E c \in Consumers : ReadIter(c)
  BY <1>1, IterHolds
<1>2. CASE ~(\E c \in Consumers : ReadIter(c))
  <2>1. ring'.read = ring.read
    <3>1. CASE SrStore
      BY Zenon, <3>1 DEF SrStore, TypeOK
    <3>2. CASE SensorRead /\ ~SrStore
      BY Zenon, <3>2 DEF SensorRead, SrWaitPoll, SrMeasureFails, SrFull, SrRetry,
         SrCount, SrFreeSpace, SrSetLow, SrSetHigh
    <3>3. CASE FileWriter
      BY Zenon, <1>2, <3>3 DEF FileWriter, FwWaitOffline, FwCheckSpace, FwPausePolling,
         FwWantDrain, FwResume, FwOpen, FwNothingLeft, FwWrite, FwClose, FwDoneWriting
    <3>4. CASE QueueSend
      BY Zenon, <1>2, <3>4 DEF QueueSend, QsWaitOnline, QsMarshall, QsNothingLeft, QsQueue
    <3>5. CASE Mqtt \/ UNCHANGED vars
      BY Zenon, <3>5 DEF Mqtt, MqttConnected, MqttNotNotConn, MqttConnectFails,
         MqttDisconnected, MqttNotConnected, WatchdogRestarts, MqttPublish, MqttBits, vars
    <3>6. QED
      BY <3>1, <3>2, <3>3, <3>4, <3>5 DEF Next, Aborted
  <2>2. UNCHANGED iter \/ \E c \in Consumers, p \in IterPCs : IterGoto(c, p)
    <3>1. CASE SensorRead
      BY Zenon, <3>1 DEF SensorRead, SrStore, SrWaitPoll, SrMeasureFails, SrFull, SrRetry,
         SrCount, SrFreeSpace, SrSetLow, SrSetHigh
    <3>2. CASE FileWriter
      BY Zenon, <1>2, <3>2 DEF FileWriter, FwWaitOffline, FwCheckSpace, FwPausePolling,
         FwWantDrain, FwResume, FwOpen, FwNothingLeft, FwWrite, FwClose, FwDoneWriting, IterPCs
    <3>3. CASE QueueSend
      BY Zenon, <1>2, <3>3 DEF QueueSend, QsWaitOnline, QsMarshall, QsNothingLeft, QsQueue,
         IterPCs
    <3>4. CASE Mqtt \/ UNCHANGED vars
      BY Zenon, <3>4 DEF Mqtt, MqttConnected, MqttNotNotConn, MqttConnectFails,
         MqttDisconnected, MqttNotConnected, WatchdogRestarts, MqttPublish, MqttBits, vars
    <3>5. QED
      BY <3>1, <3>2, <3>3, <3>4 DEF Next, Aborted
  <2>3. iter'["fw"].reading = iter["fw"].reading /\ iter'["qs"].reading = iter["qs"].reading
    BY Zenon, <2>2, IterGotoEffect DEF IterBecomes
  <2>4. QED
    BY Zenon, <2>1, <2>3 DEF HoldsReceived
<1>3. QED
  BY <1>1, <1>2

LEMMA MarshallBatch ==
  ASSUME IInv, BatchCounted, QsMarshall
  PROVE  BatchCounted'
<1> USE DEF IInv
<1>1. qs.idx < BatchMax /\ qs.idx \in Nat
  <2>1. qs.pc = "read"
    BY Zenon DEF QsMarshall
  <2>2. QED
    BY SMT, <2>1 DEF Control, TypeOK, QsType
<1>2. qs'.batch = qs.batch \cup {QsReading} /\ qs'.idx = qs.idx + 1
  BY Zenon, <1>1, QsMarshallEffect
<1>3. IsFiniteSet(qs.batch)
  BY DEF BatchCounted
<1>4. /\ IsFiniteSet(qs.batch \cup {QsReading})
      /\ Cardinality(qs.batch \cup {QsReading}) <= Cardinality(qs.batch) + 1
  <2>1. Cardinality(qs.batch) \in Nat
    BY <1>3, FS_CardinalityType
  <2>2. QED
    BY SMT, <1>3, <2>1, FS_AddElement
<1>5. Cardinality(qs'.batch) <= qs'.idx
  <2>1. Cardinality(qs.batch) \in Nat /\ Cardinality(qs.batch \cup {QsReading}) \in Nat
    BY <1>3, <1>4, FS_CardinalityType
  <2>2. QED
    BY SMT, <1>1, <1>2, <1>4, <2>1 DEF BatchCounted
<1>6. qs'.batch # {} /\ qs'.idx # 0
  <2>1. qs.idx + 1 # 0
    BY SMT, <1>1
  <2>2. QED
    BY Zenon, <1>2, <2>1
<1>7. QED
  BY Zenon, <1>2, <1>4, <1>5, <1>6 DEF BatchCounted

LEMMA NextBatch == IInv /\ BatchCounted /\ [Next]_vars => BatchCounted'
<1> SUFFICES ASSUME IInv, BatchCounted, [Next]_vars PROVE BatchCounted'
  OBVIOUS
<1> USE DEF IInv
<1>1. CASE \E c \in Consumers : ReadIter(c)
  BY <1>1, IterBatch
<1>2. CASE QsMarshall
  BY <1>2, MarshallBatch
<1>3. CASE QsQueue
  <2>1. qs'.batch = {} /\ qs'.idx = 0 /\ qs'.pc = "wait"
    BY Zenon, <1>3, QsQueueEffect
  <2>2. QED
    BY <2>1, FS_EmptySet DEF BatchCounted
<1>4. CASE QsWaitOnline \/ QsNothingLeft
  <2>1. /\ qs'.batch = qs.batch /\ qs'.idx = qs.idx
        /\ qs'.pc = "queue" => qs.idx # 0
    <3>1. CASE QsWaitOnline
      BY Zenon, <3>1, QsGotoEffect DEF QsWaitOnline
    <3>2. CASE QsNothingLeft /\ qs.idx # 0
      BY Zenon, <3>2, QsGotoEffect DEF QsNothingLeft
    <3>3. CASE QsNothingLeft /\ qs.idx = 0
      BY Zenon, <3>3, QsGotoEffect DEF QsNothingLeft
    <3>4. QED
      BY <1>4, <3>1, <3>2, <3>3
  <2>2. QED
    BY Zenon, <2>1 DEF BatchCounted
<1>5. CASE SensorRead \/ (FileWriter /\ ~ReadIter("fw")) \/ Mqtt \/ UNCHANGED vars
  <2>1. UNCHANGED qs
    <3>1. CASE SensorRead
      BY Zenon, <3>1 DEF SensorRead, SrStore, SrWaitPoll, SrMeasureFails, SrFull, SrRetry,
         SrCount, SrFreeSpace, SrSetLow, SrSetHigh
    <3>2. CASE FileWriter /\ ~ReadIter("fw")
      BY Zenon, <3>2 DEF FileWriter, FwWaitOffline, FwCheckSpace, FwPausePolling,
         FwWantDrain, FwResume, FwOpen, FwNothingLeft, FwWrite, FwClose, FwDoneWriting
    <3>3. CASE Mqtt \/ UNCHANGED vars
      BY Zenon, <3>3 DEF Mqtt, MqttConnected, MqttNotNotConn, MqttConnectFails,
         MqttDisconnected, MqttNotConnected, WatchdogRestarts, MqttPublish, MqttBits, vars
    <3>4. QED
      BY <1>5, <3>1, <3>2, <3>3
  <2>2. QED
    BY Zenon, <2>1 DEF BatchCounted
<1>6. QED
  BY Zenon, <1>1, <1>2, <1>3, <1>4, <1>5 DEF Next, Aborted, FileWriter, QueueSend

LEMMA NextHoldsInv == HoldsInv /\ [Next]_vars => HoldsInv'
BY NextIInv, NextPlaces, NextHolds, NextBatch DEF HoldsInv

--------------------------------------------------------------------------------
(* The channel. Memory holds what is unread, with a task or in the batch, the   *)
(* disk what is being written, in a file or being read.                         *)

MemoryParts ==
  \A r : r \in InMemory <=>
    r \in Unread \/ r \in FreshOf("fw") \/ r \in FreshOf("qs") \/ r \in qs.batch

DiskParts ==
  \A r : r \in OnDisk <=>
    \/ r \in fw.data \/ r \in Todo
    \/ \E f \in DOMAIN files : f # qs.file /\ r \in files[f]

LEMMA MemoryHasParts == IInv => MemoryParts
<1> SUFFICES ASSUME IInv PROVE MemoryParts
  OBVIOUS
<1>1. None \notin Readings
  BY SMT DEF Readings
<1>2. \A c \in Consumers : iter[c].reading \in Readings \cup {None}
  BY Zenon DEF IInv, TypeOK, IterType
<1>3. \A c \in Consumers : iter[c].pc = "drained" => iter[c].reading = None
  BY Zenon DEF IInv, Control
<1>4. ASSUME NEW r
      PROVE  r \in Pending <=> r \in FreshOf("fw") \/ r \in FreshOf("qs")
  <2>1. r \in Pending
          <=> /\ r # None
              /\ \E c \in Consumers : /\ iter[c].pc \in {"space", "high", "low", "ret"}
                                      /\ r = iter[c].reading
    BY Zenon DEF Pending
  <2>2. \A c \in Consumers :
          r \in FreshOf(c) <=> /\ r # None /\ iter[c].pc \in {"space", "high", "low", "ret"}
                               /\ r = iter[c].reading
    BY Zenon, <1>1, <1>2, <1>3 DEF FreshOf
  <2>3. QED
    BY Zenon, <2>1, <2>2
<1>5. QED
  BY Zenon, <1>4 DEF MemoryParts, InMemory

LEMMA MemoryHadParts == IInv' => MemoryParts'
BY MemoryHasParts, PTL

LEMMA DiskHasParts == DiskParts
BY Zenon DEF DiskParts, OnDisk, InFlight, Todo

LEMMA DiskHadParts == DiskParts'
BY DiskHasParts, PTL

(* What did not move is where it was                                            *)

LEMMA MemoryFrame ==
  ASSUME IInv, IInv', UNCHANGED ring, qs'.batch = qs.batch,
         FreshOf("fw")' = FreshOf("fw"), FreshOf("qs")' = FreshOf("qs")
  PROVE  InMemory' = InMemory
<1>1. Unread' = Unread
  BY Zenon DEF Unread
<1>2. \A r : r \in InMemory' <=> r \in InMemory
  BY Zenon, <1>1, MemoryHasParts, MemoryHadParts DEF MemoryParts
<1>3. QED
  BY Zenon, <1>2

LEMMA DiskFrame ==
  ASSUME UNCHANGED files, fw'.data = fw.data, qs'.todo = qs.todo,
         qs'.reading = qs.reading, qs'.file = qs.file
  PROVE  OnDisk' = OnDisk
<1>1. InFlight' = InFlight
  BY Zenon DEF InFlight
<1>2. QED
  BY Zenon, <1>1 DEF OnDisk

LEMMA QuietStutters ==
  ASSUME IInv, IInv', Quiet
  PROVE  InMemory' = InMemory /\ OnDisk' = OnDisk /\ UNCHANGED <<ring, sent>>
BY Zenon, MemoryFrame, DiskFrame DEF Quiet

(* An item is in one of the places in memory, and then it is not on the disk    *)

LEMMA InBatch ==
  ASSUME IInv, Places, NEW r \in qs.batch
  PROVE  /\ r \in Readings /\ r < ring.read /\ r \notin Unread
         /\ r \notin FreshOf("fw") /\ r \notin FreshOf("qs")
         /\ r \notin OnDisk /\ r \notin sent
<1>1. r \in Delivered /\ r \in Taken /\ r \in Readings
  BY Zenon DEF Delivered, Taken, IInv, TypeOK, QsType
<1>2. r < ring.read /\ r \notin FreshOf("fw") /\ r \notin FreshOf("qs")
  BY Zenon, <1>1 DEF Places, TakenOnce
<1>3. r \notin Unread
  BY SMT, <1>1, <1>2 DEF Unread, Readings, IInv, TypeOK
<1>4. r \notin OnDisk /\ r \notin sent
  BY Zenon, <1>1, DiskHasParts DEF DiskParts, Places, FilesApart, TasksApart
<1>5. QED
  BY <1>1, <1>2, <1>3, <1>4

LEMMA InFresh ==
  ASSUME IInv, Places, NEW c \in Consumers, NEW r \in FreshOf(c)
  PROVE  /\ r \in Readings /\ r < ring.read /\ r \notin Unread
         /\ \A d \in Consumers \ {c} : r \notin FreshOf(d)
         /\ r \notin Taken /\ r \notin OnDisk
<1>1. r \in Readings /\ r < ring.read /\ r \notin Taken
  BY Zenon DEF FreshOf, Places, TakenOnce
<1>2. r \notin Unread
  BY SMT, <1>1 DEF Unread, Readings, IInv, TypeOK
<1>3. \A d \in Consumers \ {c} : r \notin FreshOf(d)
  <2>1. r \notin FreshOf("fw") \/ r \notin FreshOf("qs")
    BY Zenon DEF Places, TakenOnce
  <2>2. CASE c = "fw"
    BY Zenon, <2>1, <2>2
  <2>3. CASE c = "qs"
    BY Zenon, <2>1, <2>3
  <2>4. QED
    BY <2>2, <2>3
<1>4. r \notin OnDisk
  BY Zenon, <1>1, DiskHasParts, InStored DEF DiskParts, Taken
<1>5. QED
  BY <1>1, <1>2, <1>3, <1>4

--------------------------------------------------------------------------------
(* The steps that do something in the channel                                   *)

LEMMA StoreTakes ==
  ASSUME HoldsInv, HoldsInv', SrStore
  PROVE  SF!Take
<1> USE DEF HoldsInv, IInv
<1>1. ring'.write = ring.write + 1 /\ ring'.read = ring.read
      /\ UNCHANGED <<files, iter, fw, qs, sent, outq>>
  BY Zenon DEF SrStore, TypeOK
<1>2. OnDisk' = OnDisk
  BY Zenon, <1>1, DiskFrame
<1>3. /\ ring.write - 1 + 1 = ring.write /\ ring'.write - 1 = ring.write
      /\ \A r : r \in Unread' <=> r \in Unread \/ r = ring.write
  BY SMT, <1>1 DEF TypeOK, Unread, Places, TakenOnce
<1>4. FreshOf("fw")' = FreshOf("fw") /\ FreshOf("qs")' = FreshOf("qs")
  BY Zenon, <1>1 DEF FreshOf
<1>5. \A r : r \in InMemory' <=> r \in InMemory \/ r = ring.write
  BY Zenon, <1>1, <1>3, <1>4, MemoryHasParts, MemoryHadParts DEF MemoryParts
<1>6. InMemory' = InMemory \cup {ring.write}
  BY Zenon, <1>5
<1>7. QED
  BY Zenon, <1>1, <1>2, <1>3, <1>6 DEF SF!Take

LEMMA WriteSpills ==
  ASSUME HoldsInv, HoldsInv', FwWrite
  PROVE  \E r \in InMemory : SF!Spill(r)
<1> USE DEF HoldsInv, IInv
<1> DEFINE r == iter["fw"].reading
<1>1. r \in Readings /\ iter["fw"].pc = "ret" /\ r # None
      /\ UNCHANGED <<ring, files, qs, sent, outq>>
  BY Zenon DEF FwWrite, TypeOK, IterType
<1>2. fw'.data = fw.data \cup {r}
  BY Zenon, FwWriteEffect
<1>3. r \in FreshOf("fw") /\ FreshOf("fw") = {r}
  BY Zenon, <1>1 DEF FreshOf
<1>4. FreshOf("fw")' = {} /\ FreshOf("qs")' = FreshOf("qs")
  <2>1. PICK p \in {"idle", "switch"} : IterGoto("fw", p)
    BY Zenon DEF FwWrite
  <2>2. IterBecomes("fw", p, iter["fw"].state, iter["fw"].reading)
    BY Zenon, <2>1, IterGotoEffect DEF IterPCs
  <2>3. QED
    BY Zenon, <2>1, <2>2 DEF FreshOf, IterBecomes
<1>5. r \notin Unread /\ r \notin FreshOf("qs") /\ r \notin qs.batch
  BY Zenon, <1>3, InFresh DEF Taken, Delivered
<1>6. Unread' = Unread
  BY Zenon, <1>1 DEF Unread
<1>7. \A x : x \in InMemory' <=> x \in InMemory /\ x # r
  BY Zenon, <1>1, <1>3, <1>4, <1>5, <1>6, MemoryHasParts, MemoryHadParts DEF MemoryParts
<1>8. InMemory' = InMemory \ {r} /\ r \in InMemory
  <2>1. r \in InMemory
    BY Zenon, <1>3, MemoryHasParts DEF MemoryParts
  <2>2. QED
    BY Zenon, <1>7, <2>1
<1>9. \A x : x \in OnDisk' <=> x \in OnDisk \/ x = r
  BY Zenon, <1>1, <1>2, DiskHasParts, DiskHadParts DEF DiskParts, Todo
<1>10. OnDisk' = OnDisk \cup {r}
  BY Zenon, <1>9
<1>11. SF!Spill(r)
  BY Zenon, <1>1, <1>8, <1>10 DEF SF!Spill
<1>12. QED
  BY <1>8, <1>11

LEMMA OpenErases ==
  ASSUME HoldsInv, HoldsInv', FwOpen
  PROVE  SF!Erase
<1> USE DEF HoldsInv, IInv
<1>1. UNCHANGED <<ring, qs, sent, outq>> /\ iter["fw"].pc = "idle" /\ IterGoto("fw", "switch")
  BY Zenon DEF FwOpen, Control
<1>2. /\ DOMAIN files' = DOMAIN files \cup {now'}
      /\ files'[now'] = {}
      /\ \A f \in DOMAIN files \ {now'} : files'[f] = files[f]
      /\ fw'.data = fw.data
  BY Zenon, FwOpenEffect
<1>3. \A x : x \in OnDisk' => x \in OnDisk
  BY Zenon, <1>1, <1>2, DiskHasParts, DiskHadParts DEF DiskParts, Todo
<1>4. IterBecomes("fw", "switch", iter["fw"].state, iter["fw"].reading)
  BY Zenon, <1>1, IterGotoEffect DEF IterPCs
<1>5. FreshOf("fw")' = FreshOf("fw") /\ FreshOf("qs")' = FreshOf("qs")
  BY Zenon, <1>1, <1>4, FreshFrame
<1>6. InMemory' = InMemory
  BY Zenon, <1>1, <1>5, MemoryFrame
<1>7. QED
  BY Zenon, <1>1, <1>3, <1>6 DEF SF!Erase

LEMMA CloseErases ==
  ASSUME HoldsInv, HoldsInv', FwClose
  PROVE  SF!Erase
<1> USE DEF HoldsInv, IInv
<1>1. fw'.data = {} /\ UNCHANGED <<ring, iter, qs, sent, outq>>
  BY Zenon, FwCloseEffect DEF FwClose
<1>2. \A x : x \in OnDisk' => x \in OnDisk
  <2>1. CASE fw.file \in DOMAIN files
    <3>1. /\ DOMAIN files' = DOMAIN files /\ files'[fw.file] = fw.data
          /\ \A f \in DOMAIN files \ {fw.file} : files'[f] = files[f]
      BY Zenon, <2>1 DEF FwClose
    <3>2. QED
      BY Zenon, <1>1, <3>1, DiskHasParts, DiskHadParts DEF DiskParts, Todo
  <2>2. CASE fw.file \notin DOMAIN files
    <3>1. UNCHANGED files
      BY Zenon, <2>2 DEF FwClose
    <3>2. QED
      BY Zenon, <1>1, <3>1, DiskHasParts, DiskHadParts DEF DiskParts, Todo
  <2>3. QED
    BY <2>1, <2>2
<1>3. FreshOf("fw")' = FreshOf("fw") /\ FreshOf("qs")' = FreshOf("qs")
  BY Zenon, <1>1 DEF FreshOf
<1>4. InMemory' = InMemory
  BY Zenon, <1>1, <1>3, MemoryFrame
<1>5. QED
  BY Zenon, <1>1, <1>2, <1>4 DEF SF!Erase

LEMMA QueueSends ==
  ASSUME HoldsInv, HoldsInv', QsQueue
  PROVE  \E B \in SUBSET InMemory : SF!Send(B)
<1> USE DEF HoldsInv, IInv
<1>1. /\ qs'.batch = {} /\ qs'.todo = qs.todo /\ qs'.reading = qs.reading
      /\ qs'.file = qs.file
      /\ sent' = sent \cup qs.batch /\ outq < QueueSlots /\ outq' = outq + 1
      /\ qs.pc = "queue" /\ UNCHANGED <<ring, files, iter, fw>>
  BY Zenon, QsQueueEffect DEF QsQueue
<1>2. OnDisk' = OnDisk
  BY Zenon, <1>1, DiskFrame
<1>3. qs.batch \subseteq InMemory
  BY Zenon, MemoryHasParts DEF MemoryParts
<1>4. qs.batch # {} /\ Cardinality(qs.batch) <= BatchMax
  <2>1. qs.batch # {} /\ Cardinality(qs.batch) <= qs.idx /\ qs.idx \in 0 .. BatchMax
    BY Zenon, <1>1 DEF BatchCounted, TypeOK, QsType
  <2>2. Cardinality(qs.batch) \in Nat
    BY FS_CardinalityType DEF BatchCounted
  <2>3. QED
    BY SMT, <2>1, <2>2, SensorMgrAssumption
<1>5. FreshOf("fw")' = FreshOf("fw") /\ FreshOf("qs")' = FreshOf("qs") /\ Unread' = Unread
  BY Zenon, <1>1 DEF FreshOf, Unread
<1>6. \A x \in qs.batch : x \notin Unread /\ x \notin FreshOf("fw") /\ x \notin FreshOf("qs")
  BY Zenon, InBatch
<1>7. \A x : x \in InMemory' <=> x \in InMemory /\ x \notin qs.batch
  BY Zenon, <1>1, <1>5, <1>6, MemoryHasParts, MemoryHadParts DEF MemoryParts
<1>8. InMemory' = InMemory \ qs.batch
  BY Zenon, <1>7
<1>9. SF!Send(qs.batch)
  <2>1. ring'.write - 1 = ring.write - 1
    BY Zenon, <1>1
  <2>2. SF!Cardinality(qs.batch) = Cardinality(qs.batch)
    BY DEF SF!Cardinality, Cardinality
  <2>3. QED
    BY Zenon, <1>1, <1>2, <1>4, <1>8, <2>1, <2>2 DEF SF!Send
<1>10. QED
  BY Zenon, <1>3, <1>9

LEMMA MarshallLoads ==
  ASSUME HoldsInv, HoldsInv', QsMarshall
  PROVE  (\E r \in OnDisk : SF!Load(r)) \/ UNCHANGED SF!vars
<1> USE DEF HoldsInv, IInv
<1> DEFINE r == QsReading
<1>1. /\ qs.pc = "read" /\ iter["qs"].pc = "ret" /\ r # None
      /\ UNCHANGED <<ring, files, fw, sent, outq>>
  BY Zenon DEF QsMarshall
<1>2. /\ qs'.batch = qs.batch \cup {r} /\ qs'.reading = None /\ qs'.todo = qs.todo
      /\ qs'.file = qs.file
  <2>1. qs.idx < BatchMax
    BY Zenon, <1>1 DEF Control
  <2>2. QED
    BY Zenon, <2>1, QsMarshallEffect
<1>3. Unread' = Unread
  BY Zenon, <1>1 DEF Unread
<1>4. FreshOf("qs")' = {} /\ FreshOf("fw")' = FreshOf("fw")
  <2>1. PICK p \in {"idle", "switch"} : IterGoto("qs", p)
    BY Zenon DEF QsMarshall
  <2>2. IterBecomes("qs", p, iter["qs"].state, iter["qs"].reading)
    BY Zenon, <2>1, IterGotoEffect DEF IterPCs
  <2>3. QED
    BY Zenon, <2>1, <2>2 DEF FreshOf, IterBecomes
<1>5. ring'.write - 1 = ring.write - 1
  BY Zenon, <1>1
<1>6. CASE iter["qs"].state = "HFOO"
  <2>1. r = qs.reading /\ iter["qs"].reading = None
    BY Zenon, <1>6 DEF QsReading, Control
  <2>2. r \in Todo /\ r \notin qs.todo /\ r \notin fw.data
        /\ \A f \in DOMAIN files : f # qs.file => r \notin files[f]
    BY Zenon, <1>1, <2>1 DEF Todo, Places, TasksApart, FilesApart
  <2>3. \A x : x \in Todo' <=> x \in Todo /\ x # r
    BY Zenon, <1>1, <1>2, <2>1, <2>2 DEF Todo
  <2>4. \A x : x \in OnDisk' <=> x \in OnDisk /\ x # r
    BY Zenon, <1>1, <1>2, <2>2, <2>3, DiskHasParts, DiskHadParts DEF DiskParts
  <2>5. r \in OnDisk
    BY Zenon, <2>2, DiskHasParts DEF DiskParts
  <2>6. OnDisk' = OnDisk \ {r}
    BY Zenon, <2>4
  <2>7. FreshOf("qs") = {}
    <3>1. None \notin Readings
      BY SMT DEF Readings
    <3>2. QED
      BY Zenon, <2>1, <3>1 DEF FreshOf
  <2>8. \A x : x \in InMemory' <=> x \in InMemory \/ x = r
    BY Zenon, <1>2, <1>3, <1>4, <2>7, MemoryHasParts, MemoryHadParts DEF MemoryParts
  <2>9. InMemory' = InMemory \cup {r}
    BY Zenon, <2>8
  <2>10. SF!Load(r)
    BY Zenon, <1>1, <1>5, <2>5, <2>6, <2>9 DEF SF!Load
  <2>11. QED
    BY <2>5, <2>10
<1>7. CASE iter["qs"].state # "HFOO"
  <2>1. r = iter["qs"].reading /\ qs.reading = None
    BY Zenon, <1>7 DEF Control, QsReading
  <2>2. FreshOf("qs") = {r}
    BY Zenon, <1>1, <2>1 DEF FreshOf, TypeOK, IterType
  <2>3. \A x : x \in InMemory' <=> x \in InMemory
    BY Zenon, <1>2, <1>3, <1>4, <2>2, MemoryHasParts, MemoryHadParts DEF MemoryParts
  <2>4. InMemory' = InMemory
    BY Zenon, <2>3
  <2>5. OnDisk' = OnDisk
    BY Zenon, <1>1, <1>2, <2>1, DiskFrame
  <2>6. QED
    BY Zenon, <1>1, <1>5, <2>4, <2>5 DEF SF!vars
<1>8. QED
  BY <1>6, <1>7

(* Within the iterator, only the removal of a file does something in the channel *)
LEMMA EndOfFileErases ==
  ASSUME HoldsInv, HoldsInv', NEW c \in Consumers, IterEndOfFile(c)
  PROVE  SF!Erase
<1> USE DEF HoldsInv, IInv
<1>1. /\ files' = [f \in DOMAIN files \ {qs.file} |-> files[f]]
      /\ UNCHANGED <<ring, fw, sent, outq>>
      /\ iter[c].pc = "fread" /\ IterTo(c, "HFNO", "switch")
  BY Zenon DEF IterEndOfFile
<1>2. /\ qs'.todo = {} /\ qs'.reading = qs.reading /\ qs'.batch = qs.batch
      /\ qs'.file = NoFile
  BY Zenon, QsEndOfFileEffect DEF IterEndOfFile
<1>3. \A x : x \in OnDisk' => x \in OnDisk
  BY Zenon, <1>1, <1>2, DiskHasParts, DiskHadParts DEF DiskParts, Todo
<1>4. IterBecomes(c, "switch", "HFNO", iter[c].reading)
  BY Zenon, <1>1, IterToEffect DEF IterPCs, IterStates
<1>5. FreshOf("fw")' = FreshOf("fw") /\ FreshOf("qs")' = FreshOf("qs")
  BY Zenon, <1>1, <1>4, FreshFrame
<1>6. InMemory' = InMemory
  BY Zenon, <1>1, <1>2, <1>5, MemoryFrame
<1>7. QED
  BY Zenon, <1>1, <1>3, <1>6 DEF SF!Erase

LEMMA ReceiveStutters ==
  ASSUME HoldsInv, HoldsInv', NEW c \in Consumers, IterReceive(c)
  PROVE  UNCHANGED SF!vars
<1> USE DEF HoldsInv, IInv
<1>1. iter[c].reading = None /\ UNCHANGED <<outq, files, sent, fw, qs>>
  BY Zenon DEF IterReceive, IterAt, Control
<1>2. OnDisk' = OnDisk
  BY Zenon, <1>1, DiskFrame
<1>3. CASE Unread = {}
  <2>1. UNCHANGED ring /\ IterGoto(c, "space")
    BY Zenon, <1>3 DEF IterReceive
  <2>2. IterBecomes(c, "space", iter[c].state, iter[c].reading)
    BY Zenon, <2>1, IterGotoEffect DEF IterPCs
  <2>3. InMemory' = InMemory
    BY Zenon, <1>1, <2>1, <2>2, FreshFrame, MemoryFrame
  <2>4. QED
    BY Zenon, <1>1, <1>2, <2>1, <2>3 DEF SF!vars
<1>4. CASE Unread # {}
  <2>1. ring.read \in Readings /\ ring.read < ring.write
    BY SMT, <1>4, SensorMgrAssumption DEF TypeOK, Unread, Readings
  <2>2. ring' = [ring EXCEPT !.read = @ + 1] /\ IterHold(c, ring.read, "space")
    BY Zenon, <1>4 DEF IterReceive
  <2>3. ring'.read = ring.read + 1 /\ ring'.write = ring.write
    BY Zenon, <2>2 DEF TypeOK
  <2>4. \A x : x \in Unread <=> x \in Unread' \/ x = ring.read
    BY SMT, <2>1, <2>3 DEF Unread, TypeOK
  <2>5. IterBecomes(c, "space", iter[c].state, ring.read)
    BY Zenon, <2>1, <2>2, IterHoldEffect DEF IterPCs
  <2>6. FreshOf(c) = {} /\ FreshOf(c)' = {ring.read}
    <3>1. None \notin Readings
      BY SMT DEF Readings
    <3>2. QED
      BY Zenon, <1>1, <2>1, <2>5, <3>1 DEF FreshOf, IterBecomes
  <2>7. \A d \in Consumers \ {c} : FreshOf(d)' = FreshOf(d)
    BY Zenon, <2>5 DEF FreshOf, IterBecomes
  <2>8. \A x : x \in InMemory' <=> x \in InMemory
    BY Zenon, <1>1, <2>4, <2>6, <2>7, MemoryHasParts, MemoryHadParts DEF MemoryParts
  <2>9. InMemory' = InMemory /\ ring'.write - 1 = ring.write - 1
    BY Zenon, <2>3, <2>8
  <2>10. QED
    BY Zenon, <1>1, <1>2, <2>9 DEF SF!vars
<1>5. QED
  BY <1>3, <1>4

LEMMA OpenFileStutters ==
  ASSUME HoldsInv, HoldsInv', NEW c \in Consumers, IterOpenFile(c)
  PROVE  UNCHANGED SF!vars
<1> USE DEF HoldsInv, IInv
<1>1. PICK f \in DOMAIN files : qs' = [qs EXCEPT !.file = f, !.todo = files[f]]
  BY Zenon DEF IterOpenFile
<1>2. /\ qs'.todo = files[f] /\ qs'.reading = qs.reading /\ qs'.batch = qs.batch
      /\ qs'.file = f
  BY Zenon, <1>1, QsOpenEffect
<1>3. /\ iter[c].pc = "switch" /\ iter[c].state = "HFNO" /\ IterState(c, "HFOO")
      /\ UNCHANGED <<ring, files, fw, sent, outq>>
  BY Zenon DEF IterOpenFile, IterAt
<1>4. iter["qs"].state # "HFOO"
  BY Zenon, <1>3 DEF Control
<1>5. qs.todo = {} /\ qs.file = NoFile
  BY Zenon, <1>4 DEF Control
<1>6. NoFile \notin DOMAIN files
  <2>1. NoFile \notin FileNames
    BY SMT DEF FileNames
  <2>2. QED
    BY Zenon, <2>1 DEF TypeOK
<1>7. \A x : x \in OnDisk' <=> x \in OnDisk
  BY Zenon, <1>2, <1>3, <1>5, <1>6, DiskHasParts, DiskHadParts DEF DiskParts, Todo
<1>8. IterBecomes(c, iter[c].pc, "HFOO", iter[c].reading)
  BY Zenon, <1>3, IterStateEffect DEF IterStates
<1>9. FreshOf("fw")' = FreshOf("fw") /\ FreshOf("qs")' = FreshOf("qs")
  BY Zenon, <1>3, <1>8, FreshFrame
<1>10. InMemory' = InMemory
  BY Zenon, <1>2, <1>3, <1>9, MemoryFrame
<1>11. OnDisk' = OnDisk
  BY Zenon, <1>7
<1>12. QED
  BY Zenon, <1>3, <1>10, <1>11 DEF SF!vars

LEMMA FreadStutters ==
  ASSUME HoldsInv, HoldsInv', NEW c \in Consumers, IterFread(c)
  PROVE  UNCHANGED SF!vars
<1> USE DEF HoldsInv, IInv
<1>1. PICK r \in qs.todo : qs' = [qs EXCEPT !.todo = @ \ {r}, !.reading = r]
  BY Zenon DEF IterFread
<1>2. /\ qs'.todo = qs.todo \ {r} /\ qs'.reading = r /\ qs'.batch = qs.batch
      /\ qs'.file = qs.file
  BY Zenon, <1>1, QsFreadEffect
<1>3. /\ iter[c].pc = "fread" /\ iter[c].state = "HFOO" /\ IterGoto(c, "ret")
      /\ UNCHANGED <<ring, files, fw, sent, outq>>
  BY Zenon DEF IterFread, Control
<1>4. qs.reading = None /\ iter[c].reading = None
  BY Zenon, <1>3 DEF Control
<1>5. r # None
  <2>1. r \in Readings
    BY Zenon, <1>1 DEF TypeOK, QsType
  <2>2. QED
    BY SMT, <2>1 DEF Readings
<1>6. Todo' = Todo
  BY Zenon, <1>1, <1>2, <1>4, <1>5 DEF Todo
<1>7. \A x : x \in OnDisk' <=> x \in OnDisk
  BY Zenon, <1>2, <1>3, <1>6, DiskHasParts, DiskHadParts DEF DiskParts
<1>8. IterBecomes(c, "ret", iter[c].state, iter[c].reading)
  BY Zenon, <1>3, IterGotoEffect DEF IterPCs
<1>9. FreshOf("fw")' = FreshOf("fw") /\ FreshOf("qs")' = FreshOf("qs")
  BY Zenon, <1>4, <1>8, FreshFrame
<1>10. InMemory' = InMemory
  BY Zenon, <1>2, <1>3, <1>9, MemoryFrame
<1>11. OnDisk' = OnDisk
  BY Zenon, <1>7
<1>12. QED
  BY Zenon, <1>3, <1>10, <1>11 DEF SF!vars

(* All other steps do nothing there, but that a message is published            *)
LEMMA QuietRefines ==
  ASSUME HoldsInv, HoldsInv', [Next]_vars, ~Moves
  PROVE  SF!Publish \/ UNCHANGED SF!vars
<1>1. Quiet
  BY StepQuiet DEF HoldsInv
<1>2. InMemory' = InMemory /\ OnDisk' = OnDisk /\ UNCHANGED <<ring, sent>>
  BY Zenon, <1>1, QuietStutters DEF HoldsInv
<1>3. CASE MqttPublish
  BY Zenon, <1>2, <1>3 DEF MqttPublish, SF!Publish
<1>4. CASE ~MqttPublish
  <2>1. UNCHANGED outq
    <3>1. CASE SensorRead
      BY Zenon, <3>1 DEF SensorRead, SrStore, SrWaitPoll, SrMeasureFails, SrFull, SrRetry,
         SrCount, SrFreeSpace, SrSetLow, SrSetHigh
    <3>2. CASE FileWriter /\ ~ReadIter("fw")
      BY Zenon, <3>2 DEF FileWriter, FwWaitOffline, FwCheckSpace, FwPausePolling,
         FwWantDrain, FwResume, FwOpen, FwNothingLeft, FwWrite, FwClose, FwDoneWriting
    <3>3. CASE QueueSend /\ ~ReadIter("qs")
      BY Zenon, <3>3 DEF Moves, QueueSend, QsWaitOnline, QsMarshall, QsNothingLeft
    <3>4. CASE ReadIter("fw") \/ ReadIter("qs")
      BY Zenon, <3>4 DEF ReadIter, IterInit, IterOpenFile, IterNoFile, IterClearHasFiles,
         IterWaitDone, IterFread, IterEndOfFile, IterAborts, IterReturnItem, IterUncount,
         IterReceive, IterFreeSpace, IterClearHigh, IterClearLow, IterDrained
    <3>5. CASE Mqtt \/ UNCHANGED vars
      BY Zenon, <1>4, <3>5 DEF Mqtt, MqttConnected, MqttNotNotConn, MqttConnectFails,
         MqttDisconnected, MqttNotConnected, WatchdogRestarts, MqttBits, vars
    <3>6. QED
      BY <3>1, <3>2, <3>3, <3>4, <3>5 DEF Next, Aborted
  <2>2. QED
    BY Zenon, <1>2, <2>1 DEF SF!vars
<1>5. QED
  BY <1>3, <1>4

LEMMA StepRefines == HoldsInv /\ HoldsInv' /\ [Next]_vars => [SF!Next]_(SF!vars)
<1> SUFFICES ASSUME HoldsInv, HoldsInv', [Next]_vars PROVE SF!Next \/ UNCHANGED SF!vars
  OBVIOUS
<1> USE DEF SF!Next
<1>1. CASE SrStore
  BY <1>1, StoreTakes
<1>2. CASE FwOpen
  BY <1>2, OpenErases
<1>3. CASE FwWrite
  BY <1>3, WriteSpills
<1>4. CASE FwClose
  BY <1>4, CloseErases
<1>5. CASE QsMarshall
  BY <1>5, MarshallLoads
<1>6. CASE QsQueue
  BY <1>6, QueueSends
<1>7. ASSUME NEW c \in Consumers, MovesIn(c) PROVE SF!Next \/ UNCHANGED SF!vars
  <2>1. CASE IterReceive(c)
    BY <2>1, ReceiveStutters
  <2>2. CASE IterOpenFile(c)
    BY <2>2, OpenFileStutters
  <2>3. CASE IterFread(c)
    BY <2>3, FreadStutters
  <2>4. CASE IterEndOfFile(c)
    BY <2>4, EndOfFileErases
  <2>5. QED
    BY <1>7, <2>1, <2>2, <2>3, <2>4 DEF MovesIn
<1>8. CASE ~Moves
  BY <1>8, QuietRefines
<1>9. QED
  BY <1>1, <1>2, <1>3, <1>4, <1>5, <1>6, <1>7, <1>8 DEF Moves

LEMMA InitRefines == Init => SF!Init
<1> SUFFICES ASSUME Init PROVE SF!Init
  OBVIOUS
<1>1. PICK old \in 0 .. MaxOld :
        /\ ring = [read |-> old + 1, write |-> old + 1]
        /\ files = [f \in IF old > 0 THEN {0} ELSE {} |-> 1 .. old]
  BY Zenon DEF Init
<1>2. ring.write - 1 = old /\ ring.write - 1 \in Nat
  <2>1. ring.write = old + 1
    BY Zenon, <1>1
  <2>2. QED
    BY SMT, <2>1, SensorMgrAssumption
<1>3. fw.data = {} /\ qs.todo = {} /\ qs.reading = None /\ qs.batch = {} /\ sent = {}
      /\ qs.file = NoFile /\ outq = 0
      /\ iter["fw"].pc = "idle" /\ iter["qs"].pc = "idle"
  BY Zenon DEF Init
<1>4. NoFile # 0
  BY SMT
<1>5. \A x : x \in OnDisk <=> x \in 1 .. old
  <2>1. CASE old > 0
    <3>1. DOMAIN files = {0} /\ files[0] = 1 .. old
      BY Zenon, <1>1, <2>1
    <3>2. QED
      BY Zenon, <1>3, <1>4, <3>1, DiskHasParts DEF DiskParts, Todo
  <2>2. CASE ~(old > 0)
    <3>1. DOMAIN files = {}
      BY Zenon, <1>1, <2>2
    <3>2. 1 .. old = {}
      BY SMT, <2>2
    <3>3. QED
      BY Zenon, <1>3, <3>1, <3>2, DiskHasParts DEF DiskParts, Todo
  <2>3. QED
    BY <2>1, <2>2
<1>6. OnDisk = 1 .. ring.write - 1
  BY Zenon, <1>2, <1>5
<1>7. InMemory = {}
  <2>1. Unread = {}
    <3>1. ring.read = old + 1 /\ ring.write = old + 1
      BY Zenon, <1>1
    <3>2. QED
      BY SMT, <3>1, SensorMgrAssumption DEF Unread
  <2>2. FreshOf("fw") = {} /\ FreshOf("qs") = {}
    BY Zenon, <1>3 DEF FreshOf
  <2>3. \A x : x \notin InMemory
    BY Zenon, <1>3, <2>1, <2>2, InitIInv, MemoryHasParts DEF MemoryParts
  <2>4. QED
    BY Zenon, <2>3
<1>8. QED
  BY Zenon, <1>2, <1>3, <1>6, <1>7 DEF SF!Init

(* The pipeline of three tasks, a ring buffer and files is a store-and-forward  *)
(* channel: each reading goes out at most once, in a batch of 1 to BatchMax,    *)
(* from memory; it leaves memory for the disk alone, and only there can it be   *)
(* lost.                                                                        *)
THEOREM Implements == Spec => StoresAndForwards
<1>1. Spec => []HoldsInv
  BY InitHoldsInv, NextHoldsInv, PTL DEF Spec
<1>2. QED
  BY <1>1, InitRefines, StepRefines, PTL DEF Spec, StoresAndForwards, SF!Spec

--------------------------------------------------------------------------------
(* What the channel promises of every reading: with the refinement, it holds of *)
(* the pipeline.                                                                *)

ChannelInv == ring.write - 1 \in Nat /\ SF!InOnePlace

(* At a start the readings taken so far are all on the disk. *)
LEMMA ChannelInit == SF!Init => ChannelInv
BY Zenon DEF SF!Init, ChannelInv, SF!InOnePlace

(* Every step of the channel keeps a reading where it is or moves it. *)
LEMMA ChannelNext == ChannelInv /\ [SF!Next]_(SF!vars) => ChannelInv'
<1> SUFFICES ASSUME ChannelInv, SF!Next \/ UNCHANGED SF!vars PROVE ChannelInv'
  BY Zenon
<1> USE DEF ChannelInv, SF!InOnePlace
<1>1. CASE SF!Erase
  BY Zenon, <1>1 DEF SF!Erase
<1>2. CASE SF!Take
  <2> DEFINE t == ring.write - 1
             u == ring'.write - 1
  <2>1. u = t + 1 /\ InMemory' = InMemory \cup {t + 1} /\ OnDisk' = OnDisk /\ sent' = sent
    BY Zenon, <1>2 DEF SF!Take
  <2>2. t \in Nat /\ InMemory \cup OnDisk \cup sent \subseteq 1 .. t
    BY Zenon
  <2> HIDE DEF t, u
  <2>3. 1 .. u = (1 .. t) \cup {t + 1} /\ t + 1 \notin 1 .. t /\ u \in Nat
    BY SMT, <2>1, <2>2
  <2>4. /\ u \in Nat /\ InMemory' \cup OnDisk' \cup sent' \subseteq 1 .. u
        /\ InMemory' \cap OnDisk' = {} /\ (InMemory' \cup OnDisk') \cap sent' = {}
    BY Zenon, <2>1, <2>2, <2>3
  <2>5. QED
    BY Zenon, <2>4 DEF u
<1>3. CASE \E r \in InMemory : SF!Spill(r)
  BY Zenon, <1>3 DEF SF!Spill
<1>4. CASE \E r \in OnDisk : SF!Load(r)
  BY Zenon, <1>4 DEF SF!Load
<1>5. CASE \E B \in SUBSET InMemory : SF!Send(B)
  BY Zenon, <1>5 DEF SF!Send
<1>6. CASE SF!Publish \/ UNCHANGED SF!vars
  BY Zenon, <1>6 DEF SF!Publish, SF!vars
<1>7. QED
  BY Zenon, <1>1, <1>2, <1>3, <1>4, <1>5, <1>6 DEF SF!Next

(* A reading is in memory, on the disk or sent, and in one of them only: none is *)
(* sent twice, and none that was sent is kept, whatever the tasks interleave.    *)
THEOREM OnePlace == Spec => []SF!InOnePlace
<1>1. ChannelInv => SF!InOnePlace
  BY Zenon DEF ChannelInv
<1>2. SF!Spec => []SF!InOnePlace
  BY <1>1, ChannelInit, ChannelNext, PTL DEF SF!Spec
<1>3. QED
  BY <1>2, Implements, PTL DEF StoresAndForwards
==============================================================================
