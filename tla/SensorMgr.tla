------------------------------ MODULE SensorMgr ------------------------------
(***************************************************************************)
(* The measurement pipeline of components/sensormgr/sensormgr.c: the three *)
(* FreeRTOS tasks that move readings from the sensors to the MQTT queue,   *)
(* the ring buffer and the FAT files between them, and the event group     *)
(* mqttmgr_events through which they and the MQTT client synchronise.      *)
(*                                                                         *)
(*   sensorread  --> ring buffer --> queuesend  --> MQTT message queue     *)
(*                        |              ^                                 *)
(*                        +-> filewriter-+  (files in /log_data)           *)
(*                                                                         *)
(* A step is one access to shared state (an event bit, the ring buffer, a  *)
(* file, a shared variable): the tasks run on two cores, or preempt each   *)
(* other, between any two of them.                                         *)
(*                                                                         *)
(* A reading is the number of its measurement, 1, 2, ... Every reading     *)
(* takes one slot of the ring buffer and one unit of the file system, and  *)
(* a data file is the set of the readings written to it. The tasks write a *)
(* file in the order of the numbers, so the smallest one is read first.    *)
(***************************************************************************)
EXTENDS Integers, FiniteSets

CONSTANTS
  RingSlots,     (* capacity of the ring buffer                              *)
  LowFree,       (* SENSORMGR_RINBUFFER_LOWWATER: fewer free slots: send     *)
  HighFree,      (* SENSORMGR_RINBUFFER_HIGHWATER: fewer free slots: drain   *)
  LowCount,      (* LOWWATER_ITEM_CNT: more items than this: send            *)
  BatchMax,      (* readings per MQTT message (10 in the source)             *)
  DiskUnits,     (* size of the log_data partition                           *)
  DiskReserve,   (* SENSORMGR_FS_HIGHWATER: less free space: stop writing    *)
  UintRange,     (* 2^32 bytes in these units: bytes_free is a uint32_t       *)
  QueueSlots,    (* capacity of the MQTT message queue, in messages          *)
  SensorCount,   (* sensor_cnt, the registered sensors                       *)
  MaxReading,    (* bound: measurements in a behaviour                       *)
  MaxOld,        (* bound: readings a previous boot left in a file           *)
  MaxTime        (* bound: seconds of the wall clock in a behaviour          *)

ASSUME SensorMgrAssumption ==
  /\ RingSlots \in Nat \ {0} /\ LowFree \in Nat /\ HighFree \in Nat
  /\ LowCount \in Nat /\ BatchMax \in Nat \ {0}
  /\ DiskUnits \in Nat /\ DiskReserve \in Nat /\ UintRange \in Nat
  /\ DiskUnits < UintRange /\ QueueSlots \in Nat \ {0}
  /\ SensorCount \in Nat \ {0} /\ MaxReading \in Nat /\ MaxTime \in Nat
  /\ MaxOld \in 0 .. MaxReading

VARIABLES
  events,     (* the bits set in the event group mqttmgr_events              *)
  net,        (* what the MQTT client is doing (the environment)             *)
  outq,       (* messages waiting in the MQTT message queue                  *)
  ring,       (* the ring buffer: its write and read positions               *)
  itemCount,  (* state.ring_buffer_item_count                                *)
  hasFiles,   (* state.has_files                                             *)
  files,      (* the directory: file name -> readings a reader would find    *)
  now,        (* the wall clock, in seconds, when a file was last opened     *)
  iter,       (* the sensor_iterator_t of filewriter and of queuesend        *)
  sr,         (* sensorread: program counter and locals                      *)
  fw,         (* filewriter: program counter, open file and its data         *)
  qs,         (* queuesend: program counter, file being read, JSON batch     *)
  sent,       (* history: readings handed to mqttmgr_queuemsg                *)
  lost        (* history: readings whose last copy a file operation erased   *)

mqttVars == <<net, outq>>
ringVars == <<ring, itemCount>>
fileVars == <<hasFiles, files, lost>>
vars == <<events, mqttVars, ringVars, fileVars, now, iter, sr, fw, qs, sent>>

STARTED      == "STARTED"       (* MQTTMGR_CLIENT_STARTED_BIT      *)
CONNECTED    == "CONNECTED"     (* MQTTMGR_CLIENT_CONNECTED_BIT    *)
NOTCONNECTED == "NOTCONNECTED"  (* MQTTMGR_CLIENT_NOTCONNECTED_BIT *)
LOWWATER     == "LOWWATER"      (* SENSORMGR_LOWWATER_BIT          *)
HIGHWATER    == "HIGHWATER"     (* SENSORMGR_HIGHWATER_BIT         *)
DONEWRITING  == "DONEWRITING"   (* SENSORMGR_DONEWRITING_BIT       *)
POLLSENSORS  == "POLLSENSORS"   (* SENSORMGR_POLLSENSORS_BIT       *)

EventBits == {STARTED, CONNECTED, NOTCONNECTED, LOWWATER, HIGHWATER,
              DONEWRITING, POLLSENSORS}

Readings  == 1 .. MaxReading
FileNames == 0 .. MaxTime       (* /log_data/DDHHMMSS.BIN: the second it was opened *)
Consumers == {"fw", "qs"}
None      == 0                  (* a NULL reading  *)
NoFile    == -1                 (* a NULL FILE *   *)

(* abort(), which queuesend can run into, stops every task of the device        *)
Running == qs.pc # "aborted"

SetBits(S)   == events' = events \cup S
ClearBits(S) == events' = events \ S
AwaitBits(S) == S \subseteq events /\ UNCHANGED events

--------------------------------------------------------------------------------
(* The ESP-IDF no-split ring buffer. Readings are received in the order they   *)
(* were stored, ring.read is the next one. A reading keeps its slot until it   *)
(* is returned, and a slot becomes free only together with all older ones: the *)
(* free pointer stops at the oldest reading a consumer still holds.            *)

Held == {iter[c].reading : c \in Consumers} \ {None}

Oldest == CHOOSE i \in Held \cup {ring.read} : \A j \in Held \cup {ring.read} : i <= j

FreeSlots == RingSlots - (ring.write - Oldest)

Unread == ring.read .. (ring.write - 1)

Contents(f) == IF f \in DOMAIN files THEN files[f] ELSE {}

(* What reached the MQTT message queue, or is about to *)
Delivered == sent \cup qs.batch

DiskUsed == Cardinality(UNION {files[f] : f \in DOMAIN files})
DiskFree == DiskUnits - DiskUsed

--------------------------------------------------------------------------------
(* sensormgr_read_iter: the iterator both consumers call. iter[c].pc is the     *)
(* place in the call: "idle" outside it, "ret" when it has returned ESP_OK.     *)

IterGoto(c, p)     == iter' = [iter EXCEPT ![c].pc = p]
IterState(c, s)    == iter' = [iter EXCEPT ![c].state = s]
IterTo(c, s, p)    == iter' = [iter EXCEPT ![c].state = s, ![c].pc = p]
IterHold(c, r, p)  == iter' = [iter EXCEPT ![c].reading = r, ![c].pc = p]
IterIn(c, p)       == Running /\ iter[c].pc = p
IterAt(c, s)       == IterIn(c, "switch") /\ iter[c].state = s

(* case INIT *)
IterInit(c) ==
  /\ IterAt(c, "INIT")
  /\ IterState(c, IF c = "qs" /\ hasFiles THEN "HFNO" ELSE "NFRB")
  /\ UNCHANGED <<events, mqttVars, ringVars, fileVars, now, sr, fw, qs, sent>>

(* case HFNO with a file in the directory. The size of the file is read here,   *)
(* at fopen: what a writer adds later is not seen through this FILE.            *)
IterOpenFile(c) ==
  /\ IterAt(c, "HFNO")
  /\ \E f \in DOMAIN files : qs' = [qs EXCEPT !.file = f, !.todo = files[f]]
  /\ IterState(c, "HFOO")
  /\ UNCHANGED <<events, mqttVars, ringVars, fileVars, now, sr, fw, sent>>

(* case HFNO with an empty directory: ESP_ERR_NOT_FOUND, found out first ...    *)
IterNoFile(c) ==
  /\ IterAt(c, "HFNO")
  /\ DOMAIN files = {}
  /\ IterGoto(c, "nofile")
  /\ UNCHANGED <<events, mqttVars, ringVars, fileVars, now, sr, fw, qs, sent>>

(* ... and recorded in has_files afterwards.                                    *)
IterClearHasFiles(c) ==
  /\ IterIn(c, "nofile")
  /\ hasFiles' = FALSE
  /\ IterTo(c, "NFRB", "switch")
  /\ UNCHANGED <<events, mqttVars, ringVars, files, lost, now, sr, fw, qs, sent>>

(* case HFOO: wait for the writer, ...                                          *)
IterWaitDone(c) ==
  /\ IterAt(c, "HFOO")
  /\ AwaitBits({DONEWRITING})
  /\ IterGoto(c, "fread")
  /\ UNCHANGED <<mqttVars, ringVars, fileVars, now, sr, fw, qs, sent>>

(* ... then read one reading and return it, ...                                 *)
IterFread(c) ==
  /\ IterIn(c, "fread")
  /\ \E r \in qs.todo :
       /\ \A other \in qs.todo : r <= other
       /\ qs' = [qs EXCEPT !.todo = @ \ {r}, !.reading = r]
  /\ IterGoto(c, "ret")
  /\ UNCHANGED <<events, mqttVars, ringVars, fileVars, now, sr, fw, sent>>

(* A mutation: the file is closed at its end, and not removed *)
IterEndOfFileKeepsFile(c) ==
  /\ IterIn(c, "fread")
  /\ qs.todo = {}
  /\ qs' = [qs EXCEPT !.file = NoFile]
  /\ IterTo(c, "HFNO", "switch")
  /\ UNCHANGED <<events, mqttVars, ringVars, fileVars, now, sr, fw, sent>>

(* ... or, when no whole reading can be read, take that for the end of the      *)
(* file, remove it and look for the next one. A file that was truncated since   *)
(* it was opened can end early: its clusters belong to another chain by now, ...*)
IterEndOfFile(c) ==
  /\ IterIn(c, "fread")
  /\ qs.todo \subseteq Contents(qs.file) => qs.todo = {}
  /\ files' = [f \in DOMAIN files \ {qs.file} |-> files[f]]
  /\ lost' = lost \cup ((Contents(qs.file) \cup qs.todo) \ Delivered)
  /\ qs' = [qs EXCEPT !.file = NoFile, !.todo = {}]
  /\ IterTo(c, "HFNO", "switch")
  /\ UNCHANGED <<events, mqttVars, ringVars, hasFiles, now, sr, fw, sent>>

(* ... and what is in them need not be a reading: one that claims more data     *)
(* than the buffer or the file holds makes the firmware abort.                  *)
IterAborts(c) ==
  /\ IterIn(c, "fread")
  /\ ~ (qs.todo \subseteq Contents(qs.file))
  /\ qs' = [qs EXCEPT !.pc = "aborted"]
  /\ UNCHANGED <<events, mqttVars, ringVars, fileVars, now, iter, sr, fw, sent>>

(* A mutation: the item is returned, and ring_buffer_item_count-- is missing *)
IterReturnItemUncounted(c) ==
  /\ IterAt(c, "NFRB")
  /\ iter[c].reading # None
  /\ IterHold(c, None, "receive")
  /\ UNCHANGED <<events, mqttVars, ringVars, fileVars, now, sr, fw, qs, sent>>

(* case NFRB: return the reading of the last call to the ring buffer, ...       *)
IterReturnItem(c) ==
  /\ IterAt(c, "NFRB")
  /\ iter[c].reading # None
  /\ IterHold(c, None, "count")
  /\ UNCHANGED <<events, mqttVars, ringVars, fileVars, now, sr, fw, qs, sent>>

IterUncount(c) ==
  /\ IterIn(c, "count")
  /\ itemCount' = itemCount - 1
  /\ IterGoto(c, "receive")
  /\ UNCHANGED <<events, mqttVars, ring, fileVars, now, sr, fw, qs, sent>>

(* ... receive the next one if there is one, without waiting, ...               *)
IterReceive(c) ==
  /\ IterIn(c, "receive") \/ (IterAt(c, "NFRB") /\ iter[c].reading = None)
  /\ IF Unread = {}
     THEN /\ UNCHANGED ring
          /\ IterGoto(c, "space")
     ELSE /\ ring' = [ring EXCEPT !.read = @ + 1]
          /\ IterHold(c, ring.read, "space")
  /\ UNCHANGED <<events, mqttVars, itemCount, fileVars, now, sr, fw, qs, sent>>

(* ... look at the free space, ...                                              *)
IterFreeSpace(c) ==
  /\ IterIn(c, "space")
  /\ IterGoto(c, IF FreeSlots >= HighFree THEN "high" ELSE "low")
  /\ UNCHANGED <<events, mqttVars, ringVars, fileVars, now, sr, fw, qs, sent>>

(* ... clear HIGHWATER if there was enough, ...                                 *)
IterClearHigh(c) ==
  /\ IterIn(c, "high")
  /\ ClearBits({HIGHWATER})
  /\ IterGoto(c, "low")
  /\ UNCHANGED <<mqttVars, ringVars, fileVars, now, sr, fw, qs, sent>>

(* ... clear LOWWATER if the item count is 0, ...                               *)
IterClearLow(c) ==
  /\ IterIn(c, "low")
  /\ IF itemCount = 0 THEN ClearBits({LOWWATER}) ELSE UNCHANGED events
  /\ IterGoto(c, IF iter[c].reading = None THEN "drained" ELSE "ret")
  /\ UNCHANGED <<mqttVars, ringVars, fileVars, now, sr, fw, qs, sent>>

(* A mutation: polling is not enabled again after a drain *)
IterDrainedQuietly(c) ==
  /\ IterIn(c, "drained")
  /\ IterTo(c, "INIT", "ret")
  /\ UNCHANGED <<events, mqttVars, ringVars, fileVars, now, sr, fw, qs, sent>>

(* ... and when nothing was received, poll the sensors and start over.          *)
IterDrained(c) ==
  /\ IterIn(c, "drained")
  /\ SetBits({POLLSENSORS})
  /\ IterTo(c, "INIT", "ret")
  /\ UNCHANGED <<mqttVars, ringVars, fileVars, now, sr, fw, qs, sent>>

ReadIter(c) ==
  \/ IterInit(c)
  \/ IterOpenFile(c)
  \/ IterNoFile(c)
  \/ IterClearHasFiles(c)
  \/ IterWaitDone(c)
  \/ IterFread(c)
  \/ IterEndOfFile(c)
  \/ IterAborts(c)
  \/ IterReturnItem(c)
  \/ IterUncount(c)
  \/ IterReceive(c)
  \/ IterFreeSpace(c)
  \/ IterClearHigh(c)
  \/ IterClearLow(c)
  \/ IterDrained(c)

--------------------------------------------------------------------------------
(* sensormgr_task_sensorread: poll every sensor and store what it measured.     *)

SrAt(p)   == Running /\ sr.pc = p

SrGoto(p) == sr' = [sr EXCEPT !.pc = p]

SrNextSensor == IF sr.idx < SensorCount
                THEN [sr EXCEPT !.idx = @ + 1, !.pc = "measure"]
                ELSE [sr EXCEPT !.pc = "space"]

SrWaitPoll ==
  /\ SrAt("wait")
  /\ AwaitBits({POLLSENSORS})
  /\ sr' = [sr EXCEPT !.pc = "measure", !.idx = 1]
  /\ UNCHANGED <<mqttVars, ringVars, fileVars, now, iter, fw, qs, sent>>

SrMeasureFails ==
  /\ SrAt("measure")
  /\ sr' = SrNextSensor
  /\ UNCHANGED <<events, mqttVars, ringVars, fileVars, now, iter, fw, qs, sent>>

(* measure succeeds, and xRingbufferSendAcquire ... xRingbufferSendComplete does *)
SrStore ==
  /\ SrAt("measure") \/ SrAt("retry")
  /\ ring.write <= MaxReading
  /\ FreeSlots >= 1
  /\ ring' = [ring EXCEPT !.write = @ + 1]
  /\ SrGoto("count")
  /\ UNCHANGED <<events, mqttVars, itemCount, fileVars, now, iter, fw, qs, sent>>

(* ... or does not: the ring buffer is full *)
SrFull ==
  /\ SrAt("measure") \/ SrAt("retry")
  /\ ring.write <= MaxReading
  /\ FreeSlots < 1
  /\ SrGoto("full")
  /\ UNCHANGED <<events, mqttVars, ringVars, fileVars, now, iter, fw, qs, sent>>

SrRetry ==
  /\ SrAt("full")
  /\ AwaitBits({CONNECTED, POLLSENSORS})
  /\ SrGoto("retry")
  /\ UNCHANGED <<mqttVars, ringVars, fileVars, now, iter, fw, qs, sent>>

SrCount ==
  /\ SrAt("count")
  /\ itemCount' = itemCount + 1
  /\ sr' = SrNextSensor
  /\ UNCHANGED <<events, mqttVars, ring, fileVars, now, iter, fw, qs, sent>>

(* free_buf_size is read once, and used for both marks *)
SrFreeSpace ==
  /\ SrAt("space")
  /\ sr' = [sr EXCEPT !.pc = "low", !.free = FreeSlots]
  /\ UNCHANGED <<events, mqttVars, ringVars, fileVars, now, iter, fw, qs, sent>>

SrSetLow ==
  /\ SrAt("low")
  /\ IF sr.free < LowFree \/ (LowCount # 0 /\ itemCount > LowCount)
     THEN SetBits({LOWWATER}) ELSE UNCHANGED events
  /\ SrGoto("high")
  /\ UNCHANGED <<mqttVars, ringVars, fileVars, now, iter, fw, qs, sent>>

SrSetHigh ==
  /\ SrAt("high")
  /\ IF sr.free < HighFree THEN SetBits({HIGHWATER}) ELSE UNCHANGED events
  /\ sr' = [pc |-> "wait", idx |-> 1, free |-> RingSlots]
  /\ UNCHANGED <<mqttVars, ringVars, fileVars, now, iter, fw, qs, sent>>

SensorRead ==
  \/ SrWaitPoll \/ SrMeasureFails \/ SrStore \/ SrFull
  \/ SrRetry \/ SrCount \/ SrFreeSpace \/ SrSetLow \/ SrSetHigh

--------------------------------------------------------------------------------
(* sensormgr_task_file_writer: while offline and at high water, drain the ring  *)
(* buffer to a file named after the current second.                             *)

FwAt(p)   == Running /\ fw.pc = p

FwGoto(p) == fw' = [fw EXCEPT !.pc = p]

FwWaitOffline ==
  /\ FwAt("wait")
  /\ AwaitBits({NOTCONNECTED, HIGHWATER})
  /\ FwGoto("check")
  /\ UNCHANGED <<mqttVars, ringVars, fileVars, now, iter, sr, qs, sent>>

(* A mutation: the file system is never found too full *)
FwCheckSpaceNever ==
  /\ FwAt("check")
  /\ FwGoto("open")
  /\ ClearBits({DONEWRITING})
  /\ UNCHANGED <<mqttVars, ringVars, fileVars, now, iter, sr, qs, sent>>

(* Enough free space: clear DONEWRITING and go on, else pause *)
FwCheckSpace ==
  /\ FwAt("check")
  /\ IF DiskFree < DiskReserve
     THEN FwGoto("pause") /\ UNCHANGED events
     ELSE FwGoto("open") /\ ClearBits({DONEWRITING})
  /\ UNCHANGED <<mqttVars, ringVars, fileVars, now, iter, sr, qs, sent>>

(* The file system is full: stop polling, ask for a drain, wait for the drain.  *)
FwPausePolling ==
  /\ FwAt("pause")
  /\ ClearBits({POLLSENSORS})
  /\ FwGoto("drain")
  /\ UNCHANGED <<mqttVars, ringVars, fileVars, now, iter, sr, qs, sent>>

(* A mutation: polling is stopped, and nobody is asked for a drain *)
FwWantDrainSilently ==
  /\ FwAt("drain")
  /\ FwGoto("paused")
  /\ UNCHANGED <<events, mqttVars, ringVars, fileVars, now, iter, sr, qs, sent>>

FwWantDrain ==
  /\ FwAt("drain")
  /\ SetBits({LOWWATER})
  /\ FwGoto("paused")
  /\ UNCHANGED <<mqttVars, ringVars, fileVars, now, iter, sr, qs, sent>>

FwResume ==
  /\ FwAt("paused")
  /\ AwaitBits({POLLSENSORS})
  /\ FwGoto("wait")
  /\ UNCHANGED <<mqttVars, ringVars, fileVars, now, iter, sr, qs, sent>>

(* fopen(f_name, "wb") creates the file, or truncates the one of that name. Its *)
(* directory entry says size 0 until fclose. Then bytes_free, and the first call *)
(* of the iterator. The clock is read here alone: any time may have passed.     *)
FwOpen ==
  /\ FwAt("open")
  /\ now' \in now .. MaxTime
  /\ files' = [f \in DOMAIN files \cup {now'} |-> IF f = now' THEN {} ELSE files[f]]
  /\ lost' = lost \cup (Contents(now') \ (Delivered \cup qs.todo \cup {qs.reading}))
  /\ fw' = [fw EXCEPT !.pc = "read", !.file = now', !.room = (DiskFree' - DiskReserve) % UintRange]
  /\ IterGoto("fw", "switch")
  /\ UNCHANGED <<events, mqttVars, ringVars, hasFiles, sr, qs, sent>>

(* The ring buffer is drained *)
FwNothingLeft ==
  /\ FwAt("read")
  /\ iter["fw"].pc = "ret"
  /\ iter["fw"].reading = None
  /\ IterGoto("fw", "idle")
  /\ FwGoto("close")
  /\ UNCHANGED <<events, mqttVars, ringVars, fileVars, now, sr, qs, sent>>

(* A mutation: the limit is tested before the reading is written *)
FwWriteLimitFirst ==
  /\ FwAt("read")
  /\ iter["fw"].pc = "ret"
  /\ iter["fw"].reading # None
  /\ LET full == Cardinality(fw.data) + 1 > fw.room
     IN /\ fw' = [fw EXCEPT !.data = IF full THEN @ ELSE @ \cup {iter["fw"].reading},
                            !.pc = IF full THEN "close" ELSE "read"]
        /\ IterGoto("fw", IF full THEN "idle" ELSE "switch")
  /\ UNCHANGED <<events, mqttVars, ringVars, fileVars, now, sr, qs, sent>>

(* fwrite; past bytes_free, stop: the iterator keeps holding the reading.       *)
FwWrite ==
  /\ FwAt("read")
  /\ iter["fw"].pc = "ret"
  /\ iter["fw"].reading # None
  /\ LET data == fw.data \cup {iter["fw"].reading}
         full == Cardinality(data) > fw.room
     IN /\ fw' = [fw EXCEPT !.data = data, !.pc = IF full THEN "close" ELSE "read"]
        /\ IterGoto("fw", IF full THEN "idle" ELSE "switch")
  /\ UNCHANGED <<events, mqttVars, ringVars, fileVars, now, sr, qs, sent>>

(* fclose writes the directory entry, if the file still has one; has_files      *)
FwClose ==
  /\ FwAt("close")
  /\ IF fw.file \in DOMAIN files
     THEN files' = [files EXCEPT ![fw.file] = fw.data] /\ UNCHANGED lost
     ELSE lost' = lost \cup fw.data /\ UNCHANGED files
  /\ hasFiles' = TRUE
  /\ fw' = [pc |-> "done", file |-> NoFile, data |-> {}, room |-> 0]
  /\ UNCHANGED <<events, mqttVars, ringVars, now, iter, sr, qs, sent>>

FwDoneWriting ==
  /\ FwAt("done")
  /\ SetBits({DONEWRITING})
  /\ FwGoto("wait")
  /\ UNCHANGED <<mqttVars, ringVars, fileVars, now, iter, sr, qs, sent>>

FileWriter ==
  \/ FwWaitOffline \/ FwCheckSpace \/ FwPausePolling \/ FwWantDrain \/ FwResume
  \/ FwOpen \/ FwNothingLeft \/ FwWrite \/ FwClose
  \/ FwDoneWriting \/ ReadIter("fw")

--------------------------------------------------------------------------------
(* sensormgr_task_queuesend: at low water and online, send batches.             *)

QsGoto(p) == qs' = [qs EXCEPT !.pc = p]

QsWaitOnline ==
  /\ qs.pc = "wait"
  /\ AwaitBits({STARTED, CONNECTED, LOWWATER})
  /\ QsGoto("read")
  /\ IterGoto("qs", "switch")
  /\ UNCHANGED <<mqttVars, ringVars, fileVars, now, sr, fw, sent>>

(* What the iterator returned: from a file, or from the ring buffer *)
QsReading == IF iter["qs"].state = "HFOO" THEN qs.reading ELSE iter["qs"].reading

QsMarshall ==
  /\ qs.pc = "read"
  /\ iter["qs"].pc = "ret"
  /\ QsReading # None
  /\ LET batch == qs.batch \cup {QsReading}
         full  == qs.idx + 1 = BatchMax
     IN /\ qs' = [qs EXCEPT !.batch = batch, !.idx = @ + 1, !.reading = None,
                            !.pc = IF full THEN "queue" ELSE "read"]
        /\ IterGoto("qs", IF full THEN "idle" ELSE "switch")
  /\ UNCHANGED <<events, mqttVars, ringVars, fileVars, now, sr, fw, sent>>

QsNothingLeft ==
  /\ qs.pc = "read"
  /\ iter["qs"].pc = "ret"
  /\ QsReading = None
  /\ IterGoto("qs", "idle")
  /\ QsGoto(IF qs.idx # 0 THEN "queue" ELSE "wait")
  /\ UNCHANGED <<events, mqttVars, ringVars, fileVars, now, sr, fw, sent>>

(* mqttmgr_queuemsg with portMAX_DELAY: wait for room in the message queue      *)
QsQueue ==
  /\ qs.pc = "queue"
  /\ outq < QueueSlots
  /\ outq' = outq + 1
  /\ sent' = sent \cup qs.batch
  /\ qs' = [qs EXCEPT !.pc = "wait", !.batch = {}, !.idx = 0]
  /\ UNCHANGED <<events, net, ringVars, fileVars, now, iter, sr, fw>>

QueueSend ==
  QsWaitOnline \/ QsMarshall \/ QsNothingLeft \/ QsQueue \/ ReadIter("qs")

--------------------------------------------------------------------------------
(* The MQTT client (mqttmgr.c), as far as this component sees it: the bits its  *)
(* event handler sets and clears, one call at a time, and the task that takes   *)
(* messages off the queue while connected. The watchdog stops the client and    *)
(* starts it again: STARTED is off only while CONNECTED is off too, so here the *)
(* restart is one step that leaves neither CONNECTED nor NOTCONNECTED set.      *)

MqttBits(before, after, set, clear) ==
  /\ Running /\ net = before
  /\ net' = after
  /\ events' = (events \ clear) \cup set
  /\ UNCHANGED <<outq, ringVars, fileVars, now, iter, sr, fw, qs, sent>>

MqttConnected    == MqttBits("down", "connecting", {CONNECTED}, {})
MqttNotNotConn   == MqttBits("connecting", "up", {}, {NOTCONNECTED})
MqttConnectFails == MqttBits("down", "down", {NOTCONNECTED}, {})
MqttDisconnected == MqttBits("up", "dropping", {}, {CONNECTED})
MqttNotConnected == MqttBits("dropping", "down", {NOTCONNECTED}, {})
WatchdogRestarts == MqttBits("up", "down", {}, {CONNECTED})

MqttPublish ==
  /\ Running /\ {STARTED, CONNECTED} \subseteq events
  /\ outq > 0
  /\ outq' = outq - 1
  /\ UNCHANGED <<events, net, ringVars, fileVars, now, iter, sr, fw, qs, sent>>

Mqtt == MqttConnected \/ MqttNotNotConn \/ MqttConnectFails \/ MqttDisconnected
          \/ MqttNotConnected \/ WatchdogRestarts \/ MqttPublish

--------------------------------------------------------------------------------
(* After sensormgr_init and mqttmgr_start. A previous boot may have left a file *)
(* with readings, and the clock may start again at the second of its name.      *)
Init ==
  /\ events = {STARTED, POLLSENSORS, DONEWRITING}
  /\ net = "down"
  /\ outq = 0
  /\ \E old \in 0 .. MaxOld :
       /\ ring = [read |-> old + 1, write |-> old + 1]
       /\ hasFiles = (old > 0)
       /\ files = [f \in IF old > 0 THEN {0} ELSE {} |-> 1 .. old]
  /\ itemCount = 0
  /\ now = 0
  /\ iter = [c \in Consumers |-> [pc |-> "idle", state |-> "INIT", reading |-> None]]
  /\ sr = [pc |-> "wait", idx |-> 1, free |-> RingSlots]
  /\ fw = [pc |-> "wait", file |-> NoFile, data |-> {}, room |-> 0]
  /\ qs = [pc |-> "wait", file |-> NoFile, todo |-> {}, reading |-> None,
           batch |-> {}, idx |-> 0]
  /\ sent = {}
  /\ lost = {}

(* After abort() nothing happens here: the next boot is another behaviour       *)
Aborted == ~ Running /\ UNCHANGED vars

Next == SensorRead \/ FileWriter \/ QueueSend \/ Mqtt \/ Aborted

Spec == Init /\ [][Next]_vars

--------------------------------------------------------------------------------
IterPCs == {"idle", "switch", "nofile", "fread", "count", "receive", "space",
            "high", "low", "drained", "ret"}

IterStates == {"INIT", "HFNO", "HFOO", "NFRB"}

IterType == [pc : IterPCs, state : IterStates, reading : Readings \cup {None}]

SrType == [pc : {"wait", "measure", "full", "retry", "count", "space", "low", "high"},
           idx : 1 .. SensorCount, free : Int]

FwType == [pc : {"wait", "check", "pause", "drain", "paused", "open", "read",
                 "close", "done"},
           file : FileNames \cup {NoFile}, data : SUBSET Readings,
           room : 0 .. UintRange - 1]

QsType == [pc : {"wait", "read", "queue", "aborted"}, file : FileNames \cup {NoFile},
           todo : SUBSET Readings, reading : Readings \cup {None},
           batch : SUBSET Readings, idx : 0 .. BatchMax]

TypeOK ==
  /\ events \subseteq EventBits
  /\ net \in {"down", "connecting", "up", "dropping"}
  /\ outq \in 0 .. QueueSlots
  /\ ring \in [read : 1 .. MaxReading + 1, write : 1 .. MaxReading + 1]
  /\ itemCount \in Int
  /\ hasFiles \in BOOLEAN
  /\ DOMAIN files \subseteq FileNames
  /\ \A f \in DOMAIN files : files[f] \subseteq Readings
  /\ now \in 0 .. MaxTime
  /\ iter \in [Consumers -> IterType]
  /\ sr \in SrType
  /\ fw \in FwType
  /\ qs \in QsType
  /\ sent \subseteq Readings
  /\ lost \subseteq Readings

--------------------------------------------------------------------------------
(* Properties. *)

Stored == UNION {files[f] : f \in DOMAIN files}

InFlight == fw.data \cup qs.todo \cup ({qs.reading} \ {None})

One(p) == IF p THEN 1 ELSE 0

(* ring_buffer_item_count, which decides when the drain is over (LOWWATER is    *)
(* cleared at 0), is the number of readings that occupy the ring buffer, but    *)
(* for the increments and decrements still to be made after a call to the ring  *)
(* buffer: two consumers and a producer update it without a lock.               *)
CountAccurate ==
  itemCount = (ring.write - ring.read)
                + One(iter["fw"].reading # None) + One(iter["qs"].reading # None)
                + One(iter["fw"].pc = "count") + One(iter["qs"].pc = "count")
                - One(sr.pc = "count")

(* A reading that was stored is somewhere: in the ring buffer, in the hands of  *)
(* a task, in a file or delivered. The only other place is lost, where only a   *)
(* truncation or the removal of a file puts it, and then it is nowhere else.    *)
Conservation ==
  /\ 1 .. (ring.write - 1)
       \subseteq Unread \cup Held \cup InFlight \cup Stored \cup Delivered \cup lost
  /\ lost \cap (Unread \cup InFlight \cup Stored \cup Delivered) = {}

(* queuesend takes no reading a second time, whether it comes from a file or    *)
(* from the ring buffer that the file writer also drains.                       *)
NoSecondDelivery ==
  /\ qs.pc = "read" /\ iter["qs"].pc = "ret" => QsReading \notin Delivered
  /\ qs.batch \cap sent = {}

(* The file writer goes over bytes_free by one reading at most ("Allowed to go  *)
(* slightly over"), over any number of drains and while the reader removes the  *)
(* files: between the check of the free space and the fopen nothing makes it    *)
(* smaller, so that bytes_free does not wrap around and the limit is one.       *)
ReserveKept == DiskUsed + Cardinality(fw.data) <= DiskUnits - DiskReserve + 1

(* The file writer has stopped the polling and sleeps until the drain is over   *)
Paused == fw.pc = "paused" /\ POLLSENSORS \notin events

(* While a file writer that filled the disk is paused, the drain is asked for   *)
(* or under way: LOWWATER is set or queuesend is awake. The last drain of the   *)
(* ring buffer could clear LOWWATER: it does not, as who filled the disk still  *)
(* holds an item, and at most one item is not counted yet.                      *)
PausedAsksForDrain ==
  Paused /\ iter["fw"].reading # None => LOWWATER \in events \/ qs.pc # "wait"

(* "Clear polling, but make sure the system wants to drain the queue"           *)
(* (sensormgr.c:337), whoever filled the disk: LOWWATER is set, or a task that  *)
(* could set it or is draining is awake. Otherwise all three tasks sleep for    *)
(* ever, each waiting for a bit that only another of them sets.                 *)
DrainIsWanted ==
  Paused => LOWWATER \in events \/ qs.pc # "wait" \/ sr.pc \notin {"wait", "full"}

(* The pipeline as a store-and-forward channel. What a consumer has received    *)
(* from the ring buffer stays in memory until it is written to a file or sent;  *)
(* what the sender reads from a file is in memory once it is in its batch.      *)
Pending ==
  {iter[c].reading : c \in {c \in Consumers : iter[c].pc \in {"space", "high", "low", "ret"}}}
    \ {None}

InMemory == Unread \cup Pending \cup qs.batch

(* Of the file being read, what was not read yet: the rest has left the disk,   *)
(* and what is written to it behind the reader's back counts as erased, for the *)
(* reader removes it unread.                                                    *)
OnDisk ==
  InFlight \cup UNION {files[f] : f \in DOMAIN files \ {qs.file}}

SF == INSTANCE StoreForward
        WITH taken <- ring.write - 1, memory <- InMemory, disk <- OnDisk, queued <- outq

(* The three tasks, the ring buffer, the files and the iterator implement the   *)
(* channel StoreForward promises: a reading goes out once, in a batch of at     *)
(* most BatchMax, and before that leaves memory only for the disk, which alone  *)
(* can lose it.                                                                 *)
StoresAndForwards == SF!Spec

(* Opening the output file erases no reading that was not delivered: the name   *)
(* is taken to be unique (sensormgr.c:352, DDHHMMSS, "full month wrap-around    *)
(* is a _lot_ of data"). It is not when a second drain starts in one second.    *)
TruncatesNothing == [][FwOpen => Contents(now') \subseteq Delivered]_vars

(* A file is removed only when every reading in it was delivered (sensormgr.c:  *)
(* 189, "unlinking published file").                                            *)
RemovesOnlyPublished ==
  [][IterEndOfFile("qs") => Contents(qs.file) \subseteq Delivered]_vars

(* With no write under way, has_files says whether there are files to drain     *)
(* (sensormgr.c:43).                                                            *)
HasFilesAccurate == DONEWRITING \in events /\ DOMAIN files # {} => hasFiles

(* With the ring buffer full, the reader blocked and the client offline, the    *)
(* file writer is awake or about to be (sensormgr.c:303, "At highwater and      *)
(* disconnected, buffer to file").                                              *)
FullOfflineIsBuffered ==
  sr.pc = "full" /\ FreeSlots = 0 /\ NOTCONNECTED \in events /\ fw.pc = "wait"
    => HIGHWATER \in events \/ qs.pc # "wait"

--------------------------------------------------------------------------------
(* Fairness. Every task runs when it can (the idle-priority ones whenever the   *)
(* others block). xEventGroupSetBits readies every task whose bits are then all *)
(* set, so a wait whose bits are set again and again does end: strong fairness  *)
(* of each task, which is at one wait at a time. Nothing is assumed of the      *)
(* network, nor that a measurement succeeds.                                    *)
Fairness ==
  SF_vars(SensorRead) /\ SF_vars(FileWriter) /\ SF_vars(QueueSend) /\ WF_vars(MqttPublish)

FairSpec == Spec /\ Fairness

StaysUp == <>[](net = "up")

(* Once the connection is back for good, a paused polling is resumed, if only a *)
(* file writer that filled the disk ever pauses it: the drain it waits for      *)
(* happens, and is noticed. A device that aborts starts over.                   *)
PollingResumes ==
  StaysUp /\ []Running /\ [](fw.pc = "paused" => iter["fw"].reading # None)
    => []<>(POLLSENSORS \in events)

(* Once the connection is back for good, a reader blocked on the full ring      *)
(* buffer gets its slot (sensormgr.c:475-480, "We have to wait for that to come *)
(* back, and for the buffers to drain").                                        *)
BlockedReaderResumes == StaysUp => []<>(sr.pc \notin {"full", "retry"})
==============================================================================
