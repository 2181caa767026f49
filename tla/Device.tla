-------------------------------- MODULE Device --------------------------------
(***************************************************************************)
(* The device as a user meets it: commands over MQTT (mqttmgr.c, the       *)
(* dispatch, with the handlers of otamgr and blinky in full), the button   *)
(* of the ESP32-S2 (touchbtn), which reconnects on a click and puts the    *)
(* device to deep sleep on a double click, and the two ways it goes down:  *)
(* deep sleep after mqttmgr_stop and sensormgr_stop, and esp_restart after *)
(* an update. The light and the updates are the modules Blinky and OtaMgr. *)
(*                                                                         *)
(* The pipeline of sensormgr.c, the subject of SensorMgr, is here only     *)
(* what sensormgr_stop stops and waits for: a count of readings in the     *)
(* ring buffer, a batch in the hands of the sender, and the file writer    *)
(* with the limit its drain has.                                           *)
(***************************************************************************)
EXTENDS Blinky, OtaMgr, SequencesExt

CONSTANTS
  Commands,        (* the commands that arrive, by the component they are for  *)
  LedAnimations,   (* the animations a blinky command asks for                 *)
  RingSlots,       (* readings that fit in the ring buffer                     *)
  DiskRoom,        (* bound: readings the disk takes before the reserve        *)
  Budgets          (* bound: a behaviour has the commands, the clicks and the  *)
                   (* changes of the connection that one of these allows, and  *)
                   (* no readings or any number of them                        *)

ASSUME DeviceAssumption ==
  /\ RingSlots \in Nat \ {0} /\ DiskRoom \in Nat
  /\ LedAnimations \subseteq Animations
  /\ Budgets \subseteq [{"commands", "clicks", "readings", "changes"} -> Nat]

VARIABLES
  power,      (* "on", "asleep" or "restarted"                                  *)
  events,     (* the bits set in mqttmgr_events                                 *)
  client,     (* the ESP-MQTT client: "stopped", "down", "up"                   *)
  watchdog,   (* mqttmgr_client_watchdog: the call it makes next                *)
  cmd,        (* the client's task in mqttmgr_cmd_dispatch: the command, the    *)
              (* handler that claims it, and what that returned                 *)
  suspended,  (* the tasks vTaskSuspend was called on                           *)
  btn,        (* touchbtn_btn_task: its place                                   *)
  clicks,     (* the queue of clicks                                            *)
  ring,       (* readings in the ring buffer                                    *)
  batch,      (* the sender holds a batch                                       *)
  writer,     (* the file writer: its place                                     *)
  limit,      (* bytes_free - bytes_written of its drain, in readings           *)
  behind,     (* history: what the last drain may have left in the ring buffer  *)
  left        (* what of the budget is left                                    *)

clientVars == <<events, client>>
drainVars  == <<writer, limit, behind>>
pipeVars   == <<ring, batch, drainVars>>
btnVars    == <<btn, clicks>>
vars == <<blinkyVars, otaVars, power, clientVars, watchdog, cmd, suspended, btnVars, pipeVars, left>>

STARTED      == "STARTED"
CONNECTED    == "CONNECTED"
NOTCONNECTED == "NOTCONNECTED"
HIGHWATER    == "HIGHWATER"
DONEWRITING  == "DONEWRITING"
POLLSENSORS  == "POLLSENSORS"

EventBits == {STARTED, CONNECTED, NOTCONNECTED, HIGHWATER, DONEWRITING, POLLSENSORS}

--------------------------------------------------------------------------------
(* The connection, which MqttConn has in detail. The client's task runs one     *)
(* thing at a time: the event handler that sets these bits, or the dispatch of  *)
(* a command.                                                                   *)

Spend(kind) == left[kind] > 0 /\ left' = [left EXCEPT ![kind] = @ - 1]

ClientMoves(before, after, set, clear) ==
  /\ client = before /\ cmd.pc = "idle"
  /\ Spend("changes")
  /\ client' = after
  /\ events' = (events \ clear) \cup set
  /\ UNCHANGED <<blinkyVars, otaVars, power, watchdog, cmd, suspended, btnVars, pipeVars>>

Connects      == ClientMoves("down", "up", {CONNECTED}, {NOTCONNECTED})
CannotConnect == ClientMoves("down", "down", {NOTCONNECTED}, {CONNECTED})
Disconnects   == ClientMoves("up", "down", {NOTCONNECTED}, {CONNECTED})

(* The watchdog, when it has counted disconnections enough, which may be old:   *)
(* the client it stops can be connected again. esp_mqtt_client_stop waits for   *)
(* the event that the client's task handles.                                    *)
WatchdogCall(at, next) ==
  /\ "watchdog" \notin suspended
  /\ watchdog = at /\ watchdog' = next
  /\ UNCHANGED <<blinkyVars, otaVars, power, cmd, suspended, btnVars, pipeVars>>

WatchdogCounts ==
  /\ WatchdogCall("wait", "stop") /\ STARTED \in events
  /\ Spend("changes") /\ UNCHANGED clientVars

WatchdogStops ==
  /\ WatchdogCall("stop", "clear") /\ cmd.pc = "idle"
  /\ client' = "stopped" /\ UNCHANGED <<events, left>>

WatchdogClears ==
  /\ WatchdogCall("clear", "sleep")
  /\ events' = events \ {STARTED, CONNECTED} /\ UNCHANGED <<client, left>>

WatchdogStarts ==
  /\ WatchdogCall("sleep", "set")
  /\ client' = "down" /\ UNCHANGED <<events, left>>

WatchdogSets ==
  /\ WatchdogCall("set", "wait")
  /\ events' = events \cup {STARTED} /\ UNCHANGED <<client, left>>

Watchdog ==
  WatchdogCounts \/ WatchdogStops \/ WatchdogClears \/ WatchdogStarts \/ WatchdogSets

Connection == Connects \/ CannotConnect \/ Disconnects \/ Watchdog

--------------------------------------------------------------------------------
(* mqttmgr_cmd_dispatch. The handlers, in the order the boot registers them     *)
(* (client_init, sensor_init); the two handlers of shtc3mgr.c ask for the       *)
(* commands of the SHT4X.                                                       *)
Handlers == <<"otamgr", "sensormgr", "alarm", "ltr390", "shtc3", "sht4x", "blinky">>

Claims(h) == IF h = "shtc3" THEN "sht4x" ELSE h

(* The first that does not say NOTMINE; 0 when all of them do *)
Claimant(c) == SelectInSeq(Handlers, LAMBDA h : Claims(h) = c)

Idle == [pc |-> "idle", for |-> "none", by |-> "none", ret |-> "NOTMINE"]

(* MQTT_EVENT_DATA on the request topic, with a message that can be unpacked,   *)
(* offered to one handler after the other until one does not say NOTMINE        *)
CommandArrives ==
  /\ client = "up" /\ cmd.pc = "idle"
  /\ Spend("commands")
  /\ \E c \in Commands :
       LET i == Claimant(c)
       IN cmd' = [Idle EXCEPT !.pc = IF i = 0 THEN "respond" ELSE "handle",
                              !.for = c, !.by = IF i = 0 THEN "none" ELSE Handlers[i]]
  /\ UNCHANGED <<blinkyVars, otaVars, power, clientVars, watchdog, suspended, btnVars, pipeVars>>

Handles(h) == cmd.pc = "handle" /\ cmd.by = h

Answer(ret) == cmd' = [cmd EXCEPT !.pc = "respond", !.ret = ret]

DispatchRest == UNCHANGED <<power, clientVars, watchdog, suspended, btnVars, pipeVars, left>>

OtaHandler ==
  /\ Handles("otamgr")
  /\ \/ OtaBusy /\ Answer("ERR")
     \/ OtaCreateFails /\ Answer("ERR")
     \/ (\E t \in OtaTasks : OtaCreate(t)) /\ Answer("HANDLED")
  /\ UNCHANGED blinkyVars /\ DispatchRest

LedHandler ==
  /\ Handles("blinky")
  /\ \/ (\E a \in LedAnimations : blinky_play(a)) /\ Answer("HANDLED")
     \/ QueueTimesOut /\ Answer("ERR")
  /\ UNCHANGED otaVars /\ DispatchRest

(* The handlers of the other components, which other modules model *)
OtherHandler ==
  /\ \E h \in {"sensormgr", "alarm", "ltr390", "shtc3", "sht4x"} : Handles(h)
  /\ \E ret \in {"HANDLED", "ERR"} : Answer(ret)
  /\ UNCHANGED <<blinkyVars, otaVars>> /\ DispatchRest

(* esp_mqtt_client_publish, which may fail: the response is then lost *)
Respond ==
  /\ cmd.pc = "respond"
  /\ cmd' = Idle
  /\ UNCHANGED <<blinkyVars, otaVars>> /\ DispatchRest

Dispatch == OtaHandler \/ LedHandler \/ OtherHandler \/ Respond

--------------------------------------------------------------------------------
(* The pipeline, one round of a task at a time *)

Runs(task) == task \notin suspended

PipeRest == UNCHANGED <<blinkyVars, otaVars, power, watchdog, cmd, suspended, btnVars, left>>

(* HIGHWATER is set at the mark, here a full ring buffer. A reading that comes  *)
(* when the drain has looked for the last time waits for the next one.          *)
Measure ==
  /\ left["readings"] > 0
  /\ Runs("reader") /\ POLLSENSORS \in events /\ ring < RingSlots
  /\ ring' = ring + 1
  /\ events' = IF ring' = RingSlots THEN events \cup {HIGHWATER} ELSE events
  /\ behind' = IF writer = "empty" THEN "late" ELSE behind
  /\ UNCHANGED <<client, batch, writer, limit>> /\ PipeRest

(* With a reading received, HIGHWATER is cleared when enough space is free      *)
MayClearHigh == \E off \in {{}, {HIGHWATER}} : events' = events \ off

SendTakes ==
  /\ Runs("sender") /\ {STARTED, CONNECTED} \subseteq events /\ ring > 0 /\ ~batch
  /\ ring' = ring - 1
  /\ batch' = TRUE
  /\ MayClearHigh
  /\ UNCHANGED <<client, drainVars>> /\ PipeRest

SendQueues ==
  /\ Runs("sender") /\ batch
  /\ batch' = FALSE
  /\ UNCHANGED <<clientVars, ring, drainVars>> /\ PipeRest

(* The sender empties the ring buffer: the iterator enables polling again *)
SendDrained ==
  /\ Runs("sender") /\ {STARTED, CONNECTED} \subseteq events /\ ring = 0 /\ ~batch
  /\ \E off \in {{}, {HIGHWATER}} : events' = (events \ off) \cup {POLLSENSORS}
  /\ UNCHANGED <<client, pipeVars>> /\ PipeRest

WriterReady == Runs("writer") /\ writer = "wait" /\ {NOTCONNECTED, HIGHWATER} \subseteq events

(* Enough free space, which SensorMgr counts: a file is opened, and the drain   *)
(* has a limit                                                                  *)
WriterWakes ==
  /\ WriterReady
  /\ writer' = "drain" /\ behind' = "nothing"
  /\ limit' \in 0 .. DiskRoom
  /\ events' = events \ {DONEWRITING}
  /\ UNCHANGED <<client, ring, batch>> /\ PipeRest

(* Not enough free space: wait until the iterator has polling enabled again *)
WriterPauses ==
  /\ WriterReady
  /\ writer' = "paused"
  /\ events' = events \ {POLLSENSORS}
  /\ UNCHANGED <<client, ring, batch, limit, behind>> /\ PipeRest

WriterResumes ==
  /\ Runs("writer") /\ writer = "paused" /\ POLLSENSORS \in events
  /\ writer' = "wait"
  /\ UNCHANGED <<clientVars, ring, batch, limit, behind>> /\ PipeRest

(* A mutation: the drain has no limit *)
WriterWritesOn ==
  /\ Runs("writer") /\ writer = "drain" /\ ring > 0
  /\ ring' = ring - 1
  /\ MayClearHigh
  /\ UNCHANGED <<client, batch, drainVars>> /\ PipeRest

(* A reading goes to the file; past the limit the drain ends, whatever is left  *)
WriterWrites ==
  /\ Runs("writer") /\ writer = "drain" /\ ring > 0
  /\ ring' = ring - 1
  /\ IF limit > 0
     THEN limit' = limit - 1 /\ UNCHANGED <<writer, behind>>
     ELSE writer' = "close" /\ behind' = "limit" /\ UNCHANGED limit
  /\ MayClearHigh
  /\ UNCHANGED <<client, batch>> /\ PipeRest

(* The iterator finds no reading, ...                                           *)
WriterEmpty ==
  /\ Runs("writer") /\ writer = "drain" /\ ring = 0
  /\ writer' = "empty"
  /\ UNCHANGED <<clientVars, ring, batch, limit, behind>> /\ PipeRest

(* ... then clears HIGHWATER, if what its callers hold and what came meanwhile  *)
(* leave space enough, and enables polling, ...                                 *)
WriterClearsHigh ==
  /\ Runs("writer") /\ writer = "empty"
  /\ writer' = "close"
  /\ \E off \in {{}, {HIGHWATER}} : events' = (events \ off) \cup {POLLSENSORS}
  /\ UNCHANGED <<client, ring, batch, limit, behind>> /\ PipeRest

(* A mutation: DONEWRITING stays clear after the file is closed *)
WriterDoneSilently ==
  /\ Runs("writer") /\ writer = "close"
  /\ writer' = "wait"
  /\ UNCHANGED <<clientVars, ring, batch, limit, behind>> /\ PipeRest

(* ... and the file is closed.                                                  *)
WriterDone ==
  /\ Runs("writer") /\ writer = "close"
  /\ writer' = "wait"
  /\ events' = events \cup {DONEWRITING}
  /\ UNCHANGED <<client, ring, batch, limit, behind>> /\ PipeRest

Writer ==
  \/ WriterWakes \/ WriterPauses \/ WriterResumes \/ WriterWrites
  \/ WriterEmpty \/ WriterClearsHigh \/ WriterDone

Pipeline == Measure \/ SendTakes \/ SendQueues \/ SendDrained \/ Writer

--------------------------------------------------------------------------------
(* touchbtn_esp32s2.c and touchbtn.c *)

SleepAnimation == Animation("BLINK", "RGB_0", Forever, FALSE)
WakeAnimation  == Animation("BLINK", "RGB_0", 3, TRUE)
ClickSlots     == 2

(* touchbtn_gpio_isr: a click that finds the queue full is dropped *)
Click ==
  /\ Spend("clicks")
  /\ clicks' = IF clicks < ClickSlots THEN clicks + 1 ELSE clicks
  /\ UNCHANGED <<blinkyVars, otaVars, power, clientVars, watchdog, cmd, suspended, btn, pipeVars>>

BtnRest == UNCHANGED <<blinkyVars, otaVars, power, clientVars, watchdog, cmd, suspended, pipeVars, left>>

BtnFirst ==
  /\ btn = "wait" /\ clicks > 0
  /\ clicks' = clicks - 1 /\ btn' = "second"
  /\ BtnRest

(* A second click within 500 ms is a double click, unless the contact bounced   *)
BtnSecond ==
  /\ btn = "second" /\ clicks > 0
  /\ clicks' = clicks - 1 /\ btn' \in {"sleep", "wake"}
  /\ BtnRest

BtnTimeout ==
  /\ btn = "second" /\ clicks = 0
  /\ btn' = "wake"
  /\ UNCHANGED clicks /\ BtnRest

BtnPlays(at, a, next) ==
  /\ btn = at
  /\ blinky_play(a)
  /\ btn' = next
  /\ UNCHANGED <<otaVars, power, clientVars, watchdog, cmd, suspended, clicks, pipeVars, left>>

(* touchbtn_wifiwake: mqttmgr_reconnect_now notifies the watchdog when offline,  *)
(* which only ends its sleep early; then three flashes                          *)
WifiWake == BtnPlays("wake", WakeAnimation, "wait")

(* touchbtn_deepsleep *)
SleepPlays == BtnPlays("sleep", SleepAnimation, "clear")

StopStep(at, next, evs, susp) ==
  /\ btn = at
  /\ btn' = next
  /\ events' = evs
  /\ suspended' = suspended \cup susp
  /\ UNCHANGED <<blinkyVars, otaVars, power, watchdog, cmd, clicks, pipeVars, left>>

(* mqttmgr_stop: a started client is recorded stopped, then stopped, which      *)
(* waits for the event its task handles; NOTCONNECTED is not set                *)
MqttStopClears ==
  /\ StopStep("clear", IF STARTED \in events THEN "stop" ELSE "suspend",
              events \ (IF STARTED \in events THEN {STARTED, CONNECTED} ELSE {}), {})
  /\ UNCHANGED client

MqttStopClient == cmd.pc = "idle" /\ StopStep("stop", "suspend", events, {}) /\ client' = "stopped"

MqttStopSuspends == StopStep("suspend", "poll", events, {"watchdog"}) /\ UNCHANGED client

(* sensormgr_stop *)
SensorStopPolling  == StopStep("poll", "tasks", events \ {POLLSENSORS}, {}) /\ UNCHANGED client
SensorStopReader   == StopStep("tasks", "sender", events, {"reader"}) /\ UNCHANGED client
SensorStopSender   == StopStep("sender", "high", events, {"sender"}) /\ UNCHANGED client
SensorStopHigh     == StopStep("high", "delay", events \cup {HIGHWATER}, {}) /\ UNCHANGED client

(* A mutation: DONEWRITING is not waited for *)
SensorStopWriterAtOnce ==
  /\ ~(WriterReady /\ ring > 0)
  /\ StopStep("delay", "deep", events, {"writer"}) /\ UNCHANGED client

(* The second of delay is time enough for the file writer to wake when there is *)
(* something to write; DONEWRITING says that it is done                         *)
SensorStopWriter ==
  /\ ~(WriterReady /\ ring > 0) /\ DONEWRITING \in events
  /\ StopStep("delay", "deep", events, {"writer"}) /\ UNCHANGED client

(* The last animation is queued, and the device sleeps *)
DeepSleep ==
  /\ btn = "deep"
  /\ blinky_play(SleepAnimation)
  /\ power' = "asleep" /\ btn' = "asleep"
  /\ UNCHANGED <<otaVars, clientVars, watchdog, cmd, suspended, clicks, pipeVars, left>>

Button ==
  \/ BtnFirst \/ BtnSecond \/ BtnTimeout \/ WifiWake
  \/ SleepPlays \/ MqttStopClears \/ MqttStopClient \/ MqttStopSuspends
  \/ SensorStopPolling \/ SensorStopReader \/ SensorStopSender \/ SensorStopHigh
  \/ SensorStopWriter \/ DeepSleep

--------------------------------------------------------------------------------
Led == LedTask /\ UNCHANGED <<otaVars, power, clientVars, watchdog, cmd, suspended, btnVars, pipeVars, left>>

Ota ==
  /\ \E t \in OtaTasks : OtaTask(t)
  /\ UNCHANGED <<blinkyVars, power, clientVars, watchdog, cmd, suspended, btnVars, pipeVars, left>>

(* esp_restart, or the panic *)
Restart ==
  /\ \E t \in OtaTasks : ota[t].pc = "restart"
  /\ power' = "restarted"
  /\ UNCHANGED <<blinkyVars, otaVars, clientVars, watchdog, cmd, suspended, btnVars, pipeVars, left>>

(* After app_main *)
Init ==
  /\ BlinkyInit /\ OtaInit
  /\ power = "on"
  /\ events = {STARTED, DONEWRITING, POLLSENSORS}
  /\ client = "down" /\ watchdog = "wait"
  /\ cmd = Idle
  /\ suspended = {}
  /\ btn = "wait" /\ clicks = 0
  /\ ring = 0 /\ batch = FALSE
  /\ writer = "wait" /\ limit = 0 /\ behind = "nothing"
  /\ left \in Budgets

Next ==
  /\ power = "on"
  /\ Connection \/ CommandArrives \/ Dispatch \/ Pipeline \/ Click \/ Button \/ Led \/ Ota \/ Restart

Spec == Init /\ [][Next]_vars

On(A) == power = "on" /\ A

(* Every task runs when it can. The queue of animations has two senders, and    *)
(* FreeRTOS serves them in the order they came: the button task, which waits    *)
(* without a limit, gets its turn (strong fairness).                            *)
FairSpec ==
  /\ Spec
  /\ WF_vars(On(Dispatch)) /\ WF_vars(On(Led)) /\ WF_vars(On(Ota)) /\ WF_vars(On(Restart))
  /\ WF_vars(On(Writer)) /\ SF_vars(On(Button))

--------------------------------------------------------------------------------
TypeOK ==
  /\ BlinkyTypeOK /\ OtaTypeOK
  /\ power \in {"on", "asleep", "restarted"}
  /\ events \subseteq EventBits
  /\ client \in {"stopped", "down", "up"}
  /\ watchdog \in {"wait", "stop", "clear", "sleep", "set"}
  /\ cmd \in [pc : {"idle", "handle", "respond"}, for : Commands \cup {"none"},
              by : ToSet(Handlers) \cup {"none"}, ret : {"HANDLED", "ERR", "NOTMINE"}]
  /\ suspended \subseteq {"watchdog", "reader", "sender", "writer"}
  /\ btn \in {"wait", "second", "wake", "sleep", "clear", "stop", "suspend", "poll", "tasks",
              "sender", "high", "delay", "deep", "asleep"}
  /\ clicks \in 0 .. ClickSlots
  /\ ring \in 0 .. RingSlots /\ batch \in BOOLEAN
  /\ writer \in {"wait", "drain", "empty", "close", "paused"}
  /\ limit \in 0 .. DiskRoom /\ behind \in {"nothing", "limit", "late"}
  /\ left \in [{"commands", "clicks", "readings", "changes"} -> Nat]

--------------------------------------------------------------------------------
(* Properties. *)

(* A device that went to sleep with its client stopped and recorded offline has *)
(* written every reading of the ring buffer (sensormgr.c:721, "Waiting for file *)
(* writer task to finish up"), unless the disk was full: the file writer is     *)
(* paused, or its last drain ended at its limit. Or a reading came between the  *)
(* last look of a drain at the ring buffer and its clearing of HIGHWATER, which *)
(* then takes back the request of sensormgr_stop.                               *)
RingSavedAsleep ==
  power = "asleep" /\ client = "stopped" /\ NOTCONNECTED \in events
    => ring = 0 \/ writer = "paused" \/ behind # "nothing"

(* A device that sleeps with a reading in the ring buffer had no room for it.   *)
SleepsWithoutRoomOnly ==
  power = "asleep" /\ client = "stopped" /\ NOTCONNECTED \in events /\ ring > 0
    => writer = "paused" \/ behind = "limit"

(* A device that goes down leaves no reading in memory, connected or not.       *)
DownKeepsReadings == power # "on" => ring = 0 /\ ~batch

(* A command is answered by the component it is for.                            *)
AnsweredByItsComponent ==
  cmd.pc = "respond" /\ cmd.for \in ToSet(Handlers) => cmd.by = cmd.for

(* After an update that failed at any stage the next one is let in.             *)
UpdateEnds == update_task_handle # NoTask ~> update_task_handle = NoTask \/ power # "on"

(* A drain to a file ends, however fast the reader fills the ring buffer again  *)
(* meanwhile: who waits on DONEWRITING, the sender or sensormgr_stop, gets it.  *)
WritingEnds == DONEWRITING \notin events ~> DONEWRITING \in events \/ power # "on"

(* The client's task leaves every command, whatever the light plays and the     *)
(* update does, and the button task comes back to its queue or puts the device  *)
(* to sleep: neither waits for good on the queue of animations, on the file     *)
(* writer or on the other one.                                                  *)
CommandsEnd ==
  /\ cmd.pc # "idle" ~> cmd.pc = "idle" \/ power # "on"
  /\ btn # "wait" ~> btn = "wait" \/ power # "on"
================================================================================
