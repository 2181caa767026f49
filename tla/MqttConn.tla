------------------------------- MODULE MqttConn ------------------------------
(***************************************************************************)
(* The connection management of mqttmgr/mqttmgr.c: the bits of the event   *)
(* group that describe the connection, set by the event handler (which the *)
(* task of the ESP-MQTT client runs) and by the watchdog task, which stops *)
(* a client that is disconnected too often and starts it again after a     *)
(* back-off; and mqttmgr_reconnect_now, which cuts the back-off short.     *)
(*                                                                         *)
(* A step is one call on shared state. The ESP-MQTT client is external: it *)
(* connects, fails to connect or loses the connection, and dispatches an   *)
(* event each time.                                                        *)
(***************************************************************************)
EXTENDS Backoff

CONSTANTS
  BaseBackoff,   (* MQTT_BASE_BACKOFF_SEC *)
  MaxBackoff     (* MQTT_MAX_BACKOFF      *)

ASSUME MqttConnAssumption ==
  /\ BaseBackoff \in Nat \ {0} /\ MaxBackoff \in 0 .. Uint16 - 1
  /\ BaseBackoff <= MaxBackoff

VARIABLES
  bits,       (* mqttmgr_events, the bits about the client                    *)
  client,     (* the ESP-MQTT client: "stopped", "down" (retrying), "up"      *)
  reach,      (* the environment: can the server be reached?                  *)
  event,      (* the event handler: its place, "idle" between events          *)
  jitter,     (* retryParams.nextJitterMax                                    *)
  wd,         (* the watchdog: pc, disconn_event_count, nextRetryBackoff and  *)
              (* the bound it read last                                       *)
  notified,   (* a task notification of the watchdog is pending               *)
  caller,     (* a caller of mqttmgr_reconnect_now                            *)
  start       (* mqttmgr_start                                                *)

vars == <<bits, client, reach, event, jitter, wd, notified, caller, start>>

STARTED      == "STARTED"       (* MQTTMGR_CLIENT_STARTED_BIT      *)
CONNECTED    == "CONNECTED"     (* MQTTMGR_CLIENT_CONNECTED_BIT    *)
NOTCONNECTED == "NOTCONNECTED"  (* MQTTMGR_CLIENT_NOTCONNECTED_BIT *)
DISCONNECTED == "DISCONNECTED"  (* MQTTMGR_CLIENT_DISCONNECTED_BIT *)

ClientBits == {STARTED, CONNECTED, NOTCONNECTED, DISCONNECTED}

--------------------------------------------------------------------------------
(* The environment and the ESP-MQTT client. It starts no event once it was told *)
(* to stop; the call returns when the event under way is finished.              *)

NetworkChanges ==
  /\ reach' = ~reach
  /\ UNCHANGED <<bits, client, event, jitter, wd, notified, caller, start>>

Dispatch(before, after, e) ==
  /\ client = before /\ event = "idle" /\ wd.pc # "stop"
  /\ client' = after
  /\ event' = e
  /\ UNCHANGED <<bits, reach, jitter, wd, notified, caller, start>>

ClientConnects     == reach /\ Dispatch("down", "up", "connected")
ClientCannotConnect == ~reach /\ Dispatch("down", "down", "disconnected")
ClientDisconnects  == ~reach /\ Dispatch("up", "down", "disconnected")

--------------------------------------------------------------------------------
(* mqttmgr_event_handler.                                                       *)

(* A call of the handler on the event group, then the next place in the handler *)
Handle(e, set, clear, next) ==
  /\ event = e
  /\ bits' = (bits \ clear) \cup set
  /\ event' = next
  /\ UNCHANGED <<client, reach, jitter, wd, notified, caller, start>>

(* MQTT_EVENT_CONNECTED *)
SetConnected      == Handle("connected", {CONNECTED}, {}, "connected2")
ClearNotConnected == Handle("connected2", {}, {NOTCONNECTED}, "connected3")

ResetBackoff ==
  /\ event = "connected3"
  /\ jitter' = BaseBackoff
  /\ event' = "idle"
  /\ UNCHANGED <<bits, client, reach, wd, notified, caller, start>>

(* MQTT_EVENT_DISCONNECTED *)
ClearConnected  == Handle("disconnected", {}, {CONNECTED}, "disconnected2")
SetDisconnected == Handle("disconnected2", {DISCONNECTED, NOTCONNECTED}, {}, "idle")

EventHandler ==
  SetConnected \/ ClearNotConnected \/ ResetBackoff \/ ClearConnected \/ SetDisconnected

--------------------------------------------------------------------------------
(* mqttmgr_client_watchdog.                                                     *)

WdGoto(p) == wd' = [wd EXCEPT !.pc = p]

WdWait ==
  /\ wd.pc = "wait"
  /\ {STARTED, DISCONNECTED} \subseteq bits
  /\ WdGoto("count")
  /\ UNCHANGED <<bits, client, reach, event, jitter, notified, caller, start>>

(* A mutation: the bit is left set *)
WdCountKeepsBit ==
  /\ wd.pc = "count"
  /\ wd' = [wd EXCEPT !.count = @ + 1, !.pc = IF wd.count + 1 = 2 THEN "backoff" ELSE "wait"]
  /\ UNCHANGED <<bits, client, reach, event, jitter, notified, caller, start>>

(* A mutation: every event counts as the first one *)
WdCountForgets ==
  /\ wd.pc = "count"
  /\ bits' = bits \ {DISCONNECTED}
  /\ wd' = [wd EXCEPT !.count = 1, !.pc = "wait"]
  /\ UNCHANGED <<client, reach, event, jitter, notified, caller, start>>

(* The second event since the last restart makes it stop the client *)
WdCount ==
  /\ wd.pc = "count"
  /\ bits' = bits \ {DISCONNECTED}
  /\ wd' = [wd EXCEPT !.count = @ + 1, !.pc = IF wd.count + 1 = 2 THEN "backoff" ELSE "wait"]
  /\ UNCHANGED <<client, reach, event, jitter, notified, caller, start>>

(* BackoffAlgorithm_GetNextBackoff, on a context that the event handler may     *)
(* reset between any two accesses: choose the delay, ...                        *)
WdBackoff ==
  /\ wd.pc = "backoff"
  /\ \E d \in 0 .. jitter : wd' = [wd EXCEPT !.delay = d, !.pc = "test"]
  /\ UNCHANGED <<bits, client, reach, event, jitter, notified, caller, start>>

(* ... test the bound, ...                                                      *)
WdTest ==
  /\ wd.pc = "test"
  /\ wd' = [wd EXCEPT !.tested = jitter, !.pc = "double"]
  /\ UNCHANGED <<bits, client, reach, event, jitter, notified, caller, start>>

(* A mutation: the bound is not tested again before it is doubled *)
WdDoubleAlways ==
  /\ wd.pc = "double"
  /\ jitter' = (jitter + jitter) % Uint16
  /\ WdGoto("stop")
  /\ UNCHANGED <<bits, client, reach, event, notified, caller, start>>

(* ... and double the bound that was tested, or one read again: the compiler    *)
(* is free to do either.                                                        *)
WdDouble ==
  /\ wd.pc = "double"
  /\ \E read \in {wd.tested, jitter} :
       jitter' = IF wd.tested < MaxBackoff \div 2 THEN (read + read) % Uint16 ELSE MaxBackoff
  /\ WdGoto("stop")
  /\ UNCHANGED <<bits, client, reach, event, notified, caller, start>>

(* A mutation: the client is told to stop, and not waited for *)
WdStopAtOnce ==
  /\ wd.pc = "stop"
  /\ client' = "stopped"
  /\ WdGoto("clear")
  /\ UNCHANGED <<bits, reach, event, jitter, notified, caller, start>>

(* esp_mqtt_client_stop waits for the client's task, then the radio is stopped  *)
WdStop ==
  /\ wd.pc = "stop"
  /\ event = "idle"
  /\ client' = "stopped"
  /\ WdGoto("clear")
  /\ UNCHANGED <<bits, reach, event, jitter, notified, caller, start>>

WdClear ==
  /\ wd.pc = "clear"
  /\ bits' = bits \ {STARTED, CONNECTED}
  /\ WdGoto("sleep")
  /\ UNCHANGED <<client, reach, event, jitter, notified, caller, start>>

(* xTaskNotifyWait returns pdTRUE: start over, with the back-off reset *)
WdNotified ==
  /\ wd.pc = "sleep"
  /\ notified
  /\ notified' = FALSE
  /\ WdGoto("reset")
  /\ UNCHANGED <<bits, client, reach, event, jitter, caller, start>>

(* A mutation: the back-off is not reset *)
WdResetSkipped ==
  /\ wd.pc = "reset"
  /\ WdGoto("start")
  /\ UNCHANGED <<bits, client, reach, event, jitter, notified, caller, start>>

WdReset ==
  /\ wd.pc = "reset"
  /\ jitter' = BaseBackoff
  /\ WdGoto("start")
  /\ UNCHANGED <<bits, client, reach, event, notified, caller, start>>

(* A mutation: only a notification ends the sleep *)
WdNeverTimesOut == FALSE /\ UNCHANGED vars

(* ... or times out *)
WdTimeout ==
  /\ wd.pc = "sleep"
  /\ ~notified
  /\ WdGoto("start")
  /\ UNCHANGED <<bits, client, reach, event, jitter, notified, caller, start>>

(* The radio, five seconds, the client *)
WdStart ==
  /\ wd.pc = "start"
  /\ client' = "down"
  /\ WdGoto("started")
  /\ UNCHANGED <<bits, reach, event, jitter, notified, caller, start>>

WdStarted ==
  /\ wd.pc = "started"
  /\ bits' = bits \cup {STARTED}
  /\ wd' = [wd EXCEPT !.count = 0, !.pc = "wait"]
  /\ UNCHANGED <<client, reach, event, jitter, notified, caller, start>>

Watchdog ==
  \/ WdWait \/ WdCount \/ WdBackoff \/ WdTest \/ WdDouble \/ WdStop \/ WdClear
  \/ WdNotified \/ WdReset \/ WdTimeout \/ WdStart \/ WdStarted

--------------------------------------------------------------------------------
(* mqttmgr_reconnect_now, called by the touch button. *)

ReconnectNow ==
  /\ caller = "idle"
  /\ NOTCONNECTED \in bits
  /\ caller' = "notify"
  /\ UNCHANGED <<bits, client, reach, event, jitter, wd, notified, start>>

ReconnectNotify ==
  /\ caller = "notify"
  /\ notified' = TRUE
  /\ caller' = "idle"
  /\ UNCHANGED <<bits, client, reach, event, jitter, wd, start>>

(* mqttmgr_start, after it created the tasks *)
StartClient ==
  /\ start = "client"
  /\ client' = "down"
  /\ start' = "bit"
  /\ UNCHANGED <<bits, reach, event, jitter, wd, notified, caller>>

StartSetBit ==
  /\ start = "bit"
  /\ bits' = bits \cup {STARTED}
  /\ start' = "done"
  /\ UNCHANGED <<client, reach, event, jitter, wd, notified, caller>>

Init ==
  /\ bits = {}
  /\ client = "stopped"
  /\ reach \in BOOLEAN
  /\ event = "idle"
  /\ jitter = BaseBackoff
  /\ wd = [pc |-> "wait", count |-> 0, delay |-> 0, tested |-> BaseBackoff]
  /\ notified = FALSE
  /\ caller = "idle"
  /\ start = "client"

Client == ClientConnects \/ ClientCannotConnect \/ ClientDisconnects

Start == StartClient \/ StartSetBit

Reconnect == ReconnectNow \/ ReconnectNotify

Next == NetworkChanges \/ Client \/ EventHandler \/ Watchdog \/ Reconnect \/ Start

Spec == Init /\ [][Next]_vars

(* Every task runs when it can, and the client keeps trying. A wait of the      *)
(* watchdog ends for good once its bits are set, as it alone clears them.       *)
FairSpec ==
  /\ Spec
  /\ WF_vars(Client) /\ WF_vars(EventHandler) /\ WF_vars(Watchdog)
  /\ WF_vars(Start) /\ WF_vars(ReconnectNotify)

--------------------------------------------------------------------------------
EventPCs == {"idle", "connected", "connected2", "connected3",
             "disconnected", "disconnected2"}

WdType == [pc : {"wait", "count", "backoff", "test", "double", "stop", "clear", "sleep",
                 "reset", "start", "started"},
           count : 0 .. 2, delay : 0 .. MaxBackoff, tested : BaseBackoff .. MaxBackoff]

(* The bound of the jitter stays between the base and the maximum, and with it  *)
(* the delay, though the handler resets it while the watchdog doubles it.       *)
TypeOK ==
  /\ bits \subseteq ClientBits
  /\ client \in {"stopped", "down", "up"}
  /\ reach \in BOOLEAN
  /\ event \in EventPCs
  /\ jitter \in BaseBackoff .. MaxBackoff
  /\ wd \in WdType
  /\ notified \in BOOLEAN
  /\ caller \in {"idle", "notify"}
  /\ start \in {"client", "bit", "done"}

--------------------------------------------------------------------------------
(* Properties. *)

(* The tasks that publish rely on CONNECTED: it is set only while the client is *)
(* up, but for the calls under way that clear it, and STARTED only while it is  *)
(* not stopped, likewise. Once the connection was announced, CONNECTED is set   *)
(* and NOTCONNECTED is not, whatever the watchdog did before or is about to do. *)
BitsFollowClient ==
  /\ CONNECTED \in bits => client = "up" \/ event = "disconnected" \/ wd.pc = "clear"
  /\ STARTED \in bits => client # "stopped" \/ wd.pc = "clear"
  /\ client = "up" /\ event \in {"idle", "connected3"}
       => CONNECTED \in bits /\ NOTCONNECTED \notin bits

(* While the watchdog sleeps, with the radio off, NOTCONNECTED is set           *)
(* (mqttmgr.h:13, "This is set if the system is NOT currently connected to      *)
(* MQTT"): the file writer waits for that bit.                                  *)
AsleepIsNotConnected == wd.pc = "sleep" => NOTCONNECTED \in bits

(* A stopped client is always started again. *)
StoppedRestarts == client = "stopped" ~> client # "stopped"

(* When the server can be reached for good, the connection is up for good: no   *)
(* disconnection counted late keeps stopping it.                                *)
EventuallyOnline == <>[]reach => <>[](CONNECTED \in bits)

(* A client that is disconnected again and again is stopped for a back-off      *)
(* again and again (mqttmgr.c:189, "so the client doesn't retry forever"),      *)
(* though one bit stands for any number of disconnections.                      *)
BacksOff == []<>(event = "disconnected2") => []<>(wd.pc = "sleep")

(* mqttmgr_reconnect_now resets the back-off (mqttmgr.c:117) whether or not the *)
(* watchdog was asleep when it was called.                                      *)
ReconnectResets == caller = "notify" ~> jitter = BaseBackoff
==============================================================================
