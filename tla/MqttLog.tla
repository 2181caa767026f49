------------------------------- MODULE MqttLog -------------------------------
(***************************************************************************)
(* mqttmgr/mqttlog.c: any task may log; a message goes through a ring      *)
(* buffer of its own to the logsend task, which hands it to the MQTT       *)
(* message queue while connected. A logger that finds the buffer full      *)
(* takes the oldest message out and drops it. logsend itself logs how many *)
(* messages were dropped, by the same function.                            *)
(*                                                                         *)
(* A message is the number of its slot, counted from the start: 1, 2, ...  *)
(* All messages take one slot.                                             *)
(***************************************************************************)
EXTENDS Integers, FiniteSets

CONSTANTS
  Loggers,      (* the tasks that log                                         *)
  LogSlots,     (* capacity of the ring buffer                                *)
  QueueSlots,   (* capacity of the MQTT message queue                         *)
  MaxMsg,       (* bound: messages logged in a behaviour                      *)
  TooLong       (* the messages that are too large for the message queue      *)

ASSUME MqttLogAssumption ==
  /\ LogSlots \in Nat \ {0} /\ QueueSlots \in Nat \ {0} /\ MaxMsg \in Nat
  /\ TooLong \subseteq 1 .. MaxMsg
  /\ "logsend" \notin Loggers /\ IsFiniteSet(Loggers)

VARIABLES
  slot,        (* the ring buffer: the state of every slot used so far          *)
  write,       (* its next slot                                                 *)
  discarded,   (* state.msgs_discarded                                          *)
  notified,    (* the task notification of logsend                              *)
  call,        (* mqttlog_queue_msg in each task: place, and slot in hand       *)
  ls,          (* logsend: place, and message in hand                           *)
  connected,   (* MQTTMGR_CLIENT_CONNECTED_BIT                                  *)
  outq,        (* messages waiting in the MQTT message queue                    *)
  delivered,   (* history: messages handed to the message queue                 *)
  dropped,     (* history: messages dropped, by a logger or by logsend          *)
  counted,     (* history: how often msgs_discarded was incremented             *)
  reported     (* history: the sum of the counts that logsend logged            *)

ringVars == <<slot, write>>
envVars  == <<connected, outq>>
history  == <<delivered, dropped, counted, reported>>
vars == <<ringVars, discarded, notified, call, ls, envVars, history>>

LogSend == "logsend"
Tasks   == Loggers \cup {LogSend}
Msgs    == 1 .. MaxMsg
None    == 0

--------------------------------------------------------------------------------
(* The ESP-IDF no-split ring buffer. A slot is acquired, then ready when its     *)
(* message is complete, taken while a receiver has it, and returned. Nothing     *)
(* behind an acquired slot can be received, and a returned slot is free only     *)
(* when all older ones are.                                                      *)

Written == 1 .. (write - 1)

InState(S) == {m \in Written : slot[m] \in S}

OldestOf(S, default) ==
  IF S = {} THEN default ELSE CHOOSE m \in S : \A other \in S : m <= other

Full == write - OldestOf(InState({"acquired", "ready", "taken"}), write) >= LogSlots

(* What a receive takes, None if it takes nothing *)
Receivable ==
  LET m == OldestOf(InState({"acquired", "ready"}), None)
  IN IF m \in InState({"ready"}) THEN m ELSE None

SetSlot(m, s) == slot' = [slot EXCEPT ![m] = s]

--------------------------------------------------------------------------------
(* mqttlog_queue_msg in task t, mqttlog_drop_msg inlined.                        *)

CallAt(t, p)   == call[t].pc = p
Goto(t, p)     == call' = [call EXCEPT ![t].pc = p]
Hold(t, m, p)  == call' = [call EXCEPT ![t] = [pc |-> p, msg |-> m]]

(* The bound on the messages: no call starts with no slot left *)
Started == Cardinality({t \in Tasks : call[t].pc \in {"acquire", "drop", "return", "count"}})

BeginLog(t) ==
  /\ CallAt(t, "idle")
  /\ write + Started <= MaxMsg
  /\ Goto(t, "acquire")

Log(t) ==
  /\ t \in Loggers
  /\ BeginLog(t)
  /\ UNCHANGED <<ringVars, discarded, notified, ls, envVars, history>>

Acquire(t) ==
  /\ CallAt(t, "acquire")
  /\ ~Full
  /\ SetSlot(write, "acquired")
  /\ write' = write + 1
  /\ Hold(t, write, "complete")
  /\ UNCHANGED <<discarded, notified, ls, envVars, history>>

FindFull(t) ==
  /\ CallAt(t, "acquire")
  /\ Full
  /\ Goto(t, "drop")
  /\ UNCHANGED <<ringVars, discarded, notified, ls, envVars, history>>

(* A mutation: the oldest message is dropped, whoever has it in hand *)
DropReceiveHead(t) ==
  LET head == OldestOf(InState({"ready", "taken"}), None)
  IN /\ CallAt(t, "drop")
     /\ head # None
     /\ SetSlot(head, "taken")
     /\ Hold(t, head, "return")
     /\ UNCHANGED <<write, discarded, notified, ls, envVars, history>>

DropReceive(t) ==
  /\ CallAt(t, "drop")
  /\ Receivable # None
  /\ SetSlot(Receivable, "taken")
  /\ Hold(t, Receivable, "return")
  /\ UNCHANGED <<write, discarded, notified, ls, envVars, history>>

(* Nothing to drop, ESP_FAIL: abort(), and the device starts again *)
DropFails(t) ==
  /\ CallAt(t, "drop")
  /\ Receivable = None
  /\ Goto(t, "abort")
  /\ UNCHANGED <<ringVars, discarded, notified, ls, envVars, history>>

DropReturn(t) ==
  /\ CallAt(t, "return")
  /\ SetSlot(call[t].msg, "returned")
  /\ dropped' = dropped \cup {call[t].msg}
  /\ Hold(t, None, "count")
  /\ UNCHANGED <<write, discarded, notified, ls, envVars, delivered, counted, reported>>

DropCount(t) ==
  /\ CallAt(t, "count")
  /\ discarded' = discarded + 1
  /\ counted' = counted + 1
  /\ Goto(t, "acquire")
  /\ UNCHANGED <<ringVars, notified, ls, envVars, delivered, dropped, reported>>

Complete(t) ==
  /\ CallAt(t, "complete")
  /\ SetSlot(call[t].msg, "ready")
  /\ Hold(t, None, "notify")
  /\ UNCHANGED <<write, discarded, notified, ls, envVars, history>>

(* A mutation: logsend is notified only of the first message in the buffer *)
NotifyFirst(t) ==
  /\ CallAt(t, "notify")
  /\ notified' = (notified \/ Cardinality(InState({"ready", "taken"})) = 1)
  /\ Goto(t, "idle")
  /\ ls' = IF t = LogSend THEN [ls EXCEPT !.pc = "reset"] ELSE ls
  /\ UNCHANGED <<ringVars, discarded, envVars, history>>

Notify(t) ==
  /\ CallAt(t, "notify")
  /\ notified' = TRUE
  /\ Goto(t, "idle")
  /\ ls' = IF t = LogSend THEN [ls EXCEPT !.pc = "reset"] ELSE ls
  /\ UNCHANGED <<ringVars, discarded, envVars, history>>

QueueMsg(t) ==
  \/ Acquire(t) \/ FindFull(t) \/ DropReceive(t) \/ DropFails(t)
  \/ DropReturn(t) \/ DropCount(t) \/ Complete(t) \/ Notify(t)

--------------------------------------------------------------------------------
(* mqttlog_task_logsend.                                                         *)

LsGoto(p) == ls' = [ls EXCEPT !.pc = p]

LsNotified ==
  /\ ls.pc = "wait"
  /\ notified
  /\ notified' = FALSE
  /\ LsGoto("online")
  /\ UNCHANGED <<ringVars, discarded, call, envVars, history>>

LsOnline ==
  /\ ls.pc = "online"
  /\ connected
  /\ LsGoto("check")
  /\ UNCHANGED <<ringVars, discarded, notified, call, envVars, history>>

LsCheck ==
  /\ ls.pc = "check"
  /\ LsGoto(IF discarded # 0 THEN "report" ELSE "receive")
  /\ UNCHANGED <<ringVars, discarded, notified, call, envVars, history>>

(* MQTTLOG_LOGW with the count: queue_msg follows, in this task *)
LsReport ==
  /\ ls.pc = "report"
  /\ BeginLog(LogSend)
  /\ reported' = reported + discarded
  /\ LsGoto("reporting")
  /\ UNCHANGED <<ringVars, discarded, notified, envVars, delivered, dropped, counted>>

LsReset ==
  /\ ls.pc = "reset"
  /\ discarded' = 0
  /\ LsGoto("receive")
  /\ UNCHANGED <<ringVars, notified, call, envVars, history>>

LsReceive ==
  /\ ls.pc = "receive"
  /\ Receivable # None
  /\ SetSlot(Receivable, "taken")
  /\ ls' = [pc |-> "queue", msg |-> Receivable]
  /\ UNCHANGED <<write, discarded, notified, call, envVars, history>>

LsDrained ==
  /\ ls.pc = "receive"
  /\ Receivable = None
  /\ LsGoto("wait")
  /\ UNCHANGED <<ringVars, discarded, notified, call, envVars, history>>

(* mqttmgr_queuemsg waits for room in the message queue, ... *)
LsQueue ==
  /\ ls.pc = "queue"
  /\ ls.msg \notin TooLong
  /\ outq < QueueSlots
  /\ outq' = outq + 1
  /\ delivered' = delivered \cup {ls.msg}
  /\ LsGoto("return")
  /\ UNCHANGED <<ringVars, discarded, notified, call, connected, dropped, counted, reported>>

(* ... or fails: "Dropping message on the floor" *)
LsQueueFails ==
  /\ ls.pc = "queue"
  /\ ls.msg \in TooLong
  /\ discarded' = discarded + 1
  /\ counted' = counted + 1
  /\ dropped' = dropped \cup {ls.msg}
  /\ LsGoto("return")
  /\ UNCHANGED <<ringVars, notified, call, envVars, delivered, reported>>

(* A mutation: the item is not returned to the ring buffer *)
LsReturnForgotten ==
  /\ ls.pc = "return"
  /\ ls' = [pc |-> "online", msg |-> None]
  /\ UNCHANGED <<ringVars, discarded, notified, call, envVars, history>>

LsReturn ==
  /\ ls.pc = "return"
  /\ SetSlot(ls.msg, "returned")
  /\ ls' = [pc |-> "online", msg |-> None]
  /\ UNCHANGED <<write, discarded, notified, call, envVars, history>>

LogSendTask ==
  \/ LsNotified \/ LsOnline \/ LsCheck \/ LsReport \/ LsReset \/ LsReceive \/ LsDrained
  \/ LsQueue \/ LsQueueFails \/ LsReturn

--------------------------------------------------------------------------------
(* The MQTT client and its task that publishes the message queue.                *)

ConnectionChanges ==
  /\ connected' = ~connected
  /\ UNCHANGED <<ringVars, discarded, notified, call, ls, outq, history>>

Publish ==
  /\ connected
  /\ outq > 0
  /\ outq' = outq - 1
  /\ UNCHANGED <<ringVars, discarded, notified, call, ls, connected, history>>

Aborted == \E t \in Tasks : CallAt(t, "abort")

Init ==
  /\ slot = [m \in Msgs |-> "free"]
  /\ write = 1
  /\ discarded = 0
  /\ notified = FALSE
  /\ call = [t \in Tasks |-> [pc |-> "idle", msg |-> None]]
  /\ ls = [pc |-> "wait", msg |-> None]
  /\ connected = FALSE
  /\ outq = 0
  /\ delivered = {}
  /\ dropped = {}
  /\ counted = 0
  /\ reported = 0

Running ==
  \/ \E t \in Tasks : QueueMsg(t)
  \/ \E t \in Loggers : Log(t)
  \/ LogSendTask \/ ConnectionChanges \/ Publish

Reboot ==
  /\ Aborted
  /\ slot' = [m \in Msgs |-> "free"] /\ write' = 1
  /\ discarded' = 0 /\ notified' = FALSE
  /\ call' = [t \in Tasks |-> [pc |-> "idle", msg |-> None]]
  /\ ls' = [pc |-> "wait", msg |-> None]
  /\ connected' = FALSE /\ outq' = 0
  /\ delivered' = {} /\ dropped' = {} /\ counted' = 0 /\ reported' = 0

Next == (~Aborted /\ Running) \/ Reboot

Spec == Init /\ [][Next]_vars

--------------------------------------------------------------------------------
SlotStates == {"free", "acquired", "ready", "taken", "returned"}

CallType == [pc : {"idle", "acquire", "drop", "return", "count", "complete", "notify", "abort"},
             msg : Msgs \cup {None}]

LsType == [pc : {"wait", "online", "check", "report", "reporting", "reset", "receive",
                 "queue", "return"},
           msg : Msgs \cup {None}]

TypeOK ==
  /\ slot \in [Msgs -> SlotStates]
  /\ write \in 1 .. MaxMsg + 1
  /\ discarded \in Nat
  /\ notified \in BOOLEAN
  /\ call \in [Tasks -> CallType]
  /\ ls \in LsType
  /\ connected \in BOOLEAN
  /\ outq \in 0 .. QueueSlots
  /\ delivered \subseteq Msgs
  /\ dropped \subseteq Msgs
  /\ counted \in Nat
  /\ reported \in Nat

--------------------------------------------------------------------------------
(* Properties. *)

InHand == {call[t].msg : t \in Tasks} \cup {ls.msg}

(* Every message in the buffer is in one place: waiting, in the hands of one    *)
(* task, delivered or dropped. Two receivers never get the same message, and a  *)
(* message is not dropped once it was delivered.                                *)
Accounted ==
  /\ \A m \in InState({"returned"}) : m \in delivered \cup dropped
  /\ delivered \cap dropped = {}
  /\ \A m \in InState({"acquired", "taken"}) : m \in InHand
  /\ \A t, u \in Tasks : t # u /\ call[t].msg = call[u].msg => call[t].msg = None
  /\ \A t \in Tasks : call[t].msg = ls.msg => ls.msg = None

(* While logsend sleeps there is nothing it could send, or a notification is    *)
(* pending, or a logger is about to notify it.                                  *)
NoLostWakeup ==
  ls.pc = "wait" /\ ~notified
    => Receivable = None \/ \E t \in Tasks : CallAt(t, "notify")

(* A logger that finds the buffer full makes room in it (mqttlog.c:63, "Log     *)
(* buffer full... dropping oldest and retrying").                               *)
DropMakesRoom == ~Aborted

(* With nothing under way, every drop was reported or is still to be reported   *)
(* (mqttlog.c:99, "Messages dropped from queue" with the count).                *)
DropsReported ==
  ls.pc \in {"wait", "online", "receive", "queue"}
    => reported + discarded >= counted

(* Every task runs when it can *)
FairSpec ==
  /\ Spec
  /\ \A t \in Tasks : WF_vars(~Aborted /\ QueueMsg(t))
  /\ WF_vars(~Aborted /\ LogSendTask)
  /\ WF_vars(~Aborted /\ Publish)

(* The bound on the messages never keeps logsend from its report *)
BoundNotMet == ls.pc = "report" => write + Started <= MaxMsg

(* Once the connection is back for good, the buffer empties, if no logger       *)
(* aborts: no message stays behind because its notification was consumed.       *)
Drains ==
  <>[]connected /\ [](~Aborted /\ BoundNotMet) => []<>(InState({"ready", "taken"}) = {})
==============================================================================
