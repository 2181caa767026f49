-------------------------------- MODULE OtaMgr --------------------------------
(***************************************************************************)
(* The update over the air, otamgr/otamgr.c: a command creates the update  *)
(* task unless one runs, and the task goes through the calls of            *)
(* esp_https_ota, any of which may fail. The flag that keeps a second      *)
(* update out is the handle of the task, which the task clears itself.     *)
(***************************************************************************)
EXTENDS Integers

CONSTANTS OtaTasks   (* bound: the update tasks that exist at one time *)

VARIABLES
  update_task_handle,   (* NoTask (NULL), or the task that was created last *)
  ota                   (* each task: pc, and what ota_handle points to     *)

otaVars == <<update_task_handle, ota>>

NoTask == 0

ASSUME OtaMgrAssumption == NoTask \notin OtaTasks

OtaStep(t, from, to, before, after) ==
  /\ ota[t].pc = from
  /\ ota[t].handle \in before
  /\ ota' = [ota EXCEPT ![t] = [pc |-> to, handle |-> after]]
  /\ UNCHANGED update_task_handle

--------------------------------------------------------------------------------
(* otamgr_cmd_update_request: xTaskCreate stores the handle before the task can *)
(* run, or fails.                                                               *)
OtaBusy == update_task_handle # NoTask /\ UNCHANGED otaVars

(* A mutation: a running update does not keep the next one out *)
OtaCreateUnguarded(t) ==
  /\ ota[t].pc = "none"
  /\ update_task_handle' = t
  /\ ota' = [ota EXCEPT ![t] = [pc |-> "begin", handle |-> "null"]]

OtaCreate(t) ==
  /\ update_task_handle = NoTask
  /\ ota[t].pc = "none"
  /\ update_task_handle' = t
  /\ ota' = [ota EXCEPT ![t] = [pc |-> "begin", handle |-> "null"]]

OtaCreateFails == update_task_handle = NoTask /\ UNCHANGED otaVars

--------------------------------------------------------------------------------
(* otamgr_update_task *)
OtaBegin(t)      == OtaStep(t, "begin", "desc", {"null"}, "open")
OtaBeginFails(t) == OtaStep(t, "begin", "abort", {"null"}, "null")

OtaDesc(t)       == OtaStep(t, "desc", "validate", {"open"}, "open")

(* validate_image_header: the version differs, the loop of esp_https_ota_perform *)
(* ends, the data is complete                                                   *)
OtaValidate(t)   == OtaStep(t, "validate", "perform", {"open"}, "open")
OtaPerform(t)    == OtaStep(t, "perform", "complete", {"open"}, "open")
OtaComplete(t)   == OtaStep(t, "complete", "finish", {"open"}, "open")

(* Each of the three, or the description, may fail *)
OtaGivesUp(t) ==
  \E p \in {"desc", "validate", "complete"} : OtaStep(t, p, "abort", {"open"}, "open")

(* esp_https_ota_finish closes the handle, whatever it answers: then a restart, *)
OtaFinish(t)      == OtaStep(t, "finish", "restart", {"open"}, "closed")

(* ... or on to the abort *)
OtaFinishFails(t) == OtaStep(t, "finish", "abort", {"open"}, "closed")

(* esp_https_ota_abort refuses NULL and closes an open handle, ... *)
OtaAbort(t) ==
  \/ OtaStep(t, "abort", "clear", {"null"}, "null")
  \/ OtaStep(t, "abort", "clear", {"open"}, "closed")

(* ... and frees a closed one again: the heap may notice, which is a panic.     *)
OtaAbortClosed(t) ==
  \E p \in {"clear", "restart"} : OtaStep(t, "abort", p, {"closed"}, "closed")

(* A mutation: the handle of the task is left set *)
OtaClearForgets(t) == OtaStep(t, "clear", "delete", {"null", "closed"}, "null")

OtaClear(t) ==
  /\ ota[t].pc = "clear"
  /\ update_task_handle' = NoTask
  /\ ota' = [ota EXCEPT ![t].pc = "delete"]

(* vTaskDelete *)
OtaDelete(t) ==
  /\ ota[t].pc = "delete"
  /\ ota' = [ota EXCEPT ![t] = [pc |-> "none", handle |-> "null"]]
  /\ UNCHANGED update_task_handle

OtaTask(t) ==
  \/ OtaBegin(t) \/ OtaBeginFails(t) \/ OtaDesc(t) \/ OtaValidate(t) \/ OtaPerform(t)
  \/ OtaComplete(t) \/ OtaGivesUp(t) \/ OtaFinish(t) \/ OtaFinishFails(t)
  \/ OtaAbort(t) \/ OtaAbortClosed(t) \/ OtaClear(t) \/ OtaDelete(t)

OtaInit ==
  /\ update_task_handle = NoTask
  /\ ota = [t \in OtaTasks |-> [pc |-> "none", handle |-> "null"]]

--------------------------------------------------------------------------------
OtaTypeOK ==
  /\ update_task_handle \in OtaTasks \cup {NoTask}
  /\ ota \in [OtaTasks -> [pc : {"none", "begin", "desc", "validate", "perform", "complete",
                                 "finish", "restart", "abort", "clear", "delete"},
                           handle : {"null", "open", "closed"}]]

(* At most one task writes the update partition at a time, it is the one whose  *)
(* handle keeps others out, and a task is not deleted with its handle open.     *)
OneUpdate ==
  \A t \in OtaTasks :
    /\ ota[t].handle = "open" => update_task_handle = t
    /\ ota[t].pc \in {"none", "delete"} => ota[t].handle # "open"

(* A handle is closed once (otamgr.c:126).                                      *)
ClosedOnce == \A t \in OtaTasks : ota[t].pc = "abort" => ota[t].handle # "closed"
================================================================================
