------------------------------ MODULE CronAlarm ------------------------------
(***************************************************************************)
(* alarm/alarm.c over esp_cron: the add and delete commands of the task    *)
(* that runs the MQTT client stop the cron module, edit the array of       *)
(* alarms and the sorted list of jobs, and start the module again; the     *)
(* scheduler task fires the first job of the list when it is due and puts  *)
(* it back; a launcher task per firing calls the job's callback.           *)
(*                                                                         *)
(* A pointer to a job is the number of its allocation, 0 is NULL. A time   *)
(* is a second. Allocations and the creation of tasks succeed.             *)
(***************************************************************************)
EXTENDS Integers, SequencesExt, FiniteSetsExt

CONSTANTS
  Slots,       (* CONFIG_ALARM_NUM_MAX                                           *)
  Crontabs,    (* the crontabs that commands name: each is the number of seconds *)
               (* between two of its occurrences                                 *)
  BadCrontabs, (* those among them that do not parse                             *)
  NeverCrontabs, (* those that parse and name no date, such as 30 February       *)
  Prompt,      (* are the 20 ms of cron_stop long enough for the scheduler to be *)
               (* at rest, and does it stay so until it is deleted?              *)
  MaxJob,      (* bound: jobs allocated in a behaviour                           *)
  MaxTime      (* bound: seconds                                                 *)

ASSUME CronAlarmAssumption ==
  /\ Slots \in Nat \ {0} /\ MaxJob \in Nat /\ MaxTime \in Nat
  /\ Crontabs \subseteq Nat \ {0} /\ BadCrontabs \subseteq Crontabs
  /\ NeverCrontabs \subseteq Crontabs
  /\ Prompt \in BOOLEAN

VARIABLES
  alarms,    (* state.alarms: crontab and job of each slot                       *)
  jobs,      (* the heap: what each pointer points to                            *)
  list,      (* the list of jobs                                                 *)
  running,   (* state.running                                                    *)
  handle,    (* state.handle: is there one?                                      *)
  sem,       (* the holder of state.semaphore                                    *)
  listsem,   (* the holder of linked_link_state.semaphore                        *)
  cmd,       (* the command under way                                            *)
  sched,     (* the scheduler task                                               *)
  launchers, (* launchers that have not read their job yet                       *)
  fired,     (* history: the occurrences fired since the boot, with their job    *)
  now        (* the clock                                                        *)

heap    == <<alarms, jobs, list>>
module  == <<running, handle>>
history == <<fired>>
vars == <<heap, module, sem, listsem, cmd, sched, launchers, history, now>>

Null == 0
NoAlarm == 0          (* ENABLE_UNDEFINED *)
Free == "free"        (* the holder of a mutex nobody holds *)
Scheduler == "sched"
Dead == "dead"        (* a task that was deleted: it gives no mutex back *)

Unused == [state |-> "unused", crontab |-> NoAlarm, next |-> 0, listed |-> FALSE]

--------------------------------------------------------------------------------
(* cron_next, modelled in CronExpr: the first occurrence after t, or (time_t)-1 *)
CronNext(tab, t) == IF tab \in NeverCrontabs THEN -1 ELSE (t \div tab + 1) * tab

(* cron_job_schedule, up to the insertion *)
Scheduled(heapJobs, j) ==
  [heapJobs EXCEPT ![j].next = CronNext(heapJobs[j].crontab, now)]

(* cron_job_list_insert, with the mutex: before the first job that is later *)
Inserted(l, heapJobs, j) ==
  LET later == {k \in DOMAIN l : heapJobs[j].next < heapJobs[l[k]].next}
  IN InsertAt(l, Min(later \cup {Len(l) + 1}), j)

(* cron_job_list_remove, with the mutex: the first node that holds the job *)
Removed(l, j) == IF Contains(l, j) THEN RemoveAt(l, Min({k \in DOMAIN l : l[k] = j})) ELSE l

--------------------------------------------------------------------------------
(* The commands. They run one at a time, in the task of the MQTT client.         *)

CmdGoto(p) == cmd' = [cmd EXCEPT !.pc = p]

Idle == [pc |-> "idle", op |-> "none", crontab |-> NoAlarm, handle |-> FALSE]

Fresh == {j \in DOMAIN jobs : jobs[j].state = "unused"}

SlotsOf(tab) == {i \in DOMAIN alarms : alarms[i].crontab = tab}

Command(op, tab) ==
  /\ cmd.pc = "idle"
  /\ cmd' = [pc |-> "stop", op |-> op, crontab |-> tab, handle |-> FALSE]
  /\ UNCHANGED <<heap, module, sem, listsem, sched, launchers, history, now>>

AddCommand ==
  \E tab \in Crontabs :
    /\ SlotsOf(tab) = {}
    /\ Fresh # {} \/ tab \in BadCrontabs \/ SlotsOf(NoAlarm) = {}
    /\ Command("add", tab)

DeleteCommand == \E tab \in Crontabs : Command("delete", tab)

(* cron_stop *)
StopIsStopped ==
  /\ cmd.pc = "stop"
  /\ ~running
  /\ CmdGoto("edit")
  /\ UNCHANGED <<heap, module, sem, listsem, sched, launchers, history, now>>

StopDelay ==
  /\ cmd.pc = "stop"
  /\ running
  /\ CmdGoto("lock")
  /\ UNCHANGED <<heap, module, sem, listsem, sched, launchers, history, now>>

AtRest == sched.pc \in {"none", "asleep"}

StopTakeHandle ==
  /\ cmd.pc = "lock"
  /\ sem = Free
  /\ Prompt => AtRest
  /\ cmd' = [cmd EXCEPT !.pc = "clear", !.handle = handle]
  /\ handle' = FALSE
  /\ UNCHANGED <<heap, running, sem, listsem, sched, launchers, history, now>>

(* A mutation: it tries again *)
StopTriesAgain ==
  /\ cmd.pc = "lock"
  /\ sem = Dead \/ (sem = Scheduler /\ ~Prompt)
  /\ CmdGoto("stop")
  /\ UNCHANGED <<heap, module, sem, listsem, sched, launchers, history, now>>

(* Cron_no_sempahore: the command fails *)
StopTimesOut ==
  /\ cmd.pc = "lock"
  /\ sem = Dead \/ (sem = Scheduler /\ ~Prompt)
  /\ cmd' = Idle
  /\ UNCHANGED <<heap, module, sem, listsem, sched, launchers, history, now>>

StopClear ==
  /\ cmd.pc = "clear"
  /\ running' = FALSE
  /\ CmdGoto("delete")
  /\ UNCHANGED <<heap, handle, sem, listsem, sched, launchers, history, now>>

NoScheduler == [pc |-> "none", job |-> Null, array |-> <<>>, todo |-> 0]

AfterDeletion(holder) == IF holder = Scheduler THEN Dead ELSE holder

(* vTaskDelete: the mutexes of the task stay taken. The scheduler may have ended  *)
(* by itself since its handle was taken: then nothing comes of it, ...            *)
StopDelete ==
  /\ cmd.pc = "delete"
  /\ cmd' = [cmd EXCEPT !.pc = "edit", !.handle = FALSE]
  /\ IF cmd.handle
       THEN /\ sched' = NoScheduler
            /\ sem' = AfterDeletion(sem)
            /\ listsem' = AfterDeletion(listsem)
       ELSE UNCHANGED <<sched, sem, listsem>>
  /\ UNCHANGED <<heap, module, launchers, history, now>>

(* The alarms are in RAM only: none after a boot *)
NoAlarms == [i \in 1 .. Slots |-> [crontab |-> NoAlarm, job |-> Null]]
NoJobs   == [j \in 1 .. MaxJob |-> Unused]

(* ... or, the handle being that of freed memory, the device panics and restarts. *)
StopDeleteStale ==
  /\ cmd.pc = "delete"
  /\ cmd.handle /\ sched.pc = "none"
  /\ alarms' = NoAlarms /\ jobs' = NoJobs /\ list' = <<>>
  /\ running' = FALSE /\ handle' = FALSE
  /\ sem' = Free /\ listsem' = Free
  /\ cmd' = Idle
  /\ sched' = NoScheduler
  /\ launchers' = {} /\ fired' = {}
  /\ UNCHANGED now

(* alarm_add, with the module stopped. cron_job_create returns NULL for a        *)
(* crontab that does not parse; a failed insertion is ignored.                   *)
AddAlarm ==
  /\ cmd.pc = "edit" /\ cmd.op = "add"
  /\ SlotsOf(NoAlarm) # {}
  /\ LET i == Min(SlotsOf(NoAlarm))
         tab == cmd.crontab
         j == IF tab \in BadCrontabs THEN Null ELSE Min(Fresh)
         created == Scheduled([jobs EXCEPT ![j] = [Unused EXCEPT !.state = "live",
                                                                 !.crontab = tab]], j)
     IN /\ alarms' = [alarms EXCEPT ![i] = [crontab |-> tab, job |-> j]]
        /\ IF j = Null THEN UNCHANGED <<jobs, list>>
           ELSE IF listsem = Free
             THEN /\ list' = Inserted(list, created, j)
                  /\ jobs' = [created EXCEPT ![j].listed = TRUE]
             ELSE jobs' = created /\ UNCHANGED list
  /\ CmdGoto("start")
  /\ UNCHANGED <<module, sem, listsem, sched, launchers, history, now>>

(* A mutation: an early return *)
AddNoSlotReturns ==
  /\ cmd.pc = "edit" /\ cmd.op = "add"
  /\ SlotsOf(NoAlarm) = {}
  /\ cmd' = Idle
  /\ UNCHANGED <<heap, module, sem, listsem, sched, launchers, history, now>>

AddNoSlot ==
  /\ cmd.pc = "edit" /\ cmd.op = "add"
  /\ SlotsOf(NoAlarm) = {}
  /\ CmdGoto("start")
  /\ UNCHANGED <<heap, module, sem, listsem, sched, launchers, history, now>>

(* alarm_delete and cron_job_destroy *)
Deleting == Min(SlotsOf(cmd.crontab))

Unlistable(j) == ~jobs[j].listed \/ (listsem = Free /\ Contains(list, j))

Freed(j) == [jobs EXCEPT ![j].state = "freed"]

(* A mutation: the job is freed and stays in the list *)
DeleteAlarmKeepsJob ==
  /\ cmd.pc = "edit" /\ cmd.op = "delete"
  /\ SlotsOf(cmd.crontab) # {}
  /\ LET j == alarms[Deleting].job
     IN /\ j # Null /\ Unlistable(j)
        /\ jobs' = Freed(j)
  /\ alarms' = [alarms EXCEPT ![Deleting] = [crontab |-> NoAlarm, job |-> Null]]
  /\ CmdGoto("start")
  /\ UNCHANGED <<list, module, sem, listsem, sched, launchers, history, now>>

DeleteAlarm ==
  /\ cmd.pc = "edit" /\ cmd.op = "delete"
  /\ SlotsOf(cmd.crontab) # {}
  /\ LET j == alarms[Deleting].job
     IN /\ j # Null /\ Unlistable(j)
        /\ list' = IF jobs[j].listed THEN Removed(list, j) ELSE list
        /\ jobs' = Freed(j)
  /\ alarms' = [alarms EXCEPT ![Deleting] = [crontab |-> NoAlarm, job |-> Null]]
  /\ CmdGoto("start")
  /\ UNCHANGED <<module, sem, listsem, sched, launchers, history, now>>

(* No job (Cron_bad_job), or a job that is not found in the list and freed all   *)
(* the same: "Unable to remove cronjob!", and the command ends here.             *)
DeleteFails ==
  /\ cmd.pc = "edit" /\ cmd.op = "delete"
  /\ SlotsOf(cmd.crontab) # {}
  /\ LET j == alarms[Deleting].job
     IN \/ j = Null /\ UNCHANGED jobs
        \/ j # Null /\ ~Unlistable(j) /\ jobs' = Freed(j)
  /\ cmd' = Idle
  /\ UNCHANGED <<alarms, list, module, sem, listsem, sched, launchers, history, now>>

DeleteNotFound ==
  /\ cmd.pc = "edit" /\ cmd.op = "delete"
  /\ SlotsOf(cmd.crontab) = {}
  /\ CmdGoto("start")
  /\ UNCHANGED <<heap, module, sem, listsem, sched, launchers, history, now>>

(* cron_start: the handle is written before the new task runs, ... *)
StartCreate ==
  /\ cmd.pc = "start"
  /\ ~running /\ ~handle
  /\ handle' = TRUE
  /\ sched' = [NoScheduler EXCEPT !.pc = "sort"]
  /\ CmdGoto("started")
  /\ UNCHANGED <<heap, running, sem, listsem, launchers, history, now>>

(* ... the flag afterwards *)
StartSetRunning ==
  /\ cmd.pc = "started"
  /\ running' = TRUE
  /\ cmd' = Idle
  /\ UNCHANGED <<heap, handle, sem, listsem, sched, launchers, history, now>>

CommandSteps ==
  \/ StopIsStopped \/ StopDelay \/ StopTakeHandle \/ StopTimesOut \/ StopClear \/ StopDelete
  \/ AddAlarm \/ AddNoSlot \/ DeleteAlarm \/ DeleteFails \/ DeleteNotFound
  \/ StartCreate \/ StartSetRunning

--------------------------------------------------------------------------------
(* The scheduler task. A call on the list takes the mutex of the list in one     *)
(* step and ends in another; with the mutex lost it fails after a time.          *)

SchedGoto(p) == sched' = [sched EXCEPT !.pc = p]

TakeList ==
  /\ sched.pc \in {"sortRemove", "sortInsert", "remove", "insert"}
  /\ listsem = Free
  /\ listsem' = Scheduler
  /\ UNCHANGED <<heap, module, sem, cmd, sched, launchers, history, now>>

(* A list call returns: l is the list after it, f whether it failed *)
ListReturns(l) ==
  \/ listsem = Scheduler /\ listsem' = Free /\ list' = l
  \/ listsem = Dead /\ UNCHANGED <<listsem, list>>

(* cron_job_sort, which does nothing once running is set *)
SortRefused ==
  /\ sched.pc = "sort"
  /\ running
  /\ SchedGoto("loop")
  /\ UNCHANGED <<heap, module, sem, listsem, cmd, launchers, history, now>>

SortCount ==
  /\ sched.pc = "sort"
  /\ ~running
  /\ sched' = [sched EXCEPT !.pc = IF list = <<>> THEN "loop" ELSE "sortRemove",
                            !.todo = Len(list)]
  /\ UNCHANGED <<heap, module, sem, listsem, cmd, launchers, history, now>>

SortRemove ==
  /\ sched.pc = "sortRemove"
  /\ ListReturns(Tail(list))
  /\ sched' = [sched EXCEPT !.array = Append(@, Head(list)), !.todo = @ - 1,
                            !.pc = IF sched.todo = 1 THEN "sortSchedule" ELSE "sortRemove"]
  /\ UNCHANGED <<alarms, jobs, module, sem, cmd, launchers, history, now>>

SortSchedule ==
  /\ sched.pc = "sortSchedule"
  /\ jobs' = Scheduled(jobs, Head(sched.array))
  /\ SchedGoto("sortInsert")
  /\ UNCHANGED <<alarms, list, module, sem, listsem, cmd, launchers, history, now>>

SortInsert ==
  /\ sched.pc = "sortInsert"
  /\ ListReturns(Inserted(list, jobs, Head(sched.array)))
  /\ sched' = [sched EXCEPT !.array = Tail(@),
                            !.pc = IF Len(sched.array) = 1 THEN "loop" ELSE "sortSchedule"]
  /\ UNCHANGED <<alarms, jobs, module, sem, cmd, launchers, history, now>>

LoopNoJobs ==
  /\ sched.pc = "loop"
  /\ list = <<>>
  /\ SchedGoto("end")
  /\ UNCHANGED <<heap, module, sem, listsem, cmd, launchers, history, now>>

(* The first job is due: start its launcher *)
LoopFire ==
  /\ sched.pc = "loop"
  /\ list # <<>>
  /\ LET j == Head(list)
         occurrence == [job |-> j, at |-> jobs[j].next]
     IN /\ now >= jobs[j].next
        /\ launchers' = launchers \cup {occurrence}
        /\ fired' = fired \cup {occurrence}
        /\ sched' = [sched EXCEPT !.pc = "lock", !.job = j]
  /\ UNCHANGED <<heap, module, sem, listsem, cmd, now>>

LoopSleep ==
  /\ sched.pc = "loop"
  /\ list # <<>>
  /\ now < jobs[Head(list)].next
  /\ sched' = [sched EXCEPT !.pc = "asleep", !.job = Head(list)]
  /\ UNCHANGED <<heap, module, sem, listsem, cmd, launchers, history, now>>

Stopping == cmd.pc \in {"clear", "delete"}

(* A mutation: the scheduler sleeps until it is deleted *)
WakeNever == FALSE /\ UNCHANGED vars

(* vTaskDelay ends *)
Wake ==
  /\ sched.pc = "asleep"
  /\ now >= jobs[sched.job].next
  /\ ~(Prompt /\ Stopping)
  /\ SchedGoto("loop")
  /\ UNCHANGED <<heap, module, sem, listsem, cmd, launchers, history, now>>

FireLock ==
  /\ sched.pc = "lock"
  /\ sem = Free
  /\ sem' = Scheduler
  /\ SchedGoto("remove")
  /\ UNCHANGED <<heap, module, listsem, cmd, launchers, history, now>>

(* The job stays where it is, and due *)
FireLockTimesOut ==
  /\ sched.pc = "lock"
  /\ sem = Dead
  /\ SchedGoto("loop")
  /\ UNCHANGED <<heap, module, sem, listsem, cmd, launchers, history, now>>

FireRemove ==
  /\ sched.pc = "remove"
  /\ ListReturns(Removed(list, sched.job))
  /\ SchedGoto("schedule")
  /\ UNCHANGED <<alarms, jobs, module, sem, cmd, launchers, history, now>>

(* A mutation: the job keeps its next execution *)
FireScheduleKeeps ==
  /\ sched.pc = "schedule"
  /\ SchedGoto("insert")
  /\ UNCHANGED <<heap, module, sem, listsem, cmd, launchers, history, now>>

FireSchedule ==
  /\ sched.pc = "schedule"
  /\ jobs' = Scheduled(jobs, sched.job)
  /\ SchedGoto("insert")
  /\ UNCHANGED <<alarms, list, module, sem, listsem, cmd, launchers, history, now>>

(* cron_job_list_insert, cron_job_unlock *)
FireInsert ==
  /\ sched.pc = "insert"
  /\ ListReturns(Inserted(list, jobs, sched.job))
  /\ sem' = Free
  /\ SchedGoto("loop")
  /\ UNCHANGED <<alarms, jobs, module, cmd, launchers, history, now>>

(* A mutation: the handle stays *)
EndKeepsHandle ==
  /\ sched.pc = "end"
  /\ sem = Free
  /\ running' = FALSE
  /\ sched' = NoScheduler
  /\ UNCHANGED <<heap, handle, sem, listsem, cmd, launchers, history, now>>

(* No jobs are left: the task deletes itself *)
End ==
  /\ sched.pc = "end"
  /\ sem = Free
  /\ running' = FALSE /\ handle' = FALSE
  /\ sched' = NoScheduler
  /\ UNCHANGED <<heap, sem, listsem, cmd, launchers, history, now>>

EndTimesOut ==
  /\ sched.pc = "end"
  /\ sem = Dead
  /\ sched' = NoScheduler
  /\ UNCHANGED <<heap, module, sem, listsem, cmd, launchers, history, now>>

SchedulerTask ==
  \/ TakeList \/ SortRefused \/ SortCount \/ SortRemove \/ SortSchedule \/ SortInsert
  \/ LoopNoJobs \/ LoopFire \/ LoopSleep \/ Wake \/ FireLock \/ FireLockTimesOut
  \/ FireRemove \/ FireSchedule \/ FireInsert \/ End \/ EndTimesOut

(* cron_schedule_job_launcher reads job->callback; the callback uses no job *)
Launcher ==
  /\ \E l \in launchers : launchers' = launchers \ {l}
  /\ UNCHANGED <<heap, module, sem, listsem, cmd, sched, history, now>>

Tick ==
  /\ now < MaxTime
  /\ now' = now + 1
  /\ UNCHANGED <<heap, module, sem, listsem, cmd, sched, launchers, history>>

Init ==
  /\ alarms = NoAlarms /\ jobs = NoJobs /\ list = <<>>
  /\ running = FALSE /\ handle = FALSE
  /\ sem = Free /\ listsem = Free
  /\ cmd = Idle
  /\ sched = NoScheduler
  /\ launchers = {} /\ fired = {}
  /\ now = 0

Step ==
  \/ AddCommand \/ DeleteCommand \/ CommandSteps
  \/ SchedulerTask \/ Launcher \/ Tick

Next == Step \/ StopDeleteStale

Spec == Init /\ [][Next]_vars

(* Commands and the scheduler run when they can, and time passes *)
FairSpec ==
  /\ Spec
  /\ WF_vars(CommandSteps) /\ WF_vars(SchedulerTask) /\ WF_vars(Launcher) /\ WF_vars(Tick)

--------------------------------------------------------------------------------
Pointers == 1 .. MaxJob
Times    == Nat \cup {-1}
Holders  == {Free, Scheduler, Dead}

AlarmType == [crontab : Crontabs \cup {NoAlarm}, job : Pointers \cup {Null}]

JobType == [state : {"unused", "live", "freed"}, crontab : Crontabs \cup {NoAlarm},
            next : Times, listed : BOOLEAN]

CmdType == [pc : {"idle", "stop", "lock", "clear", "delete", "edit", "start", "started"},
            op : {"none", "add", "delete"}, crontab : Crontabs \cup {NoAlarm},
            handle : BOOLEAN]

SchedType == [pc : {"none", "sort", "sortRemove", "sortSchedule", "sortInsert", "loop",
                    "asleep", "lock", "remove", "schedule", "insert", "end"},
              job : Pointers \cup {Null}, array : Seq(Pointers), todo : 0 .. MaxJob]

TypeOK ==
  /\ alarms \in [1 .. Slots -> AlarmType]
  /\ jobs \in [Pointers -> JobType]
  /\ list \in Seq(Pointers)
  /\ running \in BOOLEAN /\ handle \in BOOLEAN
  /\ sem \in Holders /\ listsem \in Holders
  /\ cmd \in CmdType
  /\ sched \in SchedType
  /\ launchers \subseteq fired
  /\ fired \subseteq [job : Pointers, at : Times]
  /\ now \in 0 .. MaxTime

--------------------------------------------------------------------------------
(* Properties. *)

(* The jobs the scheduler took out of the list and will put back *)
InHand ==
  ToSet(sched.array)
    \cup (IF sched.pc \in {"schedule", "insert"} THEN {sched.job} ELSE {})

AlarmJobs == {alarms[i].job : i \in DOMAIN alarms} \ {Null}

(* The array of alarms and the list agree: every alarm with a job has it in the *)
(* list, or the scheduler is about to put it back, once; nothing else is in the *)
(* list, no job in it was freed, and no job is lost.                            *)
ListFollowsAlarms ==
  /\ ToSet(list) \cup InHand = AlarmJobs
  /\ ToSet(list) \cap InHand = {}
  /\ IsInjective(list)
  /\ AlarmJobs = {j \in DOMAIN jobs : jobs[j].state = "live"}

(* A job is fired when it is due, not before, and once for each occurrence: no  *)
(* stop and start of the module in between makes it fire again.                 *)
FiresOnce ==
  [][\A l \in launchers' \ launchers : l \notin fired /\ l.at <= now]_vars

(* A job that is due once the scheduler has sorted the list fires, also when    *)
(* others are due before it, unless a command stops the scheduler.              *)
DueFires ==
  \A j \in Pointers, t \in 0 .. MaxTime :
    (Contains(list, j) /\ jobs[j].next = t /\ now >= t /\ sched.pc \in {"loop", "asleep"})
      ~> ([job |-> j, at |-> t] \in fired \/ cmd.pc # "idle")

(* However slow the scheduler is: the list holds only jobs of alarms, and every *)
(* job that was not freed belongs to an alarm and can be deleted.               *)
NoLeak ==
  /\ ToSet(list) \subseteq AlarmJobs
  /\ \A j \in DOMAIN jobs : jobs[j].state = "live" => j \in AlarmJobs

(* Once a command has stopped the module and edited the alarms, cron_start does *)
(* not refuse to start it (alarm.c:234, "failed starting cron system").         *)
StartIsAccepted == cmd.pc = "start" => ~running /\ ~handle

(* Every command ends, and with it the task of the MQTT client goes on, also    *)
(* when a mutex was lost with a scheduler that was deleted.                     *)
CommandsEnd == cmd.pc # "idle" ~> cmd.pc = "idle"

(* A task gives its mutexes back before it is deleted (cron.c:328, "this give   *)
(* shall be placed before the vTaskDelete").                                    *)
GivesBeforeDeletion == sem # Dead /\ listsem # Dead

(* A destroyed job is removed from scheduling (cron.h:115, "Deallocates, and    *)
(* remove from scheduling"): no launcher is about to read it.                   *)
NoLauncherOfDestroyed == \A l \in launchers : jobs[l.job].state = "live"

(* Cron is stopped only for the modification (alarm.c:256, "Before any cron     *)
(* modification it must be stopped"): between commands the scheduler runs if    *)
(* any alarm has a job.                                                         *)
AlarmsAreScheduled == cmd.pc = "idle" /\ AlarmJobs # {} => sched.pc # "none"

(* next_execution "holds the time when it will run next" (cron.h:63): it moves  *)
(* on only once the job was fired.                                              *)
NextIsKept ==
  [][\A j \in Pointers :
       jobs[j].state = "live" /\ jobs'[j].next # jobs[j].next
         => [job |-> j, at |-> jobs[j].next] \in fired]_vars
==============================================================================
