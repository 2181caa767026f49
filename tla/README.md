# Verification of the iot-boards sensor firmware

This directory holds TLA+ models of the firmware in `src/esp-idf-humidity`, the TLC
configurations that check them on small instances, and proofs that TLAPS checks for every
value of the constants. Paths below are relative to `src/esp-idf-humidity/components/` unless
they start with `src/`.

## 1. The system

The firmware runs on an ESP32 or ESP32-S2 under FreeRTOS (two cores on the ESP32). It polls I2C
sensors, buffers the readings through losses of the network, and publishes them over MQTT;
it takes commands (protobuf over MQTT), runs alarms, drives an LED ring, updates itself over
HTTP and sleeps on a touch button.

| Component | State it keeps | Operations | Talks to |
|---|---|---|---|
| sensormgr (`sensormgr/sensormgr.c`) | ring buffer, item count, `has_files`, files in `/log_data`, options in NVS | tasks *sensorread*, *filewriter*, *queuesend*; `sensormgr_start/stop/register_sensor`; two command handlers | drivers (callbacks), event group `mqttmgr_events`, `mqttmgr_queuemsg` |
| mqttmgr (`mqttmgr/mqttmgr.c`) | event group, message queue, MQTT client, retry parameters, registered handlers | event handler, *watchdog* task, *msgqueue* task, `queuemsg`, `start/stop`, `reconnect_now`, command dispatch | ESP-MQTT client, wifi, all command handlers |
| mqttlog (`mqttmgr/mqttlog.c`) | log ring buffer, `msgs_discarded` | `mqttlog_log_render` from any task, *logsend* task | `mqttmgr_queuemsg`, event group |
| backoffAlgorithm | jitter bound, attempts | `GetNextBackoff`, `InitializeParams` | used by mqttmgr |
| alarm (`alarm/alarm.c`) | array of at most `CONFIG_ALARM_NUM_MAX` alarms, NVS | add, list, delete commands | cron |
| esp_cron (`esp_cron/cron.c`, `library/jobs`) | sorted list of jobs, run flag, task | create, destroy, start, stop, schedule, unschedule, scheduler task and job launchers | alarm callbacks |
| ccronexpr (`esp_cron/library/ccronexpr`) | a `struct tm` during a search | parse an expression, next and previous date | used by cron |
| blinky (`blinky/blinky.c`) | queue of animations, frame counter, repeat count | LED task, command handler, `blinky_play` | alarm, touchbtn, RMT driver |
| otamgr (`otamgr/otamgr.c`) | handle of the update task, handle of the update | update task, command | `esp_https_ota`, restart |
| i2cdev, sht4x, shtc3, ltr390 | a mutex per device; the driver's copy of the chip's settings | init, measure, get and set options | sensormgr calls `measure`, the MQTT task the commands |
| touchbtn | queue of clicks | deep sleep, wake the network | `mqttmgr_stop`, `sensormgr_stop`, `mqttmgr_reconnect_now` |
| main, wifi_provision, uuid | none | boot order | everything |
| proto, backend, `test/utils` | none | message descriptions, deployment, hand tools | - |

What is hard in it, and what makes each part correct:

* **sensormgr.** Three tasks share a ring buffer in which an item keeps its place until it is
  given back, files that one task writes and another reads and removes, a flag that says there
  are files, a counter, and seven event bits set and cleared from five tasks. Correct: no reading
  disappears or goes out twice, the count is exact, the partition keeps its reserve, and no
  set of tasks sleeps for ever waiting for each other.
* **mqttmgr.** `CONNECTED`, `NOTCONNECTED`, `DISCONNECTED` and `STARTED` are set in separate
  calls by the client's task and the watchdog; the watchdog stops the radio on stale counts.
  Correct: bits follow the connection, a stopped client is always started again, the back-off
  stays within its bounds.
* **mqttlog.** Any task may log; the buffer drops its oldest entry when full, unless the sender
  holds it. Correct: no lost wake-up, order kept, drops accounted for.
* **alarm and cron.** Commands stop the scheduler, edit the list and start it again, while the
  scheduler task and the launchers of jobs use the list. Correct: the array and the list
  agree, the list is sorted, a job that was deleted does not run, the scheduler is on
  when there are alarms.
* **ccronexpr.** The search for a date goes field by field, resets lower fields, and calls itself; the
  local calendar renormalises under it, with an hour left out in March and one that comes twice in November. Correct: the date is
  later, allowed, and none is skipped.
* **Drivers.** The sensor task and the command handlers use one chip; the mutex covers a register,
  not the driver's copy of it; most transfers of the LTR390 are not checked. Correct: a mutex is
  given back on every path, driver and chip agree, a reading carries the unit it was taken in, the
  heater is not left on.
* **blinky, otamgr, touchbtn, dispatch.** One queue of animations for commands, alarms and the button;
  an update task with six exits and one flag; a deep sleep that stops the tasks of other components one
  call at a time. Correct: no light is left behind, one update at a time, no reading lost asleep,
  every command answered.

`PROJECT.json` lists every component with its status and every hazard with its line.

## 2. Plan

| # | Module | What | Run |
|---|---|---|---|
| 1 | `SensorMgr` | the measurement pipeline | `pipeline_safety`, `pipeline_live`, `reader_removes_unpublished`, `all_tasks_asleep` |
| 2 | `SensorMgrProofs` | types, conservation, single delivery, exact count, the drain of a full disk, the reserve, that the pipeline implements `StoreForward`, and what follows from it | proof |
| 3 | `StoreForward` | the channel the pipeline implements | `pipeline_live`, proof |
| 4 | `Backoff`, `BackoffCalls`, `BackoffProofs` | the back-off algorithm, for every parameter | `backoff_bounds`, proof |
| 5 | `MqttConn`, `MqttConnProofs` | client bits, watchdog, back-off, start, reconnect_now; uses `Backoff` | `connection`, proof |
| 6 | `MqttLog`, `MqttLogProofs` | log buffer, droppers, logsend | `mqttlog`, proof |
| 7 | `CronAlarm`, `CronAlarmProofs` | alarm commands over the scheduler and the job list | `alarms_prompt`, `alarms_any`, proof |
| 8 | `CronCalendar`, `CronExpr`, `CronFirings`, `CronFiringsProofs`, `MCCronExpr` | the parser and the search for dates | `cron_dates`, proof |
| 9 | `Sensors`, `SensorsProofs` | the drivers of the three sensors, a step per I2C transfer | `sensors`, proof |
| 10 | `Blinky`, `OtaMgr`, `Device`, `MCDevice`, `DeviceProofs` | light and update, composed with dispatch, button, deep sleep and restart | `device`, proof |

All of it is done. What is left, in this order: the depth of the search of `CronExpr`, so that `NeverMeansNever` and
`PrevUndoesNext` can be proved from a bound on it; the retries of the task that publishes.

## 3. The model of the pipeline: `SensorMgr`

Correspondence with the code:

* `events` is the event group; `AwaitBits` a `xEventGroupWaitBits` for all bits without
  clearing, `SetBits` and `ClearBits` one call each, never merged with a neighbour.
* `ring` is the no-split ring buffer of ESP-IDF, external code, as two positions. An item is taken by `xRingbufferReceive` and keeps its
  slot until `vRingbufferReturnItem`; slots become free in order, so that one held item blocks
  all later ones (`Oldest`, `FreeSlots`).
* `iter[c]` is the `sensor_iterator_t` of a consumer. The iterator is shared code: one action
  per access to shared state, `c` ranging over *filewriter* (`fw`) and *queuesend* (`qs`).
  `"fw"` never takes the file branches because `read_files` is false.
* `sr`, `fw`, `qs` are program counters and locals of the tasks. `fw.data` is what the open
  `FILE` has been given; it reaches `files` at `fclose`. `fw.room` is `bytes_free`, with the wrap-around of `uint32_t`.
* `net`, `outq` are the client and the message queue as far as this component sees them.
* `sent` and `lost` are history: what was handed to `mqttmgr_queuemsg`, and what a truncation
  or a removal erased.
* `Init` is the state after `sensormgr_init`, with a file of an earlier boot or without one;
  the wall clock may start at the very second in the name of that file (no SNTP answer: the
  clock starts at 1970).

Abstractions, each of which leaves the control as it is:

* A reading is the number of its measurement. All readings have one size, a slot or a disk unit.
* `xRingbufferSendAcquire` and `xRingbufferSendComplete` are one step: *sensorread* is
  the only producer.
* A `FILE` opened for reading sees the directory entry of the moment of `fopen`, as FatFs
  does: a file still being written for the first time has size 0. After a truncation the old
  clusters may be reused, so a stale `FILE` may end early at any point (`IterEndOfFile`), or hold bytes that are no reading, at which
  the firmware aborts (`IterAborts`: the lengths tested at `:202` and `:209`); what it still returns is taken to be the old data. The abort
  stops every task, and the next boot is another behaviour.
* Which file is first in the directory is a free choice. `STARTED` is only off while `CONNECTED` is, so the restart of
  the client by the watchdog is one step.
* Delays (`vTaskDelay`) and the retry of `cJSON_PrintUnformatted` when memory is short are left out, as
  is the abort of the sender on a message that is too large. `LOWWATER_ITEM_CNT`, which a
  command can change, is a constant.

### Runs

| Run | Question | Instance | Result |
|---|---|---|---|
| `pipeline_safety` | is anything lost, delivered twice, miscounted, or everyone asleep; is the reserve kept, when drains, truncations and removals of files meet? | 2 slots, 1 disk unit, 3 readings, 2 seconds | holds, 3.9 M states |
| `pipeline_live` | is polling resumed; is the pipeline the channel of `StoreForward`? | 2 slots, 2 readings, batches of two, with one reading in an old file or none, fairness | holds, 370 962 states |
| `reader_removes_unpublished` | is a removed file published (`:189`)? | 2 readings | violated |
| `all_tasks_asleep` | does pausing "make sure the system wants to drain the queue" (`:337`)? | 2 slots, 3 readings, a disk full from an earlier boot | violated |

Four more configurations find a counterexample when run by hand. They are kept because the hazards
refer to them, and are not among the runs, which answer the questions above. The other
components have such configurations too, listed in their sections:

| Configuration | Property | What the code says | What TLC shows |
|---|---|---|---|
| `SensorMgrBlocked.cfg` | `BlockedReaderResumes` | "wait for that to come back, and for the buffers to drain" (`:475-480`) | the file writer sleeps with its last item still held: the slot is never freed and the reader waits for good |
| `SensorMgrTruncates.cfg` | `TruncatesNothing` | a "timestamped file" (`:352`) | two drains in a second, or a clock back at 1970, open the same name with `"wb"` and erase undelivered readings |
| `SensorMgrHasFiles.cfg` | `HasFilesAccurate` | "Are there files that need to be drained?" (`:43`) | the sender clears the flag after the file writer set it |
| `SensorMgrLostHigh.cfg` | `FullOfflineIsBuffered` | "At highwater and disconnected, buffer to file" (`:303`) | HIGHWATER is cleared on a free size read earlier; the file writer is not woken |

The bounds. Two slots let an item be held while another waits behind it, and let a drain be cut
by the limit and by emptiness; one disk unit with a reserve of one lets the file writer write one
reading, go over, and pause. Three readings are enough for one delivered, one held and one
unread; files of an earlier boot are in `pipeline_live`, and in the proofs, which cover every value of the constants; two seconds let names collide or differ. `MaxReading`, `MaxTime` and `MaxOld` bound the
behaviours and stand in the guards `ring.write <= MaxReading` and `now' \in now .. MaxTime`; the proofs hold for
every value of them.

Fairness. Each task runs when it can. FreeRTOS readies a task as soon as the bits it
waits for are all set, even if they are cleared again before it runs, so the waits need strong fairness, and a task is at
one wait at a time. Nothing is assumed of the network but, where a property says so, that the
connection comes back for good (`StaysUp`); nothing of the sensors.

`StoresAndForwards` is a refinement: under a mapping of state, every step of the pipeline is a step of
`StoreForward` or none. `memory` is what is unread, held or in a batch; `disk` what is in files, given to
an open one, or read from one and not yet in the batch. An `fwrite` is `Spill`, putting a reading from a file
into the batch `Load`, a batch handed to the queue `Send`, a truncation or a removal `Erase`. It says of the whole pipeline what `Conservation` and `NoSecondDelivery` say
reading by reading, and that a batch is never empty, too long, or sent twice. Memory and disk are each read off the state: what
is unread, what a consumer has received and not written or batched yet (`Pending`), and the batch; what is being written, what the sender has still to read of its
file, and the other files. That the two do not meet, nor meet what was sent, is something the pipeline must do. The run has two
readings and batches of two; theorem `Implements` is for all sizes.

That a drain to a file ends although the reader fills the ring buffer again meanwhile (`bytes_free`, `:380`) takes more readings than this model can have
in a run with fairness: it is `WritingEnds` of `Device` (section 9), whose readings are a count without a bound.

**Paused for ever.** A file writer that filled the disk still holds an item of the ring buffer when it pauses, and the item is
counted: the sender cannot take the count for 0 and clear the LOWWATER set at `:339` before it wakes. That is `PausedAsksForDrain`,
proved below. A file writer that finds the disk full when it wakes, from an earlier boot, holds nothing. Then
the sender, returning its last item while *sensorread* has stored a reading and not yet counted it (`:496`), clears LOWWATER (`:234`) and ends its batch, and
all three tasks sleep: `DrainIsWanted` fails in 46 steps. `PollingResumes` therefore holds of a
file writer that filled the disk, and says so in its premise.

What these violations have in common: flags are computed from state read
earlier (has_files, HIGHWATER), and the file name stands for the identity of a file.

## 4. The connection: `Backoff`, `BackoffCalls`, `MqttConn`

`Backoff` translates `backoffAlgorithm-1.0.1/source/backoff_algorithm.c` function by function; a context
is a record and integers keep their width (`Uint16`, `Uint32`). `BackoffCalls` is a caller that
initialises a context with any parameters, draws delays and may start over: `backoff_bounds` checks
it with 3-bit delays and 4-bit counters, where bases above the maximum, odd maxima, zero and exhausted
attempts all occur. `JitterDoubles` compares
the bound with the base doubled once per delay granted (`grown`, a history variable), cut off at the maximum.

`MqttConn` is the event handler, the watchdog, `mqttmgr_start` and `mqttmgr_reconnect_now` of
`mqttmgr/mqttmgr.c`. `bits` is the event group, `client` and the events it dispatches are the
external ESP-MQTT client, `reach` is the network. The handler has one step per call on the event
group or on the shared back-off context (`event` is its place), the watchdog likewise (`wd`).
The call of `BackoffAlgorithm_GetNextBackoff` in the watchdog is three steps (delay,
test, double), as the handler resets the same context without a lock; a value read twice in the source
may be read once or twice. `esp_mqtt_client_stop` waits for the client's task to finish the event
under way, and no event starts after it; a failed attempt to connect is a DISCONNECTED event, as
in that client. `mqttmgr_stop`, which only the deep sleep calls, is in `Device`; the retries of the task that publishes
are not modelled.

| Run | Question | Result |
|---|---|---|
| `backoff_bounds` | does the bound double and saturate without wrapping? | holds |
| `connection` | do the bits follow the client, does the bound survive the race of reset and doubling; is a stopped client started again; does a reachable server end in a lasting connection; do endless disconnections end in back-offs; does `reconnect_now` reset the back-off? | holds, 51 K states |

By hand: `MqttConnAsleep.cfg` violates `AsleepIsNotConnected` ("set if the system is NOT currently connected",
`mqttmgr.h:13`): two disconnections counted after the client reconnected make the watchdog stop a connected
client; it clears CONNECTED, relies on the event handler for NOTCONNECTED, and neither is set during the back-off.

Bounds: the state is finite by itself; base 1 and maximum 6 give the bound the values 1, 2, 4 and 6,
so that the doubling and the saturation both happen.

Fairness: weak fairness of each task and of the client's attempts to connect. The watchdog's wait
needs no more: the bits it waits for are cleared by itself only. Nothing is assumed of the network but
what a property says (`EventuallyOnline`: reachable for good).

## 5. The log: `MqttLog`

The ring buffer is the one of `SensorMgr`, but here any task sends, so a slot is *acquired* before it
is *ready*, any logger may receive (to drop), and `slot` keeps the state of every slot used.
`call[t]` is `mqttlog_queue_msg` with `mqttlog_drop_msg` in task `t`; logsend is one of the tasks, as it logs by
the same function. `ls` is its loop. `TooLong` are messages the message queue refuses. `abort()` is a restart (`Reboot`).
The rendering of a message is data; all messages take one slot.

| Run | Question | Result |
|---|---|---|
| `mqttlog` | is every message in one pair of hands, is a wake-up lost, does the buffer empty once the connection is back? | holds, 90 K states |

By hand: `MqttLogDrops.cfg` violates `DropMakesRoom` ("dropping oldest and retrying", `mqttlog.c:63`): while logsend
waits with the head of the buffer in hand, dropping what is behind it frees nothing; the logger drops it all, finds nothing
more to drop, and aborts. `MqttLogDrops.cfg` violates `DropsReported` ("Messages dropped from queue" with the count,
`mqttlog.c:99`): what is dropped between the report and the reset of the counter is never reported. The configuration
names the second; the first is checked with the line that is commented out there.

Bounds: two slots and two loggers let one message be held while another waits behind it and both
loggers be inside the buffer; five messages let it be filled, dropped from and filled again.
`MaxMsg` stands in the guard `BeginLog`; `Drains` leaves out the behaviours in which that bound stops the
report (`BoundNotMet`). Fairness is weak, per task: a FreeRTOS task that waits for a notification
or a bit and is not starved gets there; `connected` is assumed on for good where `Drains` says so.

## 6. Alarms: `CronAlarm`

The commands of `alarm/alarm.c` run one at a time in the task of the MQTT client (`cmd`), through
`cron_stop`, the edit of the array and the list, and `cron_start`; `sched` is the scheduler task,
`launchers` the tasks it started that have not read their job yet. `jobs` is the heap: a pointer is the
number of an allocation and a freed job stays freed. `sem` and `listsem` are the two mutexes; a task
that is deleted keeps its mutexes for ever (`Dead`). A call on the list by the scheduler takes the mutex in one step and
ends in another, so that a deletion can fall between. Commands touch the list in one step: the
scheduler is gone by then. A crontab is its period in seconds, `cron_next` the next multiple.
The list command reads only. Allocations and task creations succeed; `cron_job_clear_all` and the
run-once mode are used by the tests of the component only. `NeverCrontabs` are those for which `cron_next` answers -1.

A scheduler that ends by itself between the giving of the lock in `cron_stop` (`cron.c:129`) and the deletion (`:132`) leaves a stale handle. `vTaskDelete` of it is
undefined: nothing happens (`StopDelete`), or the device panics and boots again, with no alarms (`StopDeleteStale`).

`cron_stop` waits 20 ms before it deletes the scheduler. `Prompt` says whether
that is enough for the scheduler to be at rest: what must hold when it is,
`alarms_prompt` checks; `alarms_any` checks what holds however slow the scheduler is.

| Run | Question | Result |
|---|---|---|
| `alarms_prompt` | do array and list agree, does the scheduler run after every command, does a due job fire, and once? Three crontabs, all of which parse | holds, 97 K states |
| `alarms_any` | with a slow scheduler and a crontab that does not parse: leaks, refused starts, commands that hang | holds, 420 K states |

By hand, as in section 3:

| Configuration | Property | What the code says | What TLC shows |
|---|---|---|---|
| `CronAlarmNext.cfg` | `NextIsKept` | "the time when it will run next" (`cron.h:63`) | a job that falls due while a command has cron stopped is moved to its next occurrence unfired |
| `CronAlarmNever.cfg` | `FiresOnce` | - | a job whose date is -1 is due for ever: the scheduler starts a launcher at every pass and never sleeps (`cron.c:290`) |
| `CronAlarmDeletion.cfg` | `GivesBeforeDeletion` | "this give shall be placed before the vTaskDelete" (`cron.c:328`) | `cron_stop` deletes a scheduler that holds the mutex of the list |
| `CronAlarmDeletion.cfg` | `NoLauncherOfDestroyed` | "Deallocates, and remove from scheduling" (`cron.h:115`) | a launcher reads the callback of a freed job |
| `CronAlarmBad.cfg` | `AlarmsAreScheduled` | "Before any cron modification it must be stopped" (`alarm.c:256`) | deleting an alarm whose crontab did not parse returns without starting cron again |

`CronAlarmDeletion.cfg` names the first of its two properties; the second is checked with the line that is commented out there.

Bounds: two slots and three crontabs fill the array; `MaxJob` lets a job be deleted and another take its
slot; two seconds with periods of one and two make jobs due together, apart, and during a
command. Fairness: the command's task, the scheduler, the launchers and the clock each weakly fair.

## 7. Cron expressions: `CronCalendar`, `CronExpr`, `CronFirings`, `MCCronExpr`

The build defines `CRON_USE_LOCAL_TIME` (`esp_cron/CMakeLists.txt:6`), so that `cron_mktime` is `mktime` (`ccronexpr.c:149`) and `cron_time` is `localtime_r`,
in the time zone that `main.c:72` sets, `EST5EDT,M3.2.0/2,M11.1.0`. `CronCalendar` stands for these: a local date with its `tm_isdst` (`dst`), the days of a
month, leap years, and `cron_mktime`. It carries fields that are out of range (`Carried`), takes the result for an instant under the `tm_isdst` the date was left with (`Standard`),
and rewrites it to the local time of that instant (`Local`), which moves the hour, and perhaps the day, when the clock was changed in between. The rule is the constant `Summer`: whether
summer time is in force in an hour of standard time. The library is modelled as the C standard has it; newlib may leave a time within the skipped hour as it was written, and a firing in it
would be an hour later. Left out: the limits of `time_t`, and that `last_day_of_month` asks `gmtime`, which is the same day west of UTC.

`CronExpr` translates `ccronexpr.c` function by function: the
parser from a text that is already split into fields, parts, ranges and tokens; `do_next` and `do_prev`, the search field by field
that starts over whenever a field had to move. The nested calls of `do_next` are a recursive function bounded by
`StackDepth`, as the task's stack bounds the calls in C (`Calls`: from the dates to the answers of a call that may nest so many); no run reaches the bound.
A call is five visits (`Visit`), each a search and what it leads to (`Outcome`). The loop of `find_next_day` and `find_prev_day` is `Walk`, 366 steps as two halves, so that TLC does
not nest them 366 deep; a step that finds a day of the expression stays there. A number is what `strtol` with base 0 makes of it, decimal or octal (`Read0`), and an error
beyond `INT_MAX` (`parse_uint`; `IntMax` is 1000 in the run). Hexadecimal numbers, which `strtol` also reads, are outside the grammar of the texts. `CronFirings` is a job that is created with a text at a date and followed from
firing to firing. Its assumptions say which texts and dates it is about (`TextsAssumption`: six fields of the parser's grammar, with any numbers;
`StartsAssumption`: dates of the calendar). `MCCronExpr` has 213 texts, five dates and the rule of that time zone.

| Run | Question | Result |
|---|---|---|
| `cron_dates` | does a text mean what it says; is the next date allowed, and the next, also over a change of the clock; is none skipped, and does `cron_prev` lead back, while the clock is not changed; is -1 answered only without a date? | holds, 3 842 states |

The properties compare the search with the definition of a firing (`InExpr`, and `FiringDays` for the days with one between two dates), not with another search. Three
of them hold only where the search is exact, and say where: `NextMatchesOneKind` needs the day bounded by the month or
by the week but not by both, `NothingSkippedExact` and `PrevUndoesNext` all months, for the first firing one second or all of them, and a time in which the
clock is not changed (`Quiet`).
Outside, three configurations run by hand find counterexamples. `CronExprMatches.cfg` for `NextMatches` ("the next date which satisfies the cron expression", `ccronexpr/README.md:7`) and `CronExprSkips.cfg` for `NothingSkipped` have one reason: the day's search may end
on the same day of a later month (`ccronexpr.c:484`), and `set_field` normalises with lower fields not yet
reset (`:325-353`), so that 31 January set to February is 3 March. `CronExprRepeats.cfg` violates `NextIsLater`: in the week of the change to summer time the hours and minutes that the search resets go
through the hour that is left out, and a job asked on a Saturday after its last hour can be answered with a time of that Saturday that is past. `cron.c:184-199` then has it due at once,
again and again, until midnight. A number from 8 on with a leading zero is left out of `ParsedAsWritten`:
`AsWritten` (by hand, `CronExprZeros.cfg`) fails, as `strtol` with base 0 (`:581`) reads 010 as 8 and nothing as 08.

Bounds: the texts combine stars, steps, lists, ranges, names, leading zeros and values out of range; the dates are ends of a
month, of a year and before a leap day, and the evenings before the two changes of the clock; two firings give one search from an arbitrary date and one from a firing.

## 8. The sensors: `Sensors`

The tasks are *main* (the boot), *sensor* (the measure functions sensormgr calls) and *mqtt* (the options commands).
A driver function is a list of transfers (`LtrInit`, `LtrSettings`, ...); `call[t]` is the function a task is in, with the place and the byte it read, `todo[t]` the
functions it calls next. One action is one transfer, one take or give of a mutex, or one store to the driver's state. `chip` is the LTR390 (mode,
enable bit, gain, rate, new data), external code; `awake` the SHTC3. `sen` is `ltr390_measure`, which reads `state.mode` three times: for the label of
the reading, for the data register and for the check.

Failures: any transfer may fail, and a failed write may have reached the chip. Within `I2C_DEV_CHECK` the function ends with the mutex given; the
others go on, with an uninitialised byte after a read (`ReadIgnored`). `shtc3_init` and `sht4x_init` have an exit that keeps the mutex, but
`ESP_ERROR_CHECK` aborts the boot then (`BootFails`). `Thermometer` is the build's choice of the temperature sensor. The lock of the port is
taken and given within a transfer and left out. `sht4xmgr_measure` reads `enabled` (`:93`) and `mode` (`:100`) in two steps. Checksums are failed transfers; the arithmetic of the readings is left out, but for the abort on a setting it does not know.

`sensors` checks, with any two commands or failures (`MaxEvents`), that mutexes come back, that no rewrite of MAIN_CTRL undoes an enable, that wrong
readings heal, that a heater command heats once, and that an enabled sensor goes on being read. Two events are enough for a command
interrupted by another or by a failure; with one gain and one rate besides the chip's own, a stale setting can be told apart.
Fairness: weak for each task and for the chip's measuring; strong for taking a mutex, since FreeRTOS serves the tasks that wait in turn.

By hand:

| Configuration | Property | What the code says | What TLC shows |
|---|---|---|---|
| `SensorsCached.cfg` | `CachedSettings` | "the current cached settings for the device" (`ltr390.h:68`) | `ltr390_set_gain` does not store the gain: it is never the device's after a command |
| `SensorsHeater.cfg` | `HeaterIsUsed` | "READS ONCE AT THAT MODE" (`sht4x.proto:12`) | a heater mode stored between a measurement and the reset is dropped unused |
| `SensorsReal.cfg` | `OnlyRealReadings` | - | a failed read of the data is published as a reading (`ltr390.c:153`) |
| `SensorsSilent.cfg` | `ReadingsGoOnAfterErrors` | - | a failed read in the toggle writes back a byte without the enable bit: no reading ever again |

## 9. The device: `Blinky`, `OtaMgr`, `Device`, `MCDevice`

`Blinky` is the queue of animations and the task that plays them, a frame at a time: `led` holds the animation, the frame counter `idx` (a
`uint16_t`, `IdxRange`), which is carried over from one animation to the next, and the place. `Lights` is the size of `lights[]`, `Forever` is
`UINT32_MAX`. `OtaMgr` is the command that creates the update task and the task's calls of `esp_https_ota`, each of which may
fail; its handle is null, open or closed. `Animations` are all the animations a message can hold: a pattern or a target that
the protocol does not name is "other", which plays nothing, or is drawn on the red LED.

`Device` composes the two with what calls them: the dispatch of a command in the client's task (`cmd`), the handlers in the order the boot registers
them, the button task of the ESP32-S2 (`btn`), and the two ways down. `touchbtn_deepsleep` is modelled call by call, through `mqttmgr_stop` and `sensormgr_stop`,
while the client, the watchdog and the pipeline go on until each is suspended. The watchdog is modelled call by call too: it acts on a count of disconnections that may be old, so that it can stop a
connected client, and clears the bits in a call of its own. `MqttConn` has the counting. The pipeline is here a count of readings, a batch and the file writer,
since `sensormgr_stop` stops and waits for nothing else; `SensorMgr` has it in full. A drain of the file writer has a `limit`, `bytes_free` of `sensormgr.c:380`: past it the drain ends
with DONEWRITING set and readings left. `behind` remembers what the last drain may have left, readings past the limit or one that came after the iterator had found the ring
buffer empty (`:222`) and before it cleared HIGHWATER (`:229`). `Restart` is `esp_restart`, or the panic on a handle closed twice.

`device` checks that one update at a time has the partition, that no light is left behind, that a sleep with the connection known to be down keeps the readings
for which there was room, that every update and every drain to a file ends, however many readings come in, and that commands and the button are never stuck.

A device may therefore go to sleep with readings in memory in three ways, which `RingSavedAsleep` names: the file writer is paused, its last drain ended at the limit, or a reading was
late. Of these only the last is a race: `sensormgr_stop` sets HIGHWATER (`:720`) while a drain is under way that has seen the ring buffer empty, the clearing at `:229` takes the request back,
and DONEWRITING is set by the old drain. A device that reads once a minute needs that minute to fall into a moment of the file writer, so that a test would not see it.

Bounds: `Budgets` are families of scenarios (three commands; a command with two clicks; two clicks with readings; two clicks, and readings, with two changes of the connection), since all of it at once
is too large and the parts meet only through the animation queue and the bits. The ring buffer of two slots may be refilled without end during a drain, whose limit is one or none (`DiskRoom`). `Lights = 1` and `IdxRange = 4` keep the table shorter than the counter, as in the
source; two update tasks are what a missing guard would need. Fairness: weak for each task, the file writer among them; strong for the button task, which waits for room in the
queue of animations without a limit and gets its turn. The network, the clicks and the sensors owe nothing.

By hand (module `MCDevice`):

| Configuration | Property | What the code says | What TLC shows |
|---|---|---|---|
| `DeviceZero.cfg` | `EndedWasShown` | "0 for run once" (`blinky.h:15`) | a blink with count 0 plays one frame, a dark one when `idx` is even |
| `DeviceClosed.cfg` | `InsideLights` | - | `rainbow` reads `lights[360]` before it tests `idx`, and far beyond after a long blink (`blinky.c:139`) |
| `DeviceClosed.cfg` | `ClosedOnce` | - | a failed `esp_https_ota_finish` has closed the handle that `esp_https_ota_abort` then closes (`otamgr.c:126`) |
| `DeviceClaims.cfg` | `AnsweredByItsComponent` | - | the handlers of `shtc3mgr.c` (`:37`, `:62`) claim the commands of the SHT4X |
| `DeviceSleep.cfg` | `DownKeepsReadings` | - | stopping a connected client sets no NOTCONNECTED (`mqttmgr.c:368`), so the file writer does not wake; a restart after an update flushes nothing (`otamgr.c:113`) |
| `DeviceSleep.cfg` | `SleepsWithoutRoomOnly` | "Waiting for file writer task to finish up" (`sensormgr.c:721`) | the late reading of above |

`DeviceClosed.cfg` names `ClosedOnce` and `DeviceSleep.cfg` `DownKeepsReadings`; the other property of each is checked with the line that is commented out there.

## 10. The proofs

The theorems that say most are listed here with what they assume beyond the `ASSUME` of the modules (`SensorMgrAssumption`
and so on, which say what values the constants may have). All invariants below were checked by TLC first.

**`SensorMgrProofs`**, from `SensorMgrAssumption` alone (sizes are naturals, the partition is smaller than 4 GiB):

| Theorem | Statement |
|---|---|
| `TypeCorrect` | `Spec => []TypeOK` |
| `NothingVanishes` | `Spec => []Conservation` |
| `DeliveredOnce` | `Spec => []NoSecondDelivery` |
| `CountIsAccurate` | `Spec => []CountAccurate` |
| `PausedIsDrained` | `Spec => []PausedAsksForDrain` |
| `ReserveIsKept` | `Spec => []ReserveKept`, if `MaxOld` readings of earlier boots leave the reserve |

The types alone are not inductive: the iterator's next step depends on its state, the sender's open file and
the program counters of the two consumers together, and these must be tied to each other (`Control`: which
local is set at which place of the program). `IInv == TypeOK /\ Control` is.

`Conservation` and `NoSecondDelivery` need to know that a reading is in one place only. `Places` says it:
what a consumer took is neither unread nor taken by the other (`TakenOnce`), files hold different readings
(`FilesApart`), and what the tasks carry is in no file, but for the file the sender is reading
(`TasksApart`): only that file may hold readings already delivered, and it is the one removed. `IInv /\ Places` is inductive.

`CountAccurate` is inductive relative to `IInv`. Control and Places were first checked by TLC on
the instances of the runs.

`PausedAsksForDrain` follows from `DrainUnderWay`: whoever could clear LOWWATER finds the count above 0, because the paused file
writer's item is counted (`CountAccurate`, and two readings held at once are two, `TwoHeldCount`), and the drain that is under way
cannot end without setting POLLSENSORS.

`ReserveIsKept` needs that the files of earlier boots leave the reserve at the boot, and uses the library's theorems on
cardinalities. `ReserveInv` says what is true at each place of the file writer: what is on the disk
and `bytes_free` together stay within the disk less its reserve from the `fopen` on (so the unsigned difference does not wrap), and what was written
stays within `bytes_free` until the write that ends the file.

The refinement proves `Implements == Spec => StoresAndForwards` on top of `IInv /\ Places`, with two more invariants
proved there: a consumer holds only what it received (`HoldsReceived`), and the batch has at most `qs.idx` readings
(`BatchCounted`), which is what the code tests against the limit. The mapping is
faithful only because of `Places`: memory and disk are each read off the state, and a reading that a file and a task shared would be in both at once.
That they do not meet is proved from `Places`, not given by the definitions.
Each action of a task that moves readings has a lemma that gives its effect on `InMemory` and `OnDisk`; the others are
shown to leave both alone, once, from the variables they do not touch.

The last theorem, `OnePlace == Spec => []SF!InOnePlace`, is what the refinement is for: `ChannelInv` is an invariant of the abstract channel, for
any number of readings, and `Implements` carries it to the pipeline: what a task holds is in no file that is kept, and nothing that was sent is held or on the disk any
more, but for the part of an open file that the sender has read already.

**`MqttConnProofs`**, from `BackoffAssumption` and `MqttConnAssumption` (base at most the maximum, the maximum fits a
`uint16_t`), for every base, maximum and width:

| Theorem | Statement |
|---|---|
| `BackoffBounded` | `Spec => []TypeOK`, whose core is that the bound stays between base and maximum |
| `BitsFollow` | `Spec => []BitsFollowClient` |

The bound is not inductive alone: the watchdog doubles what it read before or reads now, and one of
the two must be known to be below half the maximum. `JitterRead` says what can have happened since the test (nothing, or a
reset to the base), `CountLow` that the watchdog never counts past the second event, and `Control`
relates the places of the watchdog, the handler and the start: while the client is being stopped or
is stopped no event is under way. `IInv`, their conjunction with the two properties, is inductive and was
checked by TLC first.

**`MqttLogProofs`**, from `MqttLogAssumption` (a finite set of loggers, at least one slot):

| Theorem | Statement |
|---|---|
| `TypeCorrect` | `Spec => []TypeOK` |
| `AllAccounted` | `Spec => []Accounted` |
| `NoWakeupLost` | `Spec => []NoLostWakeup` |

`IInv` adds to the two properties what a task holds at each place (`CallHolds`, `LsHolds`), that the fate of a message is
settled when its slot is returned or just before (`Fates`), that logsend waits for the end of its own report (`Reporting`), and that
every call under way has a slot left (`Room`), a fact about the bound `MaxMsg` that needs cardinalities. `NoLostWakeup` is
proved through `Behind`: nothing can be received exactly when every ready message waits behind one that is still being filled, whose
logger has its notification before it. A smallest message exists because the naturals are well-founded.

**`BackoffProofs`**, for every width, base, maximum and number of attempts:

| Theorem | Statement |
|---|---|
| `TypeCorrect` | `Spec => []TypeOK` |
| `BoundDoubles` | `Spec => []JitterDoubles` |

`TypeOK /\ JitterDoubles` is inductive. Its core is the lemma `NextJitterDoubles`: the test against half of the maximum keeps the doubling within the width,
for an odd maximum too. With `2 ^ calls` in the place of `grown` the property would need an induction over `calls`.

**`CronAlarmProofs`**, for any slots, crontabs and jobs:

| Theorem | Statement | Assumes |
|---|---|---|
| `TypeCorrect` | `Spec => []TypeOK` | |
| `NothingLeaks` | `Spec => []NoLeak` | |
| `StartsAgain` | `Spec => []StartIsAccepted` | |
| `ListAgrees` | `Spec => []ListFollowsAlarms` | `Prompt` |
| `SchedulerThere` | `Spec => []AlarmsAreScheduled` | `Prompt`, `BadCrontabs = {}` |
| `FiresOccurrencesOnce` | `Spec => FiresOnce` | `Prompt`, `NeverCrontabs = {}` |

The first three hold however slow the scheduler is, even when it is deleted with a mutex in its hands. `AnyInv` carries them: while a
command edits, neither the scheduler nor its handle is there (`ControlInv`), the scheduler holds the mutexes its place says (`MutexInv`), each alarm has a
job of its own (`SlotInv`), an add command finds a job to allocate (`RoomInv`, of the bound `MaxJob` only), the jobs in the scheduler's hands belong to
alarms (`HandInv`), and no job is in the list twice or in the list and in a hand (`ListInv`), unless the mutex of the list was lost with a scheduler.

`AnyInv` also covers `cron_stop` with a handle whose task has ended (`StopDeleteStale`).

The other three need that the 20 ms of `cron_stop` are enough (`Prompt`): then no mutex is lost and a scheduler that is being stopped is at rest (`RestInv`), so that no
command edits while a job is out of the list (`AgreeInv`). `EndInv` adds that a scheduler only ends on an empty list, `OverInv` that what was fired lies
before the job's next date, or is about to be put off by the scheduler. The assumptions are needed: `CronAlarmBad.cfg` and
`CronAlarmNever.cfg` show the failures with a crontab that does not parse and with one that names no date, `CronAlarmDeletion.cfg` what a slow scheduler leads to.

**`SensorsProofs`**, for either thermometer, any gains and rates, any number of commands and failures:

| Theorem | Statement |
|---|---|
| `TypeCorrect` | `Spec => []TypeOK` |
| `NoMutexKept` | `Spec => []MutexesGivenBack` |
| `HeatsOnce` | `Spec => []HeatsOncePerCommand` |
| `EnableBelieved` | `Spec => []EnableKept` |
| `ToggleHeals` | `Spec => []WrongReadingsHeal` |

`BaseInv` ties the places together: a task inside the transfers of a function holds the mutex of its device (`HolderInv`) and whoever holds one is there
(`MutexesGivenBack`), the boot goes through its list before any other task runs (`BootInv`), the sensor task is in the call its place says (`SensorInv`), and the
handlers of the commands only in those that set options (`MqttInv`). Each of the other three properties has its own invariant on top of it. `EnableInv`: as long as no transfer failed,
a call that has read MAIN_CTRL holds what is in the register, since the mutex keeps others out until it is written, and the driver believes what
the last switch wrote. `HeatInv`: a heater mode that can still be used was not used, whether it is stored by the driver, on its way there, or the argument of the next measurement.
`WrongInv`: after a wrong reading the toggle that heals it is to come, has written the register, or has stored the mode; from its write on no command puts the
old mode back (`KeepsMode`), and from its end on the label, the register and the chip agree (`ReadingsAgree`).

**`DeviceProofs`**, for any commands, animations, update tasks and sizes:

| Theorem | Statement | Assumes |
|---|---|---|
| `TypeCorrect` | `Spec => []TypeOK` | |
| `OneUpdateRuns` | `Spec => []OneUpdate` | |
| `LeftOnWasAsked` | `Spec => []LedsLeftOn` | `KnownTargets` |
| `RingIsSaved` | `Spec => []RingSavedAsleep` | |

`OtaInv`: a task that has not come to the clearing of the handle is the one the handle names, and it has the partition open only between the calls that open and close it.
`LedInv`: a LED that is lit was left on or is the one being drawn on. `KnownTargets` says that each animation names one of the two LEDs: any other is
drawn on the red one, and the end of the animation leaves that lit, which the proof cannot get past and the code does not avoid.
`SleepInv` says what the button task has suspended at each place and what the file writer has still to do: since HIGHWATER is set before
the wait for DONEWRITING, a writer that is not at work then has been woken or found nothing, unless its drain ended at the limit or a late reading let it take HIGHWATER back. The theorem
names these exceptions as the code has them; it does not say that a sleep saves every reading.

**`CronFiringsProofs`**, for any texts of the grammar, any dates to start at, any number of firings, any depth of the stack and any rule of summer time:

| Theorem | Statement |
|---|---|
| `Parsed` | `Spec => []ParsedAsWritten` |
| `NextAllowed` | `Spec => []NextMatchesOneKind` |
| `NothingMissed` | `Spec => []NothingSkippedExact` |

It assumes `TextsAssumption`, `StartsAssumption`, `StackDepthAssumption` and `IntMaxAssumption` (59 is an `int`). The rule `Summer` is any operator: nothing is assumed of when the clock changes or
how often. `NextAllowed` holds over every change of the clock; `NothingMissed` speaks of the days with a firing between two dates that have one rule between
them (`Quiet`), as what it says is false over a change. The argument has these layers.

* *The calendar.* Days are numbered in the order of the dates (`SameDay`, `MonthLater`), so that a date is one number of seconds, its `Stamp`
  (`StampDays`). `Carried` keeps that number while it brings the fields back into their ranges, for fields one
  beyond them and days up to 40; `cron_mktime` keeps the hour of standard time (`StdHour`), the minutes and the seconds, and puts the clock to the rule in force (`Settled`).
  In a time without a change (`Calm`, `Steady`) it therefore keeps the stamp too.
* *The searches.* In any time, `find_next` leads to a date with an allowed value (`SecAny` and so on). In a calm one, that of seconds, minutes and hours leads to the next value in its set with what it carries (`Carry`, `Follows`); `find_next_day` to the first day
  that matches (`DaySearch`): a day with one kind of bound comes within two months, and the same day of another month is at least four weeks away, so that comparing
  days of the month is enough to see that the day moved. That is false with both kinds of bound. `find_next` of the months only leads to a later date (`MonthSearch`).
* *A call.* `Answers` is what a call of `do_next` promises: a date not earlier, allowed by the expression, and, if `Exactly`, none before it. A visit
  keeps what its predecessors reached (`AfterSec` to `AfterDay`), provided that the deeper calls keep the promise; `Exactly` asks for all months, for a calm time up to a firing ahead, and
  for a second that need not be written back (`SecFits`), which is where the code can skip dates.
* *The recursion.* `Calls` is a recursive function over the depth. The induction theorem of the library cannot be instantiated; `Recursion`
  proves instead that such a function exists with all values in a given set, from chains of finite length, with the induction made
  as an argument about the least number that fails.
* *Firings.* `CronNextAnswers` gives `cron_next`: a date of the expression, and not after a firing ahead (`Awaits`). `NoneLeftOut` turns a day of `FiringDays`, which only looks at a few times of each day, into such a firing, which contradicts it.
* *The parser.* Tokens, ranges, parts and fields are read as they are written unless a number is octal (`PartRead`, `FieldRead`), and names as their numbers
  (`PartReplaced`). A number beyond `IntMax` names nothing and is an error (`CappedHits`). An accepted text with one kind of day is a `Job`, which is what the search needs (`ParsedJob`).

`FiringKept` is the inductive invariant: the expression is the text's, the dates are dates, from the first firing on the job asks at a firing, and the
date it waits for is what `cron_next` promises of the one it asked at (`Awaits`).

What stays with TLC. Liveness under fairness, in every component. `NeverMeansNever` and `PrevUndoesNext` of `CronFirings`: neither holds
for every `StackDepth`, as a search that runs out of stack gives up as one without a date does (with `StackDepth = 6` TLC finds both violated, with 12 still the first), so that they
need a bound on the depth that a search uses, of which the code says nothing.

The machines state their types as `TypeOK`, but for `CronFirings`, whose dates `FiringKept` types. It is proved for `SensorMgr`, `BackoffCalls`, `MqttConn`, `MqttLog`, `CronAlarm`, `Sensors` and `Device`, checked in
`connection`, and can be added to the configuration of any run; the runs use their time for the other properties.

## 11. Not modelled

* *wifi_provision, uuid*: calls into the ESP-IDF provisioning manager and random bytes, once at boot.
* *proto, python utilities, backend*: message descriptions, hand tools, deployment charts.
* *touchbtn on the ESP32* (`touchbtn_esp32.c`): line 67 calls `toubhtbtn_wifiwake`, which nothing defines; the build of
  that variant does not link.
* *sensormgr options in NVS*: one string, read at boot and written by one command.
* *The retries of a failed publish* (`mqttmgr.c:262-290`): a loop of delays in one task.
* *Memory exhaustion*: allocations and task creations succeed, but for the creation of the update task.

## 12. Running

    tlc -workers 2 -config SensorMgr.cfg SensorMgr
    tlc -workers 2 -config Backoff.cfg BackoffCalls
    tlc -workers 2 -config MqttConn.cfg MqttConn
    tlc -workers 2 -config MqttLog.cfg MqttLog
    tlc -workers 2 -config CronAlarm.cfg CronAlarm
    tlc -workers 2 -config CronExpr.cfg MCCronExpr
    tlc -workers 2 -config Sensors.cfg Sensors
    tlc -workers 2 -config Device.cfg MCDevice
    tlapm SensorMgrProofs.tla
    tlapm MqttConnProofs.tla
    tlapm MqttLogProofs.tla
    tlapm BackoffProofs.tla
    tlapm CronAlarmProofs.tla
    tlapm CronFiringsProofs.tla
    tlapm SensorsProofs.tla
    tlapm DeviceProofs.tla

`PROJECT.json` names the module and the configuration of every run.
