------------------------------- MODULE Sensors -------------------------------
(***************************************************************************)
(* The I2C sensors: i2cdev, the drivers ltr390, sht4x and shtc3, and their *)
(* managers. The main task initialises them, the sensor task (sensorread)  *)
(* measures one after the other, and the MQTT task runs the handlers of    *)
(* the options commands. A driver function is a list of transfers between  *)
(* taking and giving the mutex of its device.                              *)
(*                                                                         *)
(* One of the two temperature sensors is built in: the handlers of both    *)
(* answer the SHT4X commands.                                              *)
(***************************************************************************)
EXTENDS Integers, Sequences

CONSTANTS
  Thermometer,   (* the temperature sensor built in: "sht4x" or "shtc3"            *)
  Gains, Rates,  (* gains, and pairs of resolution and rate, that commands ask for *)
  MaxEvents      (* bound: options commands, transfers that fail and locks that    *)
                 (* are not got in time, all together                              *)

Main == "main"   Sensor == "sensor"   Mqtt == "mqtt"
Tasks   == {Main, Sensor, Mqtt}
Devices == {"ltr390", Thermometer}
Nobody  == "nobody"

ALS == 0   UVS == 1
Modes    == {ALS, UVS}
Default  == 1            (* gain and rate of the chip after a reset *)
Unknown  == 7            (* a gain or rate that the driver does not know *)
GainReg  == Gains \cup {0, Default, Unknown}
RateReg  == Rates \cup {0, Default, Unknown}
CtrlReg  == [mode : Modes, en : BOOLEAN]
NoCtrl   == [mode |-> ALS, en |-> FALSE]
Garbage  == 2           (* what a failed read leaves in the data *)

(* Sht4x__ModeT: a heater mode is the number of the command that asked for it. *)
High == -1   Low == 0
Heater(mode) == mode > 0

ASSUME SensorsAssumption ==
  /\ Thermometer \in {"sht4x", "shtc3"}
  /\ Gains \subseteq 0 .. 4 /\ Rates \subseteq 0 .. 4
  /\ MaxEvents \in Nat

VARIABLES
  mutex,     (* dev->mutex of each device: the task that holds it             *)
  call,      (* the driver call of each task: function, place, register read  *)
  todo,      (* the driver calls each task still makes in what it runs        *)
  st,        (* state of ltr390.c                                             *)
  thermo,    (* state of sht4xmgr.c or shtc3mgr.c                             *)
  sen,       (* the sensor task: place, label of the reading, mode it read    *)
  chip,      (* the registers of the LTR390                                   *)
  awake,     (* whether the SHTC3 is out of its sleep                         *)
  commands,  (* commands so far                                               *)
  errors,    (* failures so far                                               *)
  wrong,     (* history: wrong readings in a row since the last disturbance   *)
  heated     (* history: the commands whose heater mode was used, in order    *)

NewChip == [ctrl |-> NoCtrl, gain |-> Default, rate |-> Default, ready |-> FALSE]

bus     == <<mutex, call, todo>>
ram     == <<st, thermo>>
chips   == <<chip, awake>>
history == <<wrong, heated>>
vars == <<bus, ram, sen, chips, commands, errors, history>>

--------------------------------------------------------------------------------
(* The driver functions: what each transfers, in order, and which transfers are   *)
(* inside I2C_DEV_CHECK, that is, whose failure ends the function.                *)

Rd(reg) == <<"read", reg>>
Wr(reg) == <<"write", reg>>

LtrInit ==
  <<Rd("id"), Wr("reset"), Rd("ctrl"), Rd("gain"), Rd("ctrl"), Rd("rate")>>

LtrReadData == <<Rd("status"), Rd("data")>>

LtrSettings ==
  [ltr390_enable |-> <<Rd("ctrl"), Wr("ctrl")>>,
   ltr390_standby |-> <<Rd("ctrl"), Wr("ctrl")>>,
   ltr390_set_mode |-> <<Rd("ctrl"), Wr("ctrl")>>,
   ltr390_set_gain |-> <<Rd("gain"), Wr("gain")>>,
   ltr390_set_resolution |-> <<Wr("rate")>>,
   ltr390_get_gain |-> <<Rd("gain")>>,
   ltr390_get_mode |-> <<Rd("ctrl")>>,
   ltr390_get_resolution |-> <<Rd("rate")>>]

Sht4xTransfers ==
  [sht4x_init |-> <<Wr("reset"), Wr("serial"), Rd("serial")>>,
   sht4x_measure |-> <<Wr("measure"), Rd("data")>>]

Shtc3Transfers ==
  [shtc3_init |-> <<Wr("wake"), Rd("id"), Wr("sleep")>>,
   shtc3_measure |-> <<Wr("wake"), Wr("measure"), Rd("data"), Wr("sleep")>>]

LtrSettingCalls == DOMAIN LtrSettings
Sht4xCalls      == DOMAIN Sht4xTransfers
ThermoCalls     == Sht4xCalls \cup DOMAIN Shtc3Transfers
DriverCalls     == {"ltr390_init", "ltr390_read"} \cup LtrSettingCalls \cup ThermoCalls

Transfers ==
  [fn \in DriverCalls |-> IF fn = "ltr390_init" THEN LtrInit
                         ELSE IF fn = "ltr390_read" THEN LtrReadData
                         ELSE IF fn \in LtrSettingCalls THEN LtrSettings[fn]
                         ELSE IF fn \in Sht4xCalls THEN Sht4xTransfers[fn]
                         ELSE Shtc3Transfers[fn]]

(* Those that store something after the give. ltr390_set_gain does not. *)
StoringCalls == {"ltr390_enable", "ltr390_standby", "ltr390_set_mode", "ltr390_set_resolution"}

Checked(c) == c.fn \in ThermoCalls \/ (c.fn = "ltr390_init" /\ c.at <= 3)

Device(fn) == IF fn \in ThermoCalls THEN Thermometer ELSE "ltr390"

(* A call that holds the mutex: the function, its argument, the place (a transfer, *)
(* the give, or the assignments that follow it) and the value of MAIN_CTRL that it *)
(* read. A task without a call has the result of its last one.                     *)
Call(c)     == [fn |-> c[1], arg |-> c[2], at |-> 1, got |-> NoCtrl, result |-> "ok"]
NoCall(res) == [fn |-> "none", arg |-> 0, at |-> 0, got |-> NoCtrl, result |-> res]

InCall(t) == call[t].fn # "none"
Idle(t)   == ~InCall(t) /\ todo[t] = <<>>
Returned(t, res) == Idle(t) /\ call[t].result = res

Calls(t, calls)      == todo' = [todo EXCEPT ![t] = calls]
Return(t, res)       == call' = [call EXCEPT ![t] = NoCall(res)]
Advance(t, value)    == call' = [call EXCEPT ![t] = [call[t] EXCEPT !.at = @ + 1, !.got = value]]
Step(t)              == Advance(t, NoCtrl)
Release(d)           == mutex' = [mutex EXCEPT ![d] = Nobody]

Error == commands + errors < MaxEvents /\ errors' = errors + 1 /\ wrong' = 0

(* The next call of a task, whatever the last one returned: I2C_DEV_TAKE_MUTEX.    *)
(* A task that waits too long returns the timeout.                                 *)
TakeMutex(t) ==
  /\ ~InCall(t) /\ todo[t] # <<>> /\ Head(todo[t])[1] \in DriverCalls
  /\ LET d == Device(Head(todo[t])[1])
     IN \/ /\ mutex[d] = Nobody
           /\ mutex' = [mutex EXCEPT ![d] = t]
           /\ call' = [call EXCEPT ![t] = Call(Head(todo[t]))]
           /\ UNCHANGED <<errors, wrong>>
        \/ /\ mutex[d] # Nobody /\ Error
           /\ Return(t, "error") /\ UNCHANGED mutex
  /\ Calls(t, Tail(todo[t]))
  /\ UNCHANGED <<ram, sen, chips, commands, heated>>

Transferring(t) ==
  InCall(t) /\ call[t].at \in 1 .. Len(Transfers[call[t].fn])

Transfer(t) == Transfers[call[t].fn][call[t].at]

(* A command disturbs the toggling when it writes the mode and when it stores it. *)
Disturbs(t) == wrong' = IF t = Mqtt /\ call[t].fn = "ltr390_set_mode" THEN 0 ELSE wrong

(* As the code could be wrong: the mode is written with the enable bit of the cached state. *)
NewCtrlFromCache(c) ==
  CASE c.fn = "ltr390_enable"   -> [c.got EXCEPT !.en = TRUE]
    [] c.fn = "ltr390_standby"  -> [c.got EXCEPT !.en = FALSE]
    [] c.fn = "ltr390_set_mode" -> [mode |-> c.arg, en |-> st.enabled]

(* As the code could be wrong: the rest of the register is not preserved. *)
NewCtrlModeOnly(c) ==
  CASE c.fn = "ltr390_enable"   -> [c.got EXCEPT !.en = TRUE]
    [] c.fn = "ltr390_standby"  -> [c.got EXCEPT !.en = FALSE]
    [] c.fn = "ltr390_set_mode" -> [mode |-> c.arg, en |-> FALSE]

(* What a write leaves in MAIN_CTRL, given the value read before. *)
NewCtrl(c) ==
  CASE c.fn = "ltr390_enable"   -> [c.got EXCEPT !.en = TRUE]
    [] c.fn = "ltr390_standby"  -> [c.got EXCEPT !.en = FALSE]
    [] c.fn = "ltr390_set_mode" -> [c.got EXCEPT !.mode = c.arg]

(* What a write does to the chips. A heater mode in it is used. *)
Written(t) ==
  LET c == call[t]   reg == Transfer(t)[2]
  IN /\ chip' = CASE reg = "ctrl" -> [chip EXCEPT !.ctrl = NewCtrl(c)]
                  [] reg = "gain" -> [chip EXCEPT !.gain = c.arg]
                  [] reg = "rate" -> [chip EXCEPT !.rate = c.arg]
                  [] reg = "reset" /\ c.fn = "ltr390_init" -> NewChip
                  [] OTHER -> chip
     /\ awake' = CASE reg = "wake" -> TRUE [] reg = "sleep" -> FALSE [] OTHER -> awake
     /\ heated' = IF c.fn = "sht4x_measure" /\ Heater(c.arg) THEN Append(heated, c.arg) ELSE heated

(* i2c_dev_write that succeeds: the port lock, the driver and the transaction. *)
Write(t) ==
  /\ Transferring(t) /\ Transfer(t)[1] = "write"
  /\ Written(t) /\ Disturbs(t) /\ Step(t)
  /\ UNCHANGED <<mutex, todo, ram, sen, commands, errors>>

(* What the driver does with a register it read inside the mutex. *)
Store(t, value) ==
  LET c == call[t]
  IN IF c.fn # "ltr390_init" THEN UNCHANGED st
     ELSE st' = CASE c.at = 4 -> [st EXCEPT !.gain = value]
                  [] c.at = 5 -> [st EXCEPT !.mode = value.mode]
                  [] c.at = 6 -> [st EXCEPT !.rate = value]
                  [] OTHER -> st

(* A value read into the register variable; ltr390_read returns when the status   *)
(* says that there is no new data.                                                *)
Got(t, value) ==
  IF call[t].fn = "ltr390_read" /\ call[t].at = 1 /\ ~value
  THEN Release("ltr390") /\ Return(t, "error")
  ELSE Advance(t, IF call[t].fn \in StoringCalls THEN value ELSE NoCtrl) /\ UNCHANGED mutex

(* i2c_dev_read that succeeds. Reading the status clears it. *)
Read(t) ==
  LET reg == Transfer(t)[2]   thermal == call[t].fn \in ThermoCalls
      value == CASE thermal \/ reg \in {"id", "data"} -> 0
                 [] reg = "status" -> chip.ready
                 [] OTHER -> chip[reg]
  IN /\ Transferring(t) /\ Transfer(t)[1] = "read"
     /\ Got(t, value) /\ Store(t, value)
     /\ chip' = IF reg = "status" THEN [chip EXCEPT !.ready = FALSE] ELSE chip
     /\ sen' = IF reg = "data" /\ ~thermal THEN [sen EXCEPT !.taken = chip.ctrl.mode] ELSE sen
     /\ UNCHANGED <<todo, thermo, awake, commands, errors, wrong, heated>>

(* A write that fails may have reached the chip. *)
Fails(t) ==
  \/ Transfer(t)[1] = "write" /\ Written(t)
  \/ UNCHANGED <<chips, heated>>

(* As the code could be wrong: an error is returned without giving the mutex, as in shtc3_init. *)
TransferFailsTaken(t) ==
  /\ Transferring(t) /\ Checked(call[t]) /\ call[t].fn \notin {"sht4x_init", "shtc3_init"}
  /\ Error /\ Fails(t) /\ Return(t, "error")
  /\ UNCHANGED <<mutex, todo, ram, sen, commands>>

(* A transfer whose failure is checked, an id or a checksum that is wrong: the    *)
(* mutex is given and the function returns the error. A failed initialisation     *)
(* of the temperature sensor aborts the boot instead (ESP_ERROR_CHECK).           *)
TransferFails(t) ==
  /\ Transferring(t) /\ Checked(call[t]) /\ call[t].fn \notin {"sht4x_init", "shtc3_init"}
  /\ Error /\ Fails(t)
  /\ Release(Device(call[t].fn)) /\ Return(t, "error")
  /\ UNCHANGED <<todo, ram, sen, commands>>

(* A failed write nobody looks at. *)
WriteIgnored(t) ==
  /\ Transferring(t) /\ ~Checked(call[t]) /\ Transfer(t)[1] = "write"
  /\ Error /\ Fails(t) /\ Step(t)
  /\ UNCHANGED <<mutex, todo, ram, sen, commands>>

(* A failed read nobody looks at: the driver goes on with an uninitialised byte. *)
ReadIgnored(t) ==
  LET reg == Transfer(t)[2]
  IN /\ Transferring(t) /\ ~Checked(call[t]) /\ Transfer(t)[1] = "read"
     /\ Error
     /\ \E value \in CASE reg = "ctrl" -> CtrlReg [] reg = "gain" -> GainReg
                       [] reg = "rate" -> RateReg [] reg = "status" -> BOOLEAN
                       [] OTHER -> {0} :
          Got(t, value) /\ Store(t, value)
     /\ sen' = IF reg = "data" THEN [sen EXCEPT !.taken = Garbage] ELSE sen
     /\ UNCHANGED <<todo, thermo, chips, commands, heated>>

GiveMutex(t) ==
  LET c == call[t]
  IN /\ InCall(t) /\ c.at = Len(Transfers[c.fn]) + 1
     /\ Release(Device(c.fn))
     /\ IF c.fn \in StoringCalls THEN Step(t) ELSE Return(t, "ok")
     /\ UNCHANGED <<todo, ram, sen, chips, commands, errors, history>>

(* As the code could be wrong: ltr390_set_mode does not store the mode, as ltr390_set_gain does not the gain. *)
FinishModeUnstored(t) ==
  LET c == call[t]
  IN /\ InCall(t) /\ c.at = Len(Transfers[c.fn]) + 2
     /\ st' = CASE c.fn = "ltr390_enable"         -> [st EXCEPT !.enabled = TRUE]
                [] c.fn = "ltr390_standby"        -> [st EXCEPT !.enabled = FALSE]
                [] c.fn = "ltr390_set_resolution" -> [st EXCEPT !.rate = c.arg]
                [] OTHER -> st
     /\ Disturbs(t)
     /\ Return(t, "ok")
     /\ UNCHANGED <<mutex, todo, thermo, sen, chips, commands, errors, heated>>

(* The stores to the state of the driver that follow the give. *)
Finish(t) ==
  LET c == call[t]
  IN /\ InCall(t) /\ c.at = Len(Transfers[c.fn]) + 2
     /\ st' = CASE c.fn = "ltr390_enable"         -> [st EXCEPT !.enabled = TRUE]
                [] c.fn = "ltr390_standby"        -> [st EXCEPT !.enabled = FALSE]
                [] c.fn = "ltr390_set_mode"       -> [st EXCEPT !.mode = c.arg]
                [] c.fn = "ltr390_set_resolution" -> [st EXCEPT !.rate = c.arg]
     /\ Disturbs(t)
     /\ Return(t, "ok")
     /\ UNCHANGED <<mutex, todo, thermo, sen, chips, commands, errors, heated>>

Driver ==
  \E t \in Tasks : \/ TakeMutex(t) \/ Write(t) \/ Read(t) \/ TransferFails(t) \/ WriteIgnored(t)
                   \/ ReadIgnored(t) \/ GiveMutex(t) \/ Finish(t)

--------------------------------------------------------------------------------
(* The sensor task: the measure functions of the managers.                        *)

Started == Idle(Main)

NewSen == [at |-> "ltr390", label |-> ALS, source |-> ALS, taken |-> ALS]

SensorAt(p) == Started /\ Idle(Sensor) /\ sen.at = p
Go(p)       == sen' = [sen EXCEPT !.at = p]
Leave(p)    == sen' = [NewSen EXCEPT !.at = p]

(* ltr390_measure: the label of the reading is one read of state.mode, the choice  *)
(* of the data register another, the check in ltr390_read_als and _uvs a third.    *)
LtrLabel ==
  /\ SensorAt("ltr390")
  /\ sen' = IF st.enabled THEN [sen EXCEPT !.at = "select", !.label = st.mode] ELSE [sen EXCEPT !.at = "thermo"]
  /\ UNCHANGED <<bus, ram, chips, commands, errors, history>>

LtrSelect ==
  /\ SensorAt("select")
  /\ sen' = [sen EXCEPT !.at = "recheck", !.source = st.mode]
  /\ UNCHANGED <<bus, ram, chips, commands, errors, history>>

LtrRead ==
  /\ SensorAt("recheck")
  /\ IF st.mode = sen.source /\ st.enabled
     THEN Go("convert") /\ Calls(Sensor, << <<"ltr390_read", 0>> >>)
     ELSE Leave("thermo") /\ UNCHANGED todo
  /\ UNCHANGED <<mutex, call, ram, chips, commands, errors, history>>

Right == sen.label = sen.source /\ sen.taken = sen.source

(* The conversion looks up resolution and gain, and aborts on one it does not     *)
(* know (ConversionAborts). ltr390mgr_measure then toggles the mode.              *)
KnowsSettings == st.rate # Unknown /\ (sen.source = UVS \/ st.gain # Unknown)

LtrReading ==
  /\ SensorAt("convert") /\ Returned(Sensor, "ok") /\ KnowsSettings
  /\ Leave("thermo") /\ Calls(Sensor, << <<"ltr390_set_mode", 1 - sen.label>> >>)
  /\ wrong' = IF Right THEN 0 ELSE wrong + 1
  /\ UNCHANGED <<mutex, call, ram, chips, commands, errors, heated>>

LtrNoReading ==
  /\ SensorAt("convert") /\ Returned(Sensor, "error") /\ Leave("thermo")
  /\ UNCHANGED <<bus, ram, chips, commands, errors, history>>

(* sht4xmgr_measure and shtc3mgr_measure: enabled is read, then the mode for the   *)
(* measurement, and the mode again for the reset of a heater mode afterwards, failed or not.             *)
MeasureCall == IF Thermometer = "sht4x" THEN "sht4x_measure" ELSE "shtc3_measure"

ThermoEnabled ==
  /\ SensorAt("thermo")
  /\ IF thermo.enabled THEN Go("mode") ELSE Leave("ltr390")
  /\ UNCHANGED <<bus, ram, chips, commands, errors, history>>

ThermoMeasure ==
  /\ SensorAt("mode")
  /\ Go("reset") /\ Calls(Sensor, << <<MeasureCall, thermo.mode>> >>)
  /\ UNCHANGED <<mutex, call, ram, chips, commands, errors, history>>

ResetSeesHeater == Thermometer = "sht4x" /\ Heater(thermo.mode)

(* As the code could be wrong: the heater mode is taken back only after a measurement that succeeded. *)
ThermoSwitchIfMeasured ==
  /\ SensorAt("reset")
  /\ IF ResetSeesHeater /\ Returned(Sensor, "ok") THEN Go("heater") ELSE Leave("ltr390")
  /\ UNCHANGED <<bus, ram, chips, commands, errors, history>>

ThermoSwitch ==
  /\ SensorAt("reset")
  /\ IF ResetSeesHeater THEN Go("heater") ELSE Leave("ltr390")
  /\ UNCHANGED <<bus, ram, chips, commands, errors, history>>

ThermoReset ==
  /\ SensorAt("heater")
  /\ thermo' = [thermo EXCEPT !.mode = High] /\ Leave("ltr390")
  /\ UNCHANGED <<bus, st, chips, commands, errors, history>>

SensorTask == LtrLabel \/ LtrSelect \/ LtrRead \/ LtrReading \/ LtrNoReading
              \/ ThermoEnabled \/ ThermoMeasure \/ ThermoSwitch \/ ThermoReset

--------------------------------------------------------------------------------
(* The handlers of the options commands, in the MQTT task.                        *)

Accept(steps) ==
  /\ Started /\ Idle(Mqtt) /\ commands + errors < MaxEvents
  /\ commands' = commands + 1
  /\ Calls(Mqtt, steps)

(* ltr390mgr_cmd_set_optionshandler *)
Ltr390SetOptions(enable, mode, gain, rate) ==
  /\ Accept(<< <<"ltr390_set_mode", mode>>, <<"ltr390_set_gain", gain>>,
               <<"ltr390_set_resolution", rate>>,
               <<IF enable THEN "ltr390_enable" ELSE "ltr390_standby", 0>>,
               <<"ltr390_get_gain", 0>>, <<"ltr390_get_mode", 0>>, <<"ltr390_get_resolution", 0>> >>)
  /\ UNCHANGED <<mutex, call, ram, sen, chips, errors, history>>

(* sht4xmgr_cmd_set_optionshandler, two stores, or that of shtc3mgr, one. *)
Sht4xStores(enable, mode) == << <<"enabled", enable>>, <<"mode", mode>> >>
Shtc3Stores(enable)       == << <<"enabled", enable>> >>

ThermoSetOptions(enable, mode) ==
  /\ Accept(IF Thermometer = "sht4x" THEN Sht4xStores(enable, mode) ELSE Shtc3Stores(enable))
  /\ UNCHANGED <<mutex, call, ram, sen, chips, errors, history>>

ThermoStore ==
  /\ ~InCall(Mqtt) /\ todo[Mqtt] # <<>> /\ Head(todo[Mqtt])[1] \in DOMAIN thermo
  /\ thermo' = [thermo EXCEPT ![Head(todo[Mqtt])[1]] = Head(todo[Mqtt])[2]]
  /\ Calls(Mqtt, Tail(todo[Mqtt]))
  /\ UNCHANGED <<mutex, call, st, sen, chips, commands, errors, history>>

(* ltr390_get_cached_state, the answer of ltr390mgr_cmd_get_optionshandler *)
CachedState == st

MqttTask ==
  \/ \E e \in BOOLEAN, m \in Modes, g \in Gains, r \in Rates : Ltr390SetOptions(e, m, g, r)
  \/ \E e \in BOOLEAN, m \in {High, Low, commands + 1} : ThermoSetOptions(e, m)
  \/ ThermoStore

--------------------------------------------------------------------------------
ThermoInitCall == IF Thermometer = "sht4x" THEN "sht4x_init" ELSE "shtc3_init"

BootCalls == << <<"ltr390_init", 0>>, <<"ltr390_enable", 0>>, <<ThermoInitCall, 0>> >>

NewSt     == [enabled |-> FALSE, gain |-> 0, mode |-> ALS, rate |-> 0]
NewThermo == [enabled |-> TRUE, mode |-> High]
NewMutex  == [d \in Devices |-> Nobody]
NewCall   == [t \in Tasks |-> NoCall("ok")]
NewTodo   == [t \in Tasks |-> IF t = Main THEN BootCalls ELSE <<>>]

Init ==
  /\ st = NewSt /\ thermo = NewThermo /\ sen = NewSen
  /\ mutex = NewMutex /\ call = NewCall /\ todo = NewTodo
  /\ chip = NewChip
  /\ awake = TRUE
  /\ commands = 0 /\ errors = 0 /\ wrong = 0 /\ heated = <<>>

(* abort() restarts the device. The chips keep their registers. *)
Restart ==
  /\ st' = NewSt /\ thermo' = NewThermo /\ sen' = NewSen
  /\ mutex' = NewMutex /\ call' = NewCall /\ todo' = NewTodo
  /\ UNCHANGED commands

(* ESP_ERROR_CHECK on the initialisation of the temperature sensor. *)
BootFails ==
  /\ Transferring(Main) /\ call[Main].fn \in {"sht4x_init", "shtc3_init"}
  /\ Error /\ Fails(Main) /\ Restart

(* The conversion meets a gain or a resolution it does not know. *)
ConversionAborts ==
  /\ SensorAt("convert") /\ Returned(Sensor, "ok") /\ ~KnowsSettings
  /\ wrong' = 0 /\ UNCHANGED <<errors, chips, heated>> /\ Restart

(* The LTR390 has measured. *)
ChipMeasures ==
  /\ chip.ctrl.en /\ ~chip.ready
  /\ chip' = [chip EXCEPT !.ready = TRUE]
  /\ UNCHANGED <<bus, ram, sen, awake, commands, errors, history>>

Next == Driver \/ SensorTask \/ MqttTask \/ BootFails \/ ConversionAborts \/ ChipMeasures

Works(t) ==
  \/ TakeMutex(t) \/ Write(t) \/ Read(t) \/ GiveMutex(t) \/ Finish(t)
  \/ t = Sensor /\ (SensorTask \/ ConversionAborts)
  \/ t = Mqtt /\ ThermoStore

(* Every task goes on, a waiting task gets the mutex in turn, and an enabled chip *)
(* measures. Commands and failures need not come.                                 *)
Fairness ==
  /\ \A t \in Tasks : WF_vars(Works(t))
  /\ \A t \in {Sensor, Mqtt} : SF_vars(TakeMutex(t))
  /\ WF_vars(ChipMeasures)

Spec == Init /\ [][Next]_vars /\ Fairness

--------------------------------------------------------------------------------
(* Properties                                                                     *)

Steps == (DriverCalls \X Int) \cup ({"enabled"} \X BOOLEAN) \cup ({"mode"} \X Int)

TypeOK ==
  /\ mutex \in [Devices -> Tasks \cup {Nobody}]
  /\ call \in [Tasks -> [fn : DriverCalls \cup {"none"}, arg : Int, at : Nat, got : CtrlReg,
                        result : {"ok", "error"}]]
  /\ todo \in [Tasks -> Seq(Steps)]
  /\ st \in [enabled : BOOLEAN, gain : GainReg, mode : Modes, rate : RateReg]
  /\ thermo \in [enabled : BOOLEAN, mode : {High, Low} \cup 1 .. MaxEvents]
  /\ sen \in [at : {"ltr390", "select", "recheck", "convert", "thermo", "mode", "reset", "heater"},
              label : Modes, source : Modes, taken : Modes \cup {Garbage}]
  /\ chip \in [ctrl : CtrlReg, gain : GainReg, rate : RateReg, ready : BOOLEAN]
  /\ awake \in BOOLEAN
  /\ commands \in Nat /\ errors \in Nat /\ commands + errors <= MaxEvents
  /\ wrong \in Nat /\ heated \in Seq(1 .. MaxEvents)

(* A device mutex is held by a task that is inside a driver function of that       *)
(* device and on its way to the give: no early return, failed transfer or timeout  *)
(* of any function leaves one taken.                                               *)
MutexesGivenBack ==
  \A d \in Devices : mutex[d] # Nobody =>
    LET c == call[mutex[d]]
    IN /\ c.fn # "none" /\ Device(c.fn) = d
       /\ c.at \in 1 .. Len(Transfers[c.fn]) + 1

(* Unless a transfer failed, the LTR390 is on exactly when the driver believes it  *)
(* is, although the toggle of the sensor task and the commands both rewrite the    *)
(* register that holds mode and enable.                                            *)
EnableKept ==
  (errors = 0 /\ Started /\ call[Mqtt].fn \notin {"ltr390_enable", "ltr390_standby"})
    => chip.ctrl.en = st.enabled

(* The toggle and the set_mode of a command may store state.mode in the other      *)
(* order than they wrote the register, and a transfer may fail: readings then come *)
(* with the wrong unit or from the data of the other mode. The next toggle puts it *)
(* right: never two wrong readings in a row without another command or failure.    *)
WrongReadingsHeal == wrong <= 1

(* A heater is switched on at most once for a command, so that it does not burn    *)
(* the chip: sht4xmgr_measure takes the mode back whatever became of the           *)
(* measurement, and a command that comes meanwhile does not revive the old one.    *)
HeatsOncePerCommand ==
  \A i, j \in DOMAIN heated : heated[i] = heated[j] => i = j

(* A reading of the LTR390 was taken: the toggle comes next. *)
Toggles == todo[Sensor] # <<>> /\ Head(todo[Sensor])[1] = "ltr390_set_mode"

(* An enabled LTR390 goes on delivering readings, unless it is disabled or a       *)
(* transfer failed.                                                                *)
ReadingsGoOn == (Started /\ st.enabled) ~> (Toggles \/ ~st.enabled \/ errors > 0)

--------------------------------------------------------------------------------
(* What the comments of the drivers say, and what one would like to hold.         *)

AtRest == Started /\ Idle(Mqtt) /\ ~InCall(Sensor)

(* ltr390.h:68, "Get the current cached settings for the device": they are those   *)
(* of the device.                                                                  *)
CachedSettings ==
  (errors = 0 /\ AtRest) =>
    /\ CachedState.gain = chip.gain /\ CachedState.rate = chip.rate
    /\ CachedState.enabled = chip.ctrl.en

(* sht4x.proto:12, "Any read with the heater, READS ONCE AT THAT MODE": the mode   *)
(* of a heater command that was not replaced by a later command is used.           *)
HeaterIsUsed ==
  \A h \in 1 .. MaxEvents :
    (thermo.mode = h) ~> (\/ \E i \in DOMAIN heated : heated[i] = h
                          \/ commands > h \/ ~thermo.enabled \/ errors > 0)

(* A reading that is stored was read from the sensor. *)
OnlyRealReadings == (SensorAt("convert") /\ Returned(Sensor, "ok")) => sen.taken # Garbage

(* An enabled LTR390 goes on delivering readings, also after a failed transfer. *)
ReadingsGoOnAfterErrors == (Started /\ st.enabled) ~> (Toggles \/ ~st.enabled)
================================================================================
