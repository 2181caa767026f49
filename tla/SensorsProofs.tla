---------------------------- MODULE SensorsProofs ----------------------------
(***************************************************************************)
(* The I2C sensors, for any gains, rates and number of commands and failed *)
(* transfers: every mutex is given back, the toggle of the mode never      *)
(* undoes an enable, wrong readings come one at a time, and a command of   *)
(* the heater heats once.                                                  *)
(***************************************************************************)
EXTENDS Sensors, SequenceTheorems, TLAPS

--------------------------------------------------------------------------------
(* The inductive invariant *)

(* The function and the argument a task is at: of its call, or of the next one *)
JobFn(t)  == IF todo[t] # <<>> /\ ~InCall(t) THEN Head(todo[t])[1] ELSE call[t].fn
JobArg(t) == IF todo[t] # <<>> /\ ~InCall(t) THEN Head(todo[t])[2] ELSE call[t].arg

(* The arguments are what each function takes. *)
ArgOK(fn, arg) ==
  /\ fn = "ltr390_set_mode" => arg \in Modes
  /\ fn = "ltr390_set_gain" => arg \in Gains
  /\ fn = "ltr390_set_resolution" => arg \in Rates
  /\ fn = "sht4x_measure" => arg \in {High, Low} \cup 1 .. MaxEvents

PlaceInv ==
  \A t \in Tasks : InCall(t) =>
    /\ call[t].at \in 1 .. Len(Transfers[call[t].fn]) + 2
    /\ call[t].fn \notin StoringCalls => call[t].at <= Len(Transfers[call[t].fn]) + 1

ArgInv ==
  \A t \in Tasks :
    /\ ArgOK(call[t].fn, call[t].arg)
    /\ \A k \in DOMAIN todo[t] : ArgOK(todo[t][k][1], todo[t][k][2])

(* Who holds a mutex is in a function of the device, before or at its give; and   *)
(* who is there holds it.                                                         *)
HolderInv ==
  \A t \in Tasks :
    InCall(t) /\ call[t].at <= Len(Transfers[call[t].fn]) + 1 => mutex[Device(call[t].fn)] = t

(* The boot, one step after the other *)
AfterInit   == << <<"ltr390_enable", 0>>, <<ThermoInitCall, 0>> >>
AfterEnable == << <<ThermoInitCall, 0>> >>

BootInv ==
  /\ \/ todo[Main] = BootCalls /\ ~InCall(Main)
     \/ todo[Main] = AfterInit /\ call[Main].fn \in {"none", "ltr390_init"}
     \/ todo[Main] = AfterEnable /\ call[Main].fn \in {"none", "ltr390_enable"}
     \/ todo[Main] = <<>> /\ call[Main].fn \in {"none", ThermoInitCall}
  /\ ~Started => Idle(Sensor) /\ Idle(Mqtt) /\ sen = NewSen /\ wrong = 0

(* The calls of the sensor task, by its place *)
SensorInv ==
  /\ todo[Sensor] # <<>> => ~InCall(Sensor) /\ Len(todo[Sensor]) = 1
  /\ \/ Idle(Sensor)
     \/ JobFn(Sensor) = "ltr390_read" /\ sen.at = "convert"
     \/ JobFn(Sensor) = "ltr390_set_mode" /\ sen.at = "thermo"
     \/ JobFn(Sensor) = MeasureCall /\ sen.at = "reset"

(* Those of the handlers of the commands *)
MqttInv ==
  /\ call[Mqtt].fn \in LtrSettingCalls \cup {"none"}
  /\ \A k \in DOMAIN todo[Mqtt] :
       /\ todo[Mqtt][k][1] \in LtrSettingCalls \cup {"enabled", "mode"}
       /\ todo[Mqtt][k][1] = "mode" => todo[Mqtt][k][2] \in {High, Low, commands}

BaseInv == TypeOK /\ PlaceInv /\ ArgInv /\ HolderInv /\ MutexesGivenBack /\ BootInv /\ SensorInv /\ MqttInv

CtrlCalls == {"ltr390_enable", "ltr390_standby", "ltr390_set_mode"}

Enabling == {"ltr390_enable", "ltr390_standby"}

(* As long as no transfer failed: a call that rewrites the register read the value *)
(* it has, one that switches has switched it, and otherwise the driver believes    *)
(* what is so.                                                                     *)
CtrlOf(t) ==
  /\ call[t].fn \in CtrlCalls /\ call[t].at = 2 => call[t].got = chip.ctrl
  /\ call[t].fn \in Enabling /\ call[t].at >= 3 => chip.ctrl.en = (call[t].fn = "ltr390_enable")

SwitchedOn ==
  todo[Main] \in {<<>>, AfterEnable} /\ call[Main].fn \notin Enabling /\ call[Mqtt].fn \notin Enabling

Believed == SwitchedOn => chip.ctrl.en = st.enabled

EnableInv == errors = 0 => (\A t \in Tasks : CtrlOf(t)) /\ Believed

(* After a wrong reading: the toggle is to come, has written the register, or has *)
(* stored what it wrote; and nobody is about to write the mode back.              *)
KeepsMode ==
  \A t \in Tasks :
    call[t].fn \in Enabling /\ call[t].at = 2 => call[t].got.mode = chip.ctrl.mode

ReadingsAgree ==
  /\ chip.ctrl.mode = st.mode
  /\ sen.at \in {"select", "recheck", "convert"} => sen.label = st.mode
  /\ sen.at \in {"recheck", "convert"} => sen.source = st.mode
  /\ (call[Sensor].fn = "ltr390_read" /\ call[Sensor].at = 3)
       \/ (sen.at = "convert" /\ Returned(Sensor, "ok")) => sen.taken = st.mode

Toggling == JobFn(Sensor) = "ltr390_set_mode"

WrongInv ==
  wrong > 0 =>
    /\ wrong = 1
    /\ \/ Toggling /\ (InCall(Sensor) => call[Sensor].at <= 2)
       \/ KeepsMode /\ Toggling /\ InCall(Sensor) /\ call[Sensor].at >= 3
            /\ chip.ctrl.mode = call[Sensor].arg
       \/ KeepsMode /\ ~Toggling /\ ReadingsAgree

(* A heater mode that can still be used was not used, and is in one place. *)
Used(h) == \E i \in DOMAIN heated : heated[i] = h

ToMeasure == JobFn(Sensor) = "sht4x_measure" /\ (InCall(Sensor) => call[Sensor].at = 1)

Stored(h) == \E k \in DOMAIN todo[Mqtt] : todo[Mqtt][k] = <<"mode", h>>

ModeLast == \A k \in DOMAIN todo[Mqtt] : todo[Mqtt][k][1] = "mode" => k = Len(todo[Mqtt])

HeatInv ==
  /\ HeatsOncePerCommand
  /\ Thermometer = "sht4x" \/ heated = <<>>
  /\ \A i \in DOMAIN heated : heated[i] <= commands
  /\ thermo.mode <= commands
  /\ Heater(thermo.mode) /\ sen.at \notin {"reset", "heater"} => ~Used(thermo.mode)
  /\ ToMeasure => /\ JobArg(Sensor) <= commands
                  /\ Heater(JobArg(Sensor)) => ~Used(JobArg(Sensor))
  /\ Stored(commands) /\ commands > 0 =>
       /\ ~Used(commands) /\ thermo.mode # commands
       /\ ToMeasure => JobArg(Sensor) # commands

--------------------------------------------------------------------------------
(* The transfers of the driver functions *)

LtrCalls == {"ltr390_init", "ltr390_read", "ltr390_enable", "ltr390_standby", "ltr390_set_mode",
             "ltr390_set_gain", "ltr390_set_resolution", "ltr390_get_gain", "ltr390_get_mode",
             "ltr390_get_resolution"}

LEMMA CallNames ==
  /\ DriverCalls = LtrCalls \cup {"sht4x_init", "sht4x_measure", "shtc3_init", "shtc3_measure"}
  /\ ThermoCalls = {"sht4x_init", "sht4x_measure", "shtc3_init", "shtc3_measure"}
  /\ Sht4xCalls = {"sht4x_init", "sht4x_measure"}
  /\ LtrSettingCalls = LtrCalls \ {"ltr390_init", "ltr390_read"}
BY Zenon DEF DriverCalls, LtrSettingCalls, Sht4xCalls, ThermoCalls, LtrSettings, Sht4xTransfers,
   Shtc3Transfers, LtrCalls

LEMMA LtrTable ==
  /\ Transfers["ltr390_init"] = <<Rd("id"), Wr("reset"), Rd("ctrl"), Rd("gain"), Rd("ctrl"), Rd("rate")>>
  /\ Transfers["ltr390_read"] = <<Rd("status"), Rd("data")>>
  /\ \A fn \in CtrlCalls : Transfers[fn] = <<Rd("ctrl"), Wr("ctrl")>>
  /\ Transfers["ltr390_set_gain"] = <<Rd("gain"), Wr("gain")>>
  /\ Transfers["ltr390_set_resolution"] = <<Wr("rate")>>
  /\ Transfers["ltr390_get_gain"] = <<Rd("gain")>>
  /\ Transfers["ltr390_get_mode"] = <<Rd("ctrl")>>
  /\ Transfers["ltr390_get_resolution"] = <<Rd("rate")>>
<1>1. /\ Transfers["ltr390_init"] = LtrInit
      /\ Transfers["ltr390_read"] = LtrReadData
  BY Zenon, CallNames DEF Transfers, LtrCalls
<1>2. \A fn \in LtrSettingCalls : Transfers[fn] = LtrSettings[fn]
  BY Zenon, CallNames DEF Transfers, LtrCalls
<1>3. \A fn \in CtrlCalls : Transfers[fn] = <<Rd("ctrl"), Wr("ctrl")>>
  BY Zenon, <1>2, CallNames DEF LtrSettings, LtrCalls, CtrlCalls
<1>4. /\ Transfers["ltr390_set_gain"] = <<Rd("gain"), Wr("gain")>>
      /\ Transfers["ltr390_set_resolution"] = <<Wr("rate")>>
      /\ Transfers["ltr390_get_gain"] = <<Rd("gain")>>
      /\ Transfers["ltr390_get_mode"] = <<Rd("ctrl")>>
      /\ Transfers["ltr390_get_resolution"] = <<Rd("rate")>>
  BY Zenon, <1>2, CallNames DEF LtrSettings, LtrCalls
<1>5. QED
  BY Zenon, <1>1, <1>3, <1>4 DEF LtrInit, LtrReadData

LEMMA ThermoTable ==
  /\ Transfers["sht4x_init"] = <<Wr("reset"), Wr("serial"), Rd("serial")>>
  /\ Transfers["sht4x_measure"] = <<Wr("measure"), Rd("data")>>
  /\ Transfers["shtc3_init"] = <<Wr("wake"), Rd("id"), Wr("sleep")>>
  /\ Transfers["shtc3_measure"] = <<Wr("wake"), Wr("measure"), Rd("data"), Wr("sleep")>>
BY Zenon, CallNames DEF Transfers, Sht4xTransfers, Shtc3Transfers, LtrCalls

(* What is known of a list of transfers *)
LEMMA OneRead ==
  ASSUME NEW reg, NEW l, l = <<Rd(reg)>>
  PROVE  /\ Len(l) = 1
         /\ \A k \in 1 .. 1 :
              /\ l[k][1] = "write" => FALSE
              /\ l[k][1] = "read" => (k = 1 /\ l[k][2] = reg)
BY SMT DEF Rd, Wr

LEMMA OneWrite ==
  ASSUME NEW reg, NEW l, l = <<Wr(reg)>>
  PROVE  /\ Len(l) = 1
         /\ \A k \in 1 .. 1 :
              /\ l[k][1] = "write" => (k = 1 /\ l[k][2] = reg)
              /\ l[k][1] = "read" => FALSE
BY SMT DEF Rd, Wr

LEMMA TwoReads ==
  ASSUME NEW reg, NEW data, NEW l, l = <<Rd(reg), Rd(data)>>
  PROVE  /\ Len(l) = 2
         /\ \A k \in 1 .. 2 :
              /\ l[k][1] = "write" => FALSE
              /\ l[k][1] = "read" => (k = 1 /\ l[k][2] = reg) \/ (k = 2 /\ l[k][2] = data)
BY SMT DEF Rd, Wr

LEMMA ReadAndWrite ==
  ASSUME NEW reg, NEW l, l = <<Rd(reg), Wr(reg)>>
  PROVE  /\ Len(l) = 2
         /\ \A k \in 1 .. 2 :
              /\ l[k][1] = "write" => (k = 2 /\ l[k][2] = reg)
              /\ l[k][1] = "read" => (k = 1 /\ l[k][2] = reg)
BY SMT DEF Rd, Wr

LEMMA WriteAndRead ==
  ASSUME NEW reg, NEW data, NEW l, l = <<Wr(reg), Rd(data)>>
  PROVE  /\ Len(l) = 2
         /\ \A k \in 1 .. 2 :
              /\ l[k][1] = "write" => (k = 1 /\ l[k][2] = reg)
              /\ l[k][1] = "read" => (k = 2 /\ l[k][2] = data)
BY SMT DEF Rd, Wr

LEMMA InitTransfers ==
  ASSUME NEW l, l = <<Rd("id"), Wr("reset"), Rd("ctrl"), Rd("gain"), Rd("ctrl"), Rd("rate")>>
  PROVE  /\ Len(l) = 6
         /\ \A k \in 1 .. 6 :
              /\ l[k][1] = "write" => (k = 2 /\ l[k][2] = "reset")
              /\ l[k][1] = "read" => (k = 1 /\ l[k][2] = "id") \/ (k = 3 /\ l[k][2] = "ctrl") \/ (k = 4 /\ l[k][2] = "gain") \/ (k = 5 /\ l[k][2] = "ctrl") \/ (k = 6 /\ l[k][2] = "rate")
         /\ l[4][2] = "gain" /\ l[5][2] = "ctrl" /\ l[6][2] = "rate"
BY SMT DEF Rd, Wr

LEMMA Sht4xInitTransfers ==
  ASSUME NEW l, l = <<Wr("reset"), Wr("serial"), Rd("serial")>>
  PROVE  /\ Len(l) = 3
         /\ \A k \in 1 .. 3 :
              /\ l[k][1] = "write" => (k = 1 /\ l[k][2] = "reset") \/ (k = 2 /\ l[k][2] = "serial")
              /\ l[k][1] = "read" => (k = 3 /\ l[k][2] = "serial")
BY SMT DEF Rd, Wr

LEMMA Shtc3InitTransfers ==
  ASSUME NEW l, l = <<Wr("wake"), Rd("id"), Wr("sleep")>>
  PROVE  /\ Len(l) = 3
         /\ \A k \in 1 .. 3 :
              /\ l[k][1] = "write" => (k = 1 /\ l[k][2] = "wake") \/ (k = 3 /\ l[k][2] = "sleep")
              /\ l[k][1] = "read" => (k = 2 /\ l[k][2] = "id")
BY SMT DEF Rd, Wr

LEMMA Shtc3Transfers4 ==
  ASSUME NEW l, l = <<Wr("wake"), Wr("measure"), Rd("data"), Wr("sleep")>>
  PROVE  /\ Len(l) = 4
         /\ \A k \in 1 .. 4 :
              /\ l[k][1] = "write" => (k = 1 /\ l[k][2] = "wake") \/ (k = 2 /\ l[k][2] = "measure") \/ (k = 4 /\ l[k][2] = "sleep")
              /\ l[k][1] = "read" => (k = 3 /\ l[k][2] = "data")
BY SMT DEF Rd, Wr

(* How many transfers a function makes, where it writes what and where it reads it *)
Places(fn, k) ==
  /\ Transfers[fn][k][1] = "write" =>
       /\ Transfers[fn][k][2] = "ctrl" <=> fn \in CtrlCalls
       /\ fn \in CtrlCalls => k = 2
       /\ Transfers[fn][k][2] = "gain" => fn = "ltr390_set_gain"
       /\ Transfers[fn][k][2] = "rate" => fn = "ltr390_set_resolution"
       /\ fn = "sht4x_measure" => k = 1
  /\ Transfers[fn][k][1] = "read" =>
       /\ fn \in StoringCalls => fn \in CtrlCalls
       /\ fn \in CtrlCalls => k = 1 /\ Transfers[fn][k][2] = "ctrl"
       /\ fn \notin ThermoCalls =>
            /\ Transfers[fn][k][2] \in {"id", "status", "data", "ctrl", "gain", "rate"}
            /\ Transfers[fn][k][2] = "data" => fn = "ltr390_read" /\ k = 2
            /\ Transfers[fn][k][2] = "status" => fn = "ltr390_read" /\ k = 1
            /\ fn = "ltr390_read" /\ k = 1 => Transfers[fn][k][2] = "status"
       /\ fn = "ltr390_init" =>
            /\ k = 4 => Transfers[fn][k][2] = "gain"
            /\ k = 5 => Transfers[fn][k][2] = "ctrl"
            /\ k = 6 => Transfers[fn][k][2] = "rate"

Lengths(fn) ==
  /\ Len(Transfers[fn]) \in {1, 2, 3, 4, 6}
  /\ fn \in CtrlCalls \cup {"ltr390_read", "sht4x_measure"} => Len(Transfers[fn]) = 2
  /\ fn = "ltr390_set_resolution" => Len(Transfers[fn]) = 1

LEMMA PlacesOf ==
  ASSUME NEW fn \in DriverCalls
  PROVE  Lengths(fn) /\ \A k \in 1 .. Len(Transfers[fn]) : Places(fn, k)
<1>1. fn \in LtrCalls \/ fn \in ThermoCalls
  BY Zenon, CallNames
<1>2. CASE fn = "ltr390_init"
  <2>1. Transfers[fn] = <<Rd("id"), Wr("reset"), Rd("ctrl"), Rd("gain"), Rd("ctrl"), Rd("rate")>>
    BY Zenon, <1>2, LtrTable
  <2>2. /\ Len(Transfers[fn]) = 6
         /\ \A k \in 1 .. 6 :
              /\ Transfers[fn][k][1] = "write" => (k = 2 /\ Transfers[fn][k][2] = "reset")
              /\ Transfers[fn][k][1] = "read" => (k = 1 /\ Transfers[fn][k][2] = "id") \/ (k = 3 /\ Transfers[fn][k][2] = "ctrl") \/ (k = 4 /\ Transfers[fn][k][2] = "gain") \/ (k = 5 /\ Transfers[fn][k][2] = "ctrl") \/ (k = 6 /\ Transfers[fn][k][2] = "rate")
         /\ Transfers[fn][4][2] = "gain" /\ Transfers[fn][5][2] = "ctrl" /\ Transfers[fn][6][2] = "rate"
    BY Zenon, <2>1, InitTransfers
  <2>3. QED
    BY Zenon, <1>2, <2>2, CallNames DEF Lengths, Places, CtrlCalls, StoringCalls
<1>3. CASE fn = "ltr390_read"
  <2>1. Transfers[fn] = <<Rd("status"), Rd("data")>>
    BY Zenon, <1>3, LtrTable
  <2>2. /\ Len(Transfers[fn]) = 2
         /\ \A k \in 1 .. 2 :
              /\ Transfers[fn][k][1] = "write" => FALSE
              /\ Transfers[fn][k][1] = "read" => (k = 1 /\ Transfers[fn][k][2] = "status") \/ (k = 2 /\ Transfers[fn][k][2] = "data")
    BY SMT, <2>1, TwoReads
  <2>3. QED
    BY Zenon, <1>3, <2>2, CallNames DEF Lengths, Places, CtrlCalls, StoringCalls
<1>4. CASE fn \in CtrlCalls
  <2>1. Transfers[fn] = <<Rd("ctrl"), Wr("ctrl")>>
    BY Zenon, <1>4, LtrTable
  <2>2. /\ Len(Transfers[fn]) = 2
         /\ \A k \in 1 .. 2 :
              /\ Transfers[fn][k][1] = "write" => (k = 2 /\ Transfers[fn][k][2] = "ctrl")
              /\ Transfers[fn][k][1] = "read" => (k = 1 /\ Transfers[fn][k][2] = "ctrl")
    BY SMT, <2>1, ReadAndWrite
  <2>3. QED
    BY Zenon, <1>4, <2>2, CallNames DEF Lengths, Places, CtrlCalls, StoringCalls
<1>5. CASE fn = "ltr390_set_gain"
  <2>1. Transfers[fn] = <<Rd("gain"), Wr("gain")>>
    BY Zenon, <1>5, LtrTable
  <2>2. /\ Len(Transfers[fn]) = 2
         /\ \A k \in 1 .. 2 :
              /\ Transfers[fn][k][1] = "write" => (k = 2 /\ Transfers[fn][k][2] = "gain")
              /\ Transfers[fn][k][1] = "read" => (k = 1 /\ Transfers[fn][k][2] = "gain")
    BY SMT, <2>1, ReadAndWrite
  <2>3. QED
    BY Zenon, <1>5, <2>2, CallNames DEF Lengths, Places, CtrlCalls, StoringCalls
<1>6. CASE fn = "ltr390_set_resolution"
  <2>1. Transfers[fn] = <<Wr("rate")>>
    BY Zenon, <1>6, LtrTable
  <2>2. /\ Len(Transfers[fn]) = 1
         /\ \A k \in 1 .. 1 :
              /\ Transfers[fn][k][1] = "write" => (k = 1 /\ Transfers[fn][k][2] = "rate")
              /\ Transfers[fn][k][1] = "read" => FALSE
    BY SMT, <2>1, OneWrite
  <2>3. QED
    BY Zenon, <1>6, <2>2, CallNames DEF Lengths, Places, CtrlCalls, StoringCalls
<1>7. CASE fn = "ltr390_get_gain"
  <2>1. Transfers[fn] = <<Rd("gain")>>
    BY Zenon, <1>7, LtrTable
  <2>2. /\ Len(Transfers[fn]) = 1
         /\ \A k \in 1 .. 1 :
              /\ Transfers[fn][k][1] = "write" => FALSE
              /\ Transfers[fn][k][1] = "read" => (k = 1 /\ Transfers[fn][k][2] = "gain")
    BY SMT, <2>1, OneRead
  <2>3. QED
    BY Zenon, <1>7, <2>2, CallNames DEF Lengths, Places, CtrlCalls, StoringCalls
<1>8. CASE fn = "ltr390_get_mode"
  <2>1. Transfers[fn] = <<Rd("ctrl")>>
    BY Zenon, <1>8, LtrTable
  <2>2. /\ Len(Transfers[fn]) = 1
         /\ \A k \in 1 .. 1 :
              /\ Transfers[fn][k][1] = "write" => FALSE
              /\ Transfers[fn][k][1] = "read" => (k = 1 /\ Transfers[fn][k][2] = "ctrl")
    BY SMT, <2>1, OneRead
  <2>3. QED
    BY Zenon, <1>8, <2>2, CallNames DEF Lengths, Places, CtrlCalls, StoringCalls
<1>9. CASE fn = "ltr390_get_resolution"
  <2>1. Transfers[fn] = <<Rd("rate")>>
    BY Zenon, <1>9, LtrTable
  <2>2. /\ Len(Transfers[fn]) = 1
         /\ \A k \in 1 .. 1 :
              /\ Transfers[fn][k][1] = "write" => FALSE
              /\ Transfers[fn][k][1] = "read" => (k = 1 /\ Transfers[fn][k][2] = "rate")
    BY SMT, <2>1, OneRead
  <2>3. QED
    BY Zenon, <1>9, <2>2, CallNames DEF Lengths, Places, CtrlCalls, StoringCalls
<1>10. CASE fn = "sht4x_init"
  <2>1. Transfers[fn] = <<Wr("reset"), Wr("serial"), Rd("serial")>>
    BY Zenon, <1>10, ThermoTable
  <2>2. /\ Len(Transfers[fn]) = 3
         /\ \A k \in 1 .. 3 :
              /\ Transfers[fn][k][1] = "write" => (k = 1 /\ Transfers[fn][k][2] = "reset") \/ (k = 2 /\ Transfers[fn][k][2] = "serial")
              /\ Transfers[fn][k][1] = "read" => (k = 3 /\ Transfers[fn][k][2] = "serial")
    BY Zenon, <2>1, Sht4xInitTransfers
  <2>3. QED
    BY Zenon, <1>10, <2>2, CallNames DEF Lengths, Places, CtrlCalls, StoringCalls
<1>11. CASE fn = "sht4x_measure"
  <2>1. Transfers[fn] = <<Wr("measure"), Rd("data")>>
    BY Zenon, <1>11, ThermoTable
  <2>2. /\ Len(Transfers[fn]) = 2
         /\ \A k \in 1 .. 2 :
              /\ Transfers[fn][k][1] = "write" => (k = 1 /\ Transfers[fn][k][2] = "measure")
              /\ Transfers[fn][k][1] = "read" => (k = 2 /\ Transfers[fn][k][2] = "data")
    BY SMT, <2>1, WriteAndRead
  <2>3. QED
    BY Zenon, <1>11, <2>2, CallNames DEF Lengths, Places, CtrlCalls, StoringCalls
<1>12. CASE fn = "shtc3_init"
  <2>1. Transfers[fn] = <<Wr("wake"), Rd("id"), Wr("sleep")>>
    BY Zenon, <1>12, ThermoTable
  <2>2. /\ Len(Transfers[fn]) = 3
         /\ \A k \in 1 .. 3 :
              /\ Transfers[fn][k][1] = "write" => (k = 1 /\ Transfers[fn][k][2] = "wake") \/ (k = 3 /\ Transfers[fn][k][2] = "sleep")
              /\ Transfers[fn][k][1] = "read" => (k = 2 /\ Transfers[fn][k][2] = "id")
    BY Zenon, <2>1, Shtc3InitTransfers
  <2>3. QED
    BY Zenon, <1>12, <2>2, CallNames DEF Lengths, Places, CtrlCalls, StoringCalls
<1>13. CASE fn = "shtc3_measure"
  <2>1. Transfers[fn] = <<Wr("wake"), Wr("measure"), Rd("data"), Wr("sleep")>>
    BY Zenon, <1>13, ThermoTable
  <2>2. /\ Len(Transfers[fn]) = 4
         /\ \A k \in 1 .. 4 :
              /\ Transfers[fn][k][1] = "write" => (k = 1 /\ Transfers[fn][k][2] = "wake") \/ (k = 2 /\ Transfers[fn][k][2] = "measure") \/ (k = 4 /\ Transfers[fn][k][2] = "sleep")
              /\ Transfers[fn][k][1] = "read" => (k = 3 /\ Transfers[fn][k][2] = "data")
    BY Zenon, <2>1, Shtc3Transfers4
  <2>3. QED
    BY Zenon, <1>13, <2>2, CallNames DEF Lengths, Places, CtrlCalls, StoringCalls
<1>14. QED
  BY Zenon, <1>1, CallNames, <1>2, <1>3, <1>4, <1>5, <1>6, <1>7, <1>8, <1>9, <1>10, <1>11, <1>12, <1>13 DEF LtrCalls, CtrlCalls

--------------------------------------------------------------------------------
(* What a step does to the mutexes, the calls and the lists of a task *)

Takes(t) ==
  LET s == Head(todo[t])
  IN /\ ~InCall(t) /\ todo[t] # <<>> /\ s[1] \in DriverCalls
     /\ mutex[Device(s[1])] = Nobody
     /\ mutex' = [mutex EXCEPT ![Device(s[1])] = t]
     /\ call' = [call EXCEPT ![t] = Call(s)]
     /\ todo' = [todo EXCEPT ![t] = Tail(todo[t])]

TimesOut(t) ==
  /\ ~InCall(t) /\ todo[t] # <<>>
  /\ mutex' = mutex
  /\ call' = [call EXCEPT ![t] = NoCall("error")]
  /\ todo' = [todo EXCEPT ![t] = Tail(todo[t])]

Advances(t) ==
  /\ Transferring(t)
  /\ \E value \in CtrlReg : Advance(t, value)
  /\ mutex' = mutex /\ todo' = todo

Ends(t) ==
  /\ InCall(t) /\ call[t].at <= Len(Transfers[call[t].fn]) + 1
  /\ mutex' = [mutex EXCEPT ![Device(call[t].fn)] = Nobody]
  /\ \E res \in {"ok", "error"} : call' = [call EXCEPT ![t] = NoCall(res)]
  /\ todo' = todo

Gives(t) ==
  /\ InCall(t) /\ call[t].at = Len(Transfers[call[t].fn]) + 1
  /\ call[t].fn \in StoringCalls
  /\ mutex' = [mutex EXCEPT ![Device(call[t].fn)] = Nobody]
  /\ Step(t)
  /\ todo' = todo

Finishes(t) ==
  /\ InCall(t) /\ call[t].at = Len(Transfers[call[t].fn]) + 2
  /\ mutex' = mutex /\ todo' = todo
  /\ call' = [call EXCEPT ![t] = NoCall("ok")]

Told(t, calls) ==
  /\ Idle(t)
  /\ mutex' = mutex /\ call' = call
  /\ todo' = [todo EXCEPT ![t] = calls]

Stores ==
  /\ ~InCall(Mqtt) /\ todo[Mqtt] # <<>>
  /\ mutex' = mutex /\ call' = call
  /\ todo' = [todo EXCEPT ![Mqtt] = Tail(todo[Mqtt])]

Reboots == mutex' = NewMutex /\ call' = NewCall /\ todo' = NewTodo

OptionCalls(e, m, g, r) ==
  << <<"ltr390_set_mode", m>>, <<"ltr390_set_gain", g>>, <<"ltr390_set_resolution", r>>,
     <<IF e THEN "ltr390_enable" ELSE "ltr390_standby", 0>>,
     <<"ltr390_get_gain", 0>>, <<"ltr390_get_mode", 0>>, <<"ltr390_get_resolution", 0>> >>

Handled ==
  \/ \E e \in BOOLEAN, m \in Modes, g \in Gains, r \in Rates : Told(Mqtt, OptionCalls(e, m, g, r))
  \/ \E e \in BOOLEAN, m \in {High, Low, commands + 1} :
       Told(Mqtt, Sht4xStores(e, m)) \/ Told(Mqtt, Shtc3Stores(e))

SensorTold ==
  \/ Told(Sensor, << <<"ltr390_read", 0>> >>)
  \/ Told(Sensor, << <<"ltr390_set_mode", 1 - sen.label>> >>)
  \/ Told(Sensor, << <<MeasureCall, thermo.mode>> >>)

BusStep ==
  \/ \E t \in Tasks : \/ Takes(t) \/ TimesOut(t) \/ Advances(t) \/ Ends(t) \/ Gives(t) \/ Finishes(t)
  \/ SensorTold \/ Handled \/ Stores \/ Reboots
  \/ bus' = bus

LEMMA HeadAndTail ==
  ASSUME NEW S, NEW s \in Seq(S), s # <<>>
  PROVE  /\ Head(s) = s[1] /\ 1 \in DOMAIN s /\ Head(s) \in S
         /\ Tail(s) \in Seq(S)
         /\ \A k \in DOMAIN Tail(s) : k + 1 \in DOMAIN s /\ Tail(s)[k] = s[k + 1]
OBVIOUS

LEMMA StepShape ==
  ASSUME NEW s \in Steps
  PROVE  /\ s[1] \in DriverCalls \cup {"enabled", "mode"}
         /\ s[1] \in DriverCalls => s[2] \in Int
         /\ s[1] = "enabled" => s[2] \in BOOLEAN
         /\ s[1] = "mode" => s[2] \in Int
<1>1. s \in (DriverCalls \X Int) \/ s \in ({"enabled"} \X BOOLEAN) \/ s \in ({"mode"} \X Int)
  BY DEF Steps
<1>2. "enabled" \notin DriverCalls /\ "mode" \notin DriverCalls
  BY Zenon, CallNames DEF LtrCalls
<1>3. CASE s \in DriverCalls \X Int
  <2>1. s[1] \in DriverCalls /\ s[2] \in Int
    BY SMT, <1>3
  <2>2. QED
    BY Zenon, <2>1, <1>2
<1>4. CASE s \in ({"enabled"} \X BOOLEAN)
  <2>1. s[1] = "enabled" /\ s[2] \in BOOLEAN
    BY SMT, <1>4
  <2>2. QED
    BY Zenon, <2>1, <1>2
<1>5. CASE s \in ({"mode"} \X Int)
  <2>1. s[1] = "mode" /\ s[2] \in Int
    BY SMT, <1>5
  <2>2. QED
    BY Zenon, <2>1, <1>2
<1>6. QED
  BY Zenon, <1>1, <1>3, <1>4, <1>5

LEMMA BootLists ==
  /\ BootCalls # <<>> /\ AfterInit # <<>> /\ AfterEnable # <<>>
  /\ Head(BootCalls) = <<"ltr390_init", 0>> /\ Tail(BootCalls) = AfterInit
  /\ Head(AfterInit) = <<"ltr390_enable", 0>> /\ Tail(AfterInit) = AfterEnable
  /\ Head(AfterEnable) = <<ThermoInitCall, 0>> /\ Tail(AfterEnable) = <<>>
BY DEF BootCalls, AfterInit, AfterEnable

CallRec == [fn : DriverCalls \cup {"none"}, arg : Int, at : Nat, got : CtrlReg, result : {"ok", "error"}]

LEMMA CallTyped ==
  ASSUME TypeOK, NEW t \in Tasks
  PROVE  /\ call[t] \in CallRec
         /\ call[t].fn \in DriverCalls \cup {"none"} /\ call[t].arg \in Int /\ call[t].at \in Nat
         /\ call[t].got \in CtrlReg /\ call[t].result \in {"ok", "error"}
         /\ todo[t] \in Seq(Steps)
         /\ InCall(t) => call[t].fn \in DriverCalls
<1>1. call[t] \in CallRec /\ todo[t] \in Seq(Steps)
  BY Zenon DEF TypeOK, CallRec
<1>2. QED
  BY Zenon, <1>1 DEF CallRec, InCall

LEMMA AtPlace ==
  ASSUME TypeOK, NEW t \in Tasks, Transferring(t)
  PROVE  /\ call[t].fn \in DriverCalls /\ InCall(t)
         /\ call[t].at \in 1 .. Len(Transfers[call[t].fn])
         /\ Lengths(call[t].fn) /\ Places(call[t].fn, call[t].at)
         /\ Transfer(t) = Transfers[call[t].fn][call[t].at]
BY Zenon, CallTyped, PlacesOf DEF Transferring, Transfer

LEMMA NextCall ==
  ASSUME TypeOK, ArgInv, NEW t \in Tasks, todo[t] # <<>>
  PROVE  /\ Head(todo[t])[1] \in DriverCalls \cup {"enabled", "mode"}
         /\ Head(todo[t])[1] \in DriverCalls => Head(todo[t])[2] \in Int
         /\ Head(todo[t])[1] = "enabled" => Head(todo[t])[2] \in BOOLEAN
         /\ Head(todo[t])[1] = "mode" => Head(todo[t])[2] \in Int
         /\ ArgOK(Head(todo[t])[1], Head(todo[t])[2])
         /\ Tail(todo[t]) \in Seq(Steps)
         /\ \A k \in DOMAIN Tail(todo[t]) : ArgOK(Tail(todo[t])[k][1], Tail(todo[t])[k][2])
<1>1. todo[t] \in Seq(Steps)
  BY Zenon, CallTyped
<1>2. /\ Head(todo[t]) = todo[t][1] /\ 1 \in DOMAIN todo[t] /\ Head(todo[t]) \in Steps
      /\ Tail(todo[t]) \in Seq(Steps)
      /\ \A k \in DOMAIN Tail(todo[t]) : k + 1 \in DOMAIN todo[t] /\ Tail(todo[t])[k] = todo[t][k + 1]
  BY <1>1, HeadAndTail
<1>3. \A k \in DOMAIN todo[t] : ArgOK(todo[t][k][1], todo[t][k][2])
  BY Zenon DEF ArgInv
<1>4. /\ Head(todo[t])[1] \in DriverCalls \cup {"enabled", "mode"}
      /\ Head(todo[t])[1] \in DriverCalls => Head(todo[t])[2] \in Int
      /\ Head(todo[t])[1] = "enabled" => Head(todo[t])[2] \in BOOLEAN
      /\ Head(todo[t])[1] = "mode" => Head(todo[t])[2] \in Int
  BY Zenon, <1>2, StepShape
<1>5. QED
  BY Zenon, <1>2, <1>3, <1>4

LEMMA DeviceOf ==
  ASSUME NEW fn
  PROVE  Device(fn) \in Devices
BY Zenon DEF Device, Devices

(* What a write leaves in the chips *)
LEMMA WriteEffect ==
  ASSUME TypeOK, ArgInv, NEW t \in Tasks, Transferring(t), Transfer(t)[1] = "write", Written(t)
  PROVE  /\ chip' \in [ctrl : CtrlReg, gain : GainReg, rate : RateReg, ready : BOOLEAN]
         /\ awake' \in BOOLEAN
         /\ call[t].fn \in CtrlCalls => call[t].at = 2 /\ chip'.ctrl = NewCtrl(call[t])
         /\ call[t].fn \notin CtrlCalls \cup {"ltr390_init"} => chip'.ctrl = chip.ctrl
         /\ call[t].fn = "sht4x_measure" => call[t].at = 1
         /\ heated' = IF call[t].fn = "sht4x_measure" /\ Heater(call[t].arg)
                      THEN Append(heated, call[t].arg) ELSE heated
<1> DEFINE c == call[t]
           reg == Transfer(t)[2]
<1>1. /\ c.fn \in DriverCalls /\ Places(c.fn, c.at) /\ Transfer(t) = Transfers[c.fn][c.at]
  BY Zenon, AtPlace
<1>2. /\ reg = "ctrl" <=> c.fn \in CtrlCalls
      /\ c.fn \in CtrlCalls => c.at = 2
      /\ reg = "gain" => c.fn = "ltr390_set_gain"
      /\ reg = "rate" => c.fn = "ltr390_set_resolution"
      /\ c.fn = "sht4x_measure" => c.at = 1
  BY Zenon, <1>1 DEF Places
<1>3. /\ reg = "gain" => c.arg \in Gains
      /\ reg = "rate" => c.arg \in Rates
      /\ c.fn = "ltr390_set_mode" => c.arg \in Modes
  BY Zenon, <1>2 DEF ArgInv, ArgOK
<1>4. c.got \in CtrlReg /\ chip \in [ctrl : CtrlReg, gain : GainReg, rate : RateReg, ready : BOOLEAN]
  BY Zenon, CallTyped DEF TypeOK
<1>5. c.fn \in CtrlCalls => NewCtrl(c) \in CtrlReg
  <2>1. CASE c.fn = "ltr390_enable"
    <3>1. NewCtrl(c) = [c.got EXCEPT !.en = TRUE]
      BY Zenon, <2>1 DEF NewCtrl
    <3>2. QED
      BY Zenon, <3>1, <1>4 DEF CtrlReg
  <2>2. CASE c.fn = "ltr390_standby"
    <3>1. NewCtrl(c) = [c.got EXCEPT !.en = FALSE]
      BY Zenon, <2>2 DEF NewCtrl
    <3>2. QED
      BY Zenon, <3>1, <1>4 DEF CtrlReg
  <2>3. CASE c.fn = "ltr390_set_mode"
    <3>1. NewCtrl(c) = [c.got EXCEPT !.mode = c.arg]
      BY Zenon, <2>3 DEF NewCtrl
    <3>2. QED
      BY Zenon, <3>1, <1>3, <1>4, <2>3 DEF CtrlReg
  <2>4. QED
    BY Zenon, <2>1, <2>2, <2>3 DEF CtrlCalls
<1>6. /\ chip' = CASE reg = "ctrl" -> [chip EXCEPT !.ctrl = NewCtrl(c)]
                  [] reg = "gain" -> [chip EXCEPT !.gain = c.arg]
                  [] reg = "rate" -> [chip EXCEPT !.rate = c.arg]
                  [] reg = "reset" /\ c.fn = "ltr390_init" -> NewChip
                  [] OTHER -> chip
      /\ awake' = CASE reg = "wake" -> TRUE [] reg = "sleep" -> FALSE [] OTHER -> awake
      /\ heated' = IF c.fn = "sht4x_measure" /\ Heater(c.arg) THEN Append(heated, c.arg) ELSE heated
  BY Zenon DEF Written
<1>7. awake' \in BOOLEAN
  BY Zenon, <1>6 DEF TypeOK
<1>8. CASE reg = "ctrl"
  <2>1. chip' = [chip EXCEPT !.ctrl = NewCtrl(c)]
    BY Zenon, <1>6, <1>8
  <2>2. chip'.ctrl = NewCtrl(c)
        /\ chip' \in [ctrl : CtrlReg, gain : GainReg, rate : RateReg, ready : BOOLEAN]
    BY Zenon, <2>1, <1>2, <1>4, <1>5, <1>8
  <2>3. QED
    BY Zenon, <2>2, <1>2, <1>6, <1>7, <1>8
<1>9. CASE reg = "gain"
  <2>1. chip' = [chip EXCEPT !.gain = c.arg] /\ c.arg \in GainReg
    BY Zenon, <1>6, <1>9, <1>3 DEF GainReg
  <2>2. chip'.ctrl = chip.ctrl /\ chip' \in [ctrl : CtrlReg, gain : GainReg, rate : RateReg, ready : BOOLEAN]
    BY Zenon, <2>1, <1>4
  <2>3. QED
    BY Zenon, <2>2, <1>2, <1>6, <1>7, <1>9
<1>10. CASE reg = "rate"
  <2>1. chip' = [chip EXCEPT !.rate = c.arg] /\ c.arg \in RateReg
    BY Zenon, <1>6, <1>10, <1>3 DEF RateReg
  <2>2. chip'.ctrl = chip.ctrl /\ chip' \in [ctrl : CtrlReg, gain : GainReg, rate : RateReg, ready : BOOLEAN]
    BY Zenon, <2>1, <1>4
  <2>3. QED
    BY Zenon, <2>2, <1>2, <1>6, <1>7, <1>10
<1>11. CASE reg = "reset" /\ c.fn = "ltr390_init"
  <2>1. chip' = NewChip
    BY Zenon, <1>6, <1>11
  <2>2. chip' \in [ctrl : CtrlReg, gain : GainReg, rate : RateReg, ready : BOOLEAN]
    BY Zenon, <2>1 DEF NewChip, NoCtrl, CtrlReg, Modes, GainReg, RateReg
  <2>3. c.fn \notin CtrlCalls
    BY Zenon, <1>11 DEF CtrlCalls
  <2>4. QED
    BY Zenon, <2>2, <2>3, <1>2, <1>6, <1>7, <1>11
<1>12. CASE reg \notin {"ctrl", "gain", "rate"} /\ ~(reg = "reset" /\ c.fn = "ltr390_init")
  <2>1. chip' = chip
    BY Zenon, <1>6, <1>12
  <2>2. QED
    BY Zenon, <2>1, <1>2, <1>4, <1>6, <1>7, <1>12
<1>13. QED
  BY Zenon, <1>8, <1>9, <1>10, <1>11, <1>12

(* Every other task keeps its call and its list. *)
OthersKeep(t) == \A u \in Tasks : u # t => call'[u] = call[u] /\ todo'[u] = todo[u]

LEMMA AdvanceEffect ==
  ASSUME TypeOK, NEW t \in Tasks, NEW value, Advance(t, value)
  PROVE  /\ call'[t].fn = call[t].fn /\ call'[t].arg = call[t].arg /\ call'[t].at = call[t].at + 1
         /\ call'[t].got = value /\ call'[t].result = call[t].result
         /\ \A u \in Tasks : u # t => call'[u] = call[u]
         /\ value \in CtrlReg => call' \in [Tasks -> CallRec]
<1>1. call \in [Tasks -> CallRec] /\ call[t] \in CallRec
  BY Zenon, CallTyped DEF TypeOK, CallRec
<1> DEFINE c == [call[t] EXCEPT !.at = call[t].at + 1, !.got = value]
<1>2. call' = [call EXCEPT ![t] = c]
  BY Zenon DEF Advance
<1>3. /\ c.fn = call[t].fn /\ c.arg = call[t].arg /\ c.at = call[t].at + 1 /\ c.got = value
      /\ c.result = call[t].result
  BY Zenon, <1>1 DEF CallRec
<1>4. value \in CtrlReg => c \in CallRec
  <2>1. call[t].at + 1 \in Nat
    BY SMT, CallTyped
  <2>2. QED
    BY Zenon, <2>1, <1>1 DEF CallRec
<1> HIDE DEF c
<1>5. call'[t] = c /\ \A u \in Tasks : u # t => call'[u] = call[u]
  BY Zenon, <1>1, <1>2
<1>6. c \in CallRec => call' \in [Tasks -> CallRec]
  BY Zenon, <1>1, <1>2
<1>7. QED
  BY Zenon, <1>3, <1>4, <1>5, <1>6

LEMMA NewCallEffect ==
  ASSUME TypeOK, NEW t \in Tasks, NEW c, call' = [call EXCEPT ![t] = c]
  PROVE  /\ call'[t] = c /\ \A u \in Tasks : u # t => call'[u] = call[u]
         /\ c \in CallRec => call' \in [Tasks -> CallRec]
<1>1. call \in [Tasks -> CallRec]
  BY Zenon DEF TypeOK, CallRec
<1>2. QED
  BY Zenon, <1>1

LEMMA NewTodoEffect ==
  ASSUME TypeOK, NEW t \in Tasks, NEW l, todo' = [todo EXCEPT ![t] = l]
  PROVE  /\ todo'[t] = l /\ \A u \in Tasks : u # t => todo'[u] = todo[u]
         /\ l \in Seq(Steps) => todo' \in [Tasks -> Seq(Steps)]
<1>1. todo \in [Tasks -> Seq(Steps)]
  BY Zenon DEF TypeOK
<1>2. QED
  BY Zenon, <1>1

LEMMA NewMutexEffect ==
  ASSUME TypeOK, NEW d \in Devices, NEW t, mutex' = [mutex EXCEPT ![d] = t]
  PROVE  /\ mutex'[d] = t /\ \A e \in Devices : e # d => mutex'[e] = mutex[e]
         /\ t \in Tasks \cup {Nobody} => mutex' \in [Devices -> Tasks \cup {Nobody}]
<1>1. mutex \in [Devices -> Tasks \cup {Nobody}]
  BY Zenon DEF TypeOK
<1>2. QED
  BY Zenon, <1>1

LEMMA NoCallTyped ==
  ASSUME NEW res \in {"ok", "error"}
  PROVE  /\ NoCall(res) \in CallRec /\ NoCall(res).fn = "none" /\ NoCall(res).at = 0
         /\ NoCall(res).result = res
<1>1. 0 \in Int /\ 0 \in Nat
  OBVIOUS
<1>2. NoCtrl \in CtrlReg
  BY Zenon DEF NoCtrl, CtrlReg, Modes
<1>3. QED
  BY Zenon, <1>1, <1>2 DEF NoCall, CallRec

LEMMA EndsOnce ==
  ASSUME TypeOK, NEW t \in Tasks, Advances(t)
  PROVE  ~Ends(t)
<1>1. InCall(t)
  BY Zenon DEF Advances, Transferring
<1>2. call'[t].fn = call[t].fn
  BY Zenon, AdvanceEffect DEF Advances
<1>3. Ends(t) => call'[t].fn = "none"
  BY Zenon, NewCallEffect, NoCallTyped DEF Ends
<1>4. QED
  BY Zenon, <1>1, <1>2, <1>3 DEF InCall

StRec   == [enabled : BOOLEAN, gain : GainReg, mode : Modes, rate : RateReg]
ChipRec == [ctrl : CtrlReg, gain : GainReg, rate : RateReg, ready : BOOLEAN]
SenRec  == [at : {"ltr390", "select", "recheck", "convert", "thermo", "mode", "reset", "heater"},
            label : Modes, source : Modes, taken : Modes \cup {Garbage}]

(* What a read leaves in the state of the driver *)
LEMMA StoreEffect ==
  ASSUME TypeOK, NEW t \in Tasks, Transferring(t), Transfer(t)[1] = "read", NEW value, Store(t, value),
         Transfer(t)[2] = "gain" => value \in GainReg,
         Transfer(t)[2] = "rate" => value \in RateReg,
         Transfer(t)[2] = "ctrl" => value \in CtrlReg
  PROVE  /\ st' \in StRec /\ st'.enabled = st.enabled
         /\ call[t].fn # "ltr390_init" => st' = st
<1>1. Places(call[t].fn, call[t].at) /\ Transfer(t) = Transfers[call[t].fn][call[t].at]
  BY Zenon, AtPlace
<1>2. st \in StRec
  BY Zenon DEF TypeOK, StRec
<1>3. CASE call[t].fn # "ltr390_init"
  BY Zenon, <1>2, <1>3 DEF Store, StRec
<1>4. CASE call[t].fn = "ltr390_init"
  <2>1. st' = CASE call[t].at = 4 -> [st EXCEPT !.gain = value]
                [] call[t].at = 5 -> [st EXCEPT !.mode = value.mode]
                [] call[t].at = 6 -> [st EXCEPT !.rate = value]
                [] OTHER -> st
    BY Zenon, <1>4 DEF Store
  <2>2. /\ call[t].at = 4 => value \in GainReg
        /\ call[t].at = 5 => value.mode \in Modes
        /\ call[t].at = 6 => value \in RateReg
    BY Zenon, <1>1, <1>4 DEF Places, CtrlReg
  <2>3. 4 # 5 /\ 4 # 6 /\ 5 # 6
    OBVIOUS
  <2>4. \/ call[t].at = 4 /\ st' = [st EXCEPT !.gain = value]
        \/ call[t].at = 5 /\ st' = [st EXCEPT !.mode = value.mode]
        \/ call[t].at = 6 /\ st' = [st EXCEPT !.rate = value]
        \/ st' = st
    BY Zenon, <2>1, <2>3
  <2>5. QED
    BY Zenon, <2>2, <2>4, <1>2, <1>4 DEF StRec
<1>5. QED
  BY Zenon, <1>3, <1>4

LEMMA GotEffect ==
  ASSUME TypeOK, NEW t \in Tasks, Transferring(t), Transfer(t)[1] = "read", NEW value, Got(t, value),
         Transfer(t)[2] = "ctrl" => value \in CtrlReg, todo' = todo
  PROVE  /\ \/ call[t].fn = "ltr390_read" /\ call[t].at = 1 /\ ~value /\ Return(t, "error") /\ Ends(t)
            \/ /\ ~(call[t].fn = "ltr390_read" /\ call[t].at = 1 /\ ~value)
               /\ Advances(t)
               /\ call[t].fn \in StoringCalls => Advance(t, value)
<1>1. /\ Places(call[t].fn, call[t].at) /\ Transfer(t) = Transfers[call[t].fn][call[t].at]
      /\ InCall(t) /\ call[t].at \in 1 .. Len(Transfers[call[t].fn])
      /\ Lengths(call[t].fn)
  BY Zenon, AtPlace
<1>2. call[t].fn \in StoringCalls => value \in CtrlReg
  BY Zenon, <1>1 DEF Places
<1>3. NoCtrl \in CtrlReg
  BY Zenon DEF NoCtrl, CtrlReg, Modes
<1>4. CASE call[t].fn = "ltr390_read" /\ call[t].at = 1 /\ ~value
  <2>1. Release("ltr390") /\ Return(t, "error")
    BY Zenon, <1>4 DEF Got
  <2>2. Device(call[t].fn) = "ltr390"
    BY Zenon, <1>4, CallNames DEF Device
  <2>3. call[t].at <= Len(Transfers[call[t].fn]) + 1
    BY SMT, <1>1 DEF Lengths
  <2>4. Ends(t)
    BY Zenon, <1>1, <2>1, <2>2, <2>3 DEF Ends, Release, Return
  <2>5. QED
    BY Zenon, <1>4, <2>1, <2>4
<1>5. CASE ~(call[t].fn = "ltr390_read" /\ call[t].at = 1 /\ ~value)
  <2>1. Advance(t, IF call[t].fn \in StoringCalls THEN value ELSE NoCtrl) /\ mutex' = mutex
    BY Zenon, <1>5 DEF Got
  <2>2. (IF call[t].fn \in StoringCalls THEN value ELSE NoCtrl) \in CtrlReg
    BY Zenon, <1>2, <1>3
  <2>3. Advances(t)
    BY Zenon, <2>1, <2>2 DEF Advances
  <2>4. QED
    BY Zenon, <1>5, <2>1, <2>3
<1>6. QED
  BY Zenon, <1>4, <1>5

LEMMA ReadEffect ==
  ASSUME TypeOK, NEW t \in Tasks, Read(t)
  PROVE  /\ Transferring(t)
         /\ Ends(t) \/ Advances(t)
         /\ call[t].fn \in StoringCalls => Advance(t, chip.ctrl) /\ call[t].at = 1 /\ call[t].fn \in CtrlCalls
         /\ call[t].fn = "ltr390_read" /\ call[t].at = 2 => Advances(t)
         /\ Ends(t) => Return(t, "error")
         /\ chip' \in ChipRec /\ chip'.ctrl = chip.ctrl
         /\ st' \in StRec /\ st'.enabled = st.enabled
         /\ call[t].fn # "ltr390_init" => st' = st
         /\ sen' \in SenRec /\ sen'.at = sen.at /\ sen'.label = sen.label /\ sen'.source = sen.source
         /\ IF call[t].fn = "ltr390_read" /\ call[t].at = 2 THEN sen'.taken = chip.ctrl.mode ELSE sen' = sen
         /\ UNCHANGED <<thermo, awake, commands, errors, wrong, heated>>
<1> DEFINE reg == Transfer(t)[2]
           thermal == call[t].fn \in ThermoCalls
           value == CASE thermal \/ reg \in {"id", "data"} -> 0
                     [] reg = "status" -> chip.ready
                     [] OTHER -> chip[reg]
<1>1. /\ Transferring(t) /\ Transfer(t)[1] = "read"
      /\ Got(t, value) /\ Store(t, value)
      /\ chip' = IF reg = "status" THEN [chip EXCEPT !.ready = FALSE] ELSE chip
      /\ sen' = IF reg = "data" /\ ~thermal THEN [sen EXCEPT !.taken = chip.ctrl.mode] ELSE sen
      /\ UNCHANGED <<todo, thermo, awake, commands, errors, wrong, heated>>
  BY Zenon DEF Read
<1>2. /\ Places(call[t].fn, call[t].at) /\ Transfer(t) = Transfers[call[t].fn][call[t].at]
      /\ InCall(t) /\ call[t].at \in 1 .. Len(Transfers[call[t].fn])
      /\ call[t].fn \in DriverCalls
      /\ Lengths(call[t].fn)
  BY Zenon, <1>1, AtPlace
<1> HIDE DEF value
<1>3. chip \in ChipRec /\ sen \in SenRec
  BY Zenon DEF TypeOK, ChipRec, SenRec
<1>4. /\ reg = "ctrl" /\ ~thermal => value = chip.ctrl
      /\ reg = "gain" /\ ~thermal => value = chip.gain
      /\ reg = "rate" /\ ~thermal => value = chip.rate
  BY Zenon DEF value
<1>5. call[t].fn \in CtrlCalls \cup {"ltr390_init", "ltr390_read"} => ~thermal
  BY Zenon, CallNames DEF CtrlCalls
<1>6. call[t].fn \in StoringCalls => call[t].fn \in CtrlCalls /\ call[t].at = 1 /\ reg = "ctrl" /\ value = chip.ctrl
  BY Zenon, <1>1, <1>2, <1>4, <1>5 DEF Places
<1>7. /\ chip.ctrl \in CtrlReg /\ chip.gain \in GainReg /\ chip.rate \in RateReg
  BY Zenon, <1>3 DEF ChipRec
<1>8. chip' \in ChipRec /\ chip'.ctrl = chip.ctrl
  BY Zenon, <1>1, <1>3 DEF ChipRec
<1>9. reg = "data" /\ ~thermal <=> call[t].fn = "ltr390_read" /\ call[t].at = 2
  <2>1. reg = "data" /\ ~thermal => call[t].fn = "ltr390_read" /\ call[t].at = 2
    BY Zenon, <1>1, <1>2 DEF Places
  <2>2. ASSUME call[t].fn = "ltr390_read", call[t].at = 2 PROVE reg = "data"
    <3>1. Transfers[call[t].fn] = <<Rd("status"), Rd("data")>>
      BY Zenon, <2>2, LtrTable
    <3>2. QED
      BY SMT, <3>1, <2>2, <1>2 DEF Rd
  <2>3. QED
    BY Zenon, <2>1, <2>2, <1>5
<1>10. /\ sen' \in SenRec /\ sen'.at = sen.at /\ sen'.label = sen.label /\ sen'.source = sen.source
       /\ IF call[t].fn = "ltr390_read" /\ call[t].at = 2 THEN sen'.taken = chip.ctrl.mode ELSE sen' = sen
  <2>1. chip.ctrl.mode \in Modes \cup {Garbage}
    BY Zenon, <1>7 DEF CtrlReg
  <2>2. CASE reg = "data" /\ ~thermal
    <3>1. sen' = [sen EXCEPT !.taken = chip.ctrl.mode]
      BY Zenon, <1>1, <2>2
    <3>2. QED
      BY Zenon, <3>1, <2>1, <2>2, <1>3, <1>9 DEF SenRec
  <2>3. CASE ~(reg = "data" /\ ~thermal)
    BY Zenon, <1>1, <2>3, <1>3, <1>9
  <2>4. QED
    BY Zenon, <2>2, <2>3
<1>11. CASE thermal
  <2>1. call[t].fn \notin StoringCalls \cup {"ltr390_init", "ltr390_read"}
    BY Zenon, <1>11, <1>5, <1>6
  <2>2. st' = st
    BY Zenon, <2>1, <1>1 DEF Store
  <2>3. Advance(t, NoCtrl) /\ mutex' = mutex
    BY Zenon, <2>1, <1>1 DEF Got
  <2>4. NoCtrl \in CtrlReg
    BY Zenon DEF NoCtrl, CtrlReg, Modes
  <2>5. Advances(t)
    BY Zenon, <2>3, <2>4, <1>1 DEF Advances
  <2>6. ~Ends(t)
    BY Zenon, <2>3, <2>5, EndsOnce
  <2>7. st \in StRec
    BY Zenon DEF TypeOK, StRec
  <2>8. QED
    BY Zenon, <2>1, <2>2, <2>5, <2>6, <2>7, <1>1, <1>8, <1>10
<1>12. CASE ~thermal
  <2>1. /\ reg = "gain" => value \in GainReg
        /\ reg = "rate" => value \in RateReg
        /\ reg = "ctrl" => value \in CtrlReg
    BY Zenon, <1>4, <1>7, <1>12
  <2>2. st' \in StRec /\ st'.enabled = st.enabled /\ (call[t].fn # "ltr390_init" => st' = st)
    BY Zenon, <2>1, <1>1, StoreEffect
  <2>3. \/ call[t].fn = "ltr390_read" /\ call[t].at = 1 /\ ~value /\ Return(t, "error") /\ Ends(t)
        \/ /\ ~(call[t].fn = "ltr390_read" /\ call[t].at = 1 /\ ~value)
           /\ Advances(t)
           /\ call[t].fn \in StoringCalls => Advance(t, value)
    BY Zenon, <2>1, <1>1, GotEffect
  <2>4. call[t].fn = "ltr390_read" => call[t].fn \notin StoringCalls
    BY Zenon DEF StoringCalls
  <2>5. 1 # 2
    OBVIOUS
  <2>6. Advances(t) => ~Ends(t)
    BY Zenon, EndsOnce
  <2>7. call[t].fn \in StoringCalls => Advance(t, chip.ctrl)
    BY Zenon, <2>3, <2>4, <1>6
  <2>8. /\ Ends(t) \/ Advances(t)
        /\ call[t].fn = "ltr390_read" /\ call[t].at = 2 => Advances(t)
        /\ Ends(t) => Return(t, "error")
    <3>1. CASE call[t].at = 1 /\ Return(t, "error") /\ Ends(t)
      BY Zenon, <3>1, <2>5
    <3>2. CASE Advances(t)
      BY Zenon, <3>2, <2>6
    <3>3. QED
      BY Zenon, <3>1, <3>2, <2>3
  <2>9. QED
    BY Zenon, <2>2, <2>7, <2>8, <1>1, <1>6, <1>8, <1>10
<1>13. QED
  BY Zenon, <1>11, <1>12

LEMMA ReadIgnoredEffect ==
  ASSUME TypeOK, NEW t \in Tasks, ReadIgnored(t)
  PROVE  /\ Transferring(t) /\ call[t].fn \notin ThermoCalls
         /\ Ends(t) \/ Advances(t)
         /\ Ends(t) => Return(t, "error")
         /\ st' \in StRec /\ st'.enabled = st.enabled
         /\ call[t].fn # "ltr390_init" => st' = st
         /\ sen' \in SenRec /\ sen'.at = sen.at /\ sen'.label = sen.label /\ sen'.source = sen.source
         /\ call[t].fn # "ltr390_read" => sen' = sen
         /\ Error /\ UNCHANGED <<thermo, chips, commands, heated>>
<1> DEFINE reg == Transfer(t)[2]
<1>1. /\ Transferring(t) /\ ~Checked(call[t]) /\ Transfer(t)[1] = "read"
      /\ Error
      /\ sen' = IF reg = "data" THEN [sen EXCEPT !.taken = Garbage] ELSE sen
      /\ UNCHANGED <<todo, thermo, chips, commands, heated>>
  BY Zenon DEF ReadIgnored
<1>2. PICK value \in CASE reg = "ctrl" -> CtrlReg [] reg = "gain" -> GainReg
                       [] reg = "rate" -> RateReg [] reg = "status" -> BOOLEAN
                       [] OTHER -> {0} : Got(t, value) /\ Store(t, value)
  BY Zenon DEF ReadIgnored
<1>3. /\ reg = "ctrl" => value \in CtrlReg
      /\ reg = "gain" => value \in GainReg
      /\ reg = "rate" => value \in RateReg
  BY Zenon, <1>2
<1>4. st' \in StRec /\ st'.enabled = st.enabled /\ (call[t].fn # "ltr390_init" => st' = st)
  BY Zenon, <1>1, <1>2, <1>3, StoreEffect
<1>5. (Return(t, "error") /\ Ends(t)) \/ Advances(t)
  BY Zenon, <1>1, <1>2, <1>3, GotEffect
<1>6. Advances(t) => ~Ends(t)
  BY Zenon, EndsOnce
<1>7. /\ Places(call[t].fn, call[t].at) /\ Transfer(t) = Transfers[call[t].fn][call[t].at]
  BY Zenon, <1>1, AtPlace
<1>8. call[t].fn \notin ThermoCalls
  BY Zenon, <1>1 DEF Checked
<1>9. reg = "data" => call[t].fn = "ltr390_read"
  BY Zenon, <1>1, <1>7, <1>8 DEF Places
<1>10. sen \in SenRec
  BY Zenon DEF TypeOK, SenRec
<1>11. /\ sen' \in SenRec /\ sen'.at = sen.at /\ sen'.label = sen.label /\ sen'.source = sen.source
       /\ call[t].fn # "ltr390_read" => sen' = sen
  BY Zenon, <1>1, <1>9, <1>10 DEF SenRec
<1>12. QED
  BY Zenon, <1>1, <1>4, <1>5, <1>6, <1>8, <1>11

LEMMA FailsEffect ==
  ASSUME TypeOK, ArgInv, NEW t \in Tasks, Transferring(t), Fails(t)
  PROVE  /\ chip' \in ChipRec /\ awake' \in BOOLEAN
         /\ call[t].fn \notin CtrlCalls \cup {"ltr390_init"} => chip'.ctrl = chip.ctrl
         /\ \/ heated' = heated
            \/ /\ call[t].fn = "sht4x_measure" /\ call[t].at = 1 /\ Heater(call[t].arg)
               /\ heated' = Append(heated, call[t].arg)
<1>1. CASE UNCHANGED <<chips, heated>>
  BY Zenon, <1>1 DEF chips, TypeOK, ChipRec
<1>2. CASE Transfer(t)[1] = "write" /\ Written(t)
  <2>1. /\ chip' \in ChipRec
        /\ awake' \in BOOLEAN
        /\ call[t].fn \notin CtrlCalls \cup {"ltr390_init"} => chip'.ctrl = chip.ctrl
        /\ call[t].fn = "sht4x_measure" => call[t].at = 1
        /\ heated' = IF call[t].fn = "sht4x_measure" /\ Heater(call[t].arg)
                      THEN Append(heated, call[t].arg) ELSE heated
    BY Zenon, <1>2, WriteEffect DEF ChipRec
  <2>2. QED
    BY Zenon, <2>1
<1>3. QED
  BY Zenon, <1>1, <1>2 DEF Fails

(* The lists of calls *)
LEMMA StepsIn ==
  /\ \A fn \in DriverCalls, n \in Int : <<fn, n>> \in Steps
  /\ \A e \in BOOLEAN : <<"enabled", e>> \in Steps
  /\ \A n \in Int : <<"mode", n>> \in Steps
BY DEF Steps

LEMMA PairParts == \A x, y : <<x, y>>[1] = x /\ <<x, y>>[2] = y
OBVIOUS

LEMMA SevenSteps ==
  ASSUME NEW a, NEW b, NEW c, NEW d, NEW e, NEW f, NEW g, NEW k \in DOMAIN <<a, b, c, d, e, f, g>>
  PROVE  <<a, b, c, d, e, f, g>>[k] \in {a, b, c, d, e, f, g}
OBVIOUS

LEMMA OptionCallsOK ==
  ASSUME NEW e \in BOOLEAN, NEW m \in Modes, NEW g \in Gains, NEW r \in Rates
  PROVE  /\ OptionCalls(e, m, g, r) \in Seq(Steps) /\ OptionCalls(e, m, g, r) # <<>>
         /\ \A k \in DOMAIN OptionCalls(e, m, g, r) :
              /\ ArgOK(OptionCalls(e, m, g, r)[k][1], OptionCalls(e, m, g, r)[k][2])
              /\ OptionCalls(e, m, g, r)[k][1] \in LtrSettingCalls
<1> DEFINE power == IF e THEN "ltr390_enable" ELSE "ltr390_standby"
           l == OptionCalls(e, m, g, r)
<1>1. power \in {"ltr390_enable", "ltr390_standby"}
  BY Zenon
<1>2. /\ "ltr390_set_mode" \in LtrSettingCalls /\ "ltr390_set_gain" \in LtrSettingCalls
      /\ "ltr390_set_resolution" \in LtrSettingCalls /\ power \in LtrSettingCalls
      /\ "ltr390_get_gain" \in LtrSettingCalls /\ "ltr390_get_mode" \in LtrSettingCalls
      /\ "ltr390_get_resolution" \in LtrSettingCalls
  BY Zenon, <1>1, CallNames DEF LtrCalls
<1>3. LtrSettingCalls \subseteq DriverCalls
  BY Zenon DEF DriverCalls
<1>4. m \in Int /\ g \in Int /\ r \in Int /\ 0 \in Int
  <2>1. Gains \subseteq Int /\ Rates \subseteq Int /\ Modes \subseteq Int /\ 0 \in Int
    BY SensorsAssumption DEF Modes, ALS, UVS
  <2>2. QED
    BY Zenon, <2>1
<1>5. /\ <<"ltr390_set_mode", m>> \in Steps /\ <<"ltr390_set_gain", g>> \in Steps
      /\ <<"ltr390_set_resolution", r>> \in Steps /\ <<power, 0>> \in Steps
      /\ <<"ltr390_get_gain", 0>> \in Steps /\ <<"ltr390_get_mode", 0>> \in Steps
      /\ <<"ltr390_get_resolution", 0>> \in Steps
  BY Zenon, <1>2, <1>3, <1>4, StepsIn
<1>6. /\ ArgOK("ltr390_set_mode", m) /\ ArgOK("ltr390_set_gain", g) /\ ArgOK("ltr390_set_resolution", r)
      /\ ArgOK(power, 0) /\ ArgOK("ltr390_get_gain", 0) /\ ArgOK("ltr390_get_mode", 0)
      /\ ArgOK("ltr390_get_resolution", 0)
  BY Zenon, <1>1 DEF ArgOK
<1>7. l = << <<"ltr390_set_mode", m>>, <<"ltr390_set_gain", g>>, <<"ltr390_set_resolution", r>>, <<power, 0>>,
             <<"ltr390_get_gain", 0>>, <<"ltr390_get_mode", 0>>, <<"ltr390_get_resolution", 0>> >>
  BY Zenon DEF OptionCalls
<1>8. l \in Seq(Steps) /\ l # <<>>
  BY SMT, <1>5, <1>7
<1>9. \A k \in DOMAIN l : l[k] \in {<<"ltr390_set_mode", m>>, <<"ltr390_set_gain", g>>,
        <<"ltr390_set_resolution", r>>, <<power, 0>>, <<"ltr390_get_gain", 0>>, <<"ltr390_get_mode", 0>>,
        <<"ltr390_get_resolution", 0>>}
  BY SMT, <1>7, SevenSteps
<1> HIDE DEF l, power
<1> DEFINE Fits(s) == ArgOK(s[1], s[2]) /\ s[1] \in LtrSettingCalls
<1>10. \A x, y : ArgOK(x, y) /\ x \in LtrSettingCalls => Fits(<<x, y>>)
  BY Zenon, PairParts
<1> HIDE DEF Fits
<1>11. \A k \in DOMAIN l : Fits(l[k])
  BY Zenon, <1>2, <1>6, <1>9, <1>10
<1>12. \A k \in DOMAIN l : ArgOK(l[k][1], l[k][2]) /\ l[k][1] \in LtrSettingCalls
  BY Zenon, <1>11 DEF Fits
<1>13. QED
  BY Zenon, <1>8, <1>12 DEF l

(* Every step is one of those. *)
LEMMA TakeMutexBus ==
  ASSUME NEW t \in Tasks, TakeMutex(t)
  PROVE  Takes(t) \/ (TimesOut(t) /\ Error)
BY Zenon DEF TakeMutex, Takes, TimesOut, Return, Calls

LEMMA WriteBus ==
  ASSUME NEW t \in Tasks, Write(t) \/ WriteIgnored(t)
  PROVE  Advances(t) /\ Step(t)
<1>1. NoCtrl \in CtrlReg
  BY Zenon DEF NoCtrl, CtrlReg, Modes
<1>2. QED
  BY Zenon, <1>1 DEF Write, WriteIgnored, Step, Advances

LEMMA TransferFailsBus ==
  ASSUME TypeOK, NEW t \in Tasks, TransferFails(t)
  PROVE  Ends(t) /\ Return(t, "error")
<1>1. Transferring(t) /\ Release(Device(call[t].fn)) /\ Return(t, "error") /\ todo' = todo
  BY Zenon DEF TransferFails
<1>2. InCall(t) /\ call[t].at <= Len(Transfers[call[t].fn]) + 1
  <2>1. InCall(t) /\ call[t].at \in 1 .. Len(Transfers[call[t].fn]) /\ Lengths(call[t].fn)
    BY Zenon, <1>1, AtPlace
  <2>2. QED
    BY SMT, <2>1 DEF Lengths
<1>3. QED
  BY Zenon, <1>1, <1>2 DEF Ends, Release, Return

LEMMA GiveMutexBus ==
  ASSUME TypeOK, NEW t \in Tasks, GiveMutex(t)
  PROVE  \/ Gives(t)
         \/ Ends(t) /\ Return(t, "ok") /\ call[t].fn \notin StoringCalls
<1>1. /\ InCall(t) /\ call[t].at = Len(Transfers[call[t].fn]) + 1
      /\ Release(Device(call[t].fn))
      /\ IF call[t].fn \in StoringCalls THEN Step(t) ELSE Return(t, "ok")
      /\ todo' = todo
  BY Zenon DEF GiveMutex
<1>2. call[t].at <= Len(Transfers[call[t].fn]) + 1
  <2>1. Lengths(call[t].fn)
    BY Zenon, <1>1, CallTyped, PlacesOf
  <2>2. QED
    BY SMT, <1>1, <2>1 DEF Lengths
<1>3. QED
  BY Zenon, <1>1, <1>2 DEF Gives, Ends, Release, Return

LEMMA FinishBus ==
  ASSUME NEW t \in Tasks, Finish(t)
  PROVE  Finishes(t)
BY Zenon DEF Finish, Finishes, Return

LEMMA SensorBus ==
  ASSUME SensorTask
  PROVE  SensorTold \/ bus' = bus
<1>1. CASE LtrRead
  BY Zenon, <1>1 DEF LtrRead, SensorTold, Told, SensorAt, Calls, bus
<1>2. CASE LtrReading
  BY Zenon, <1>2 DEF LtrReading, SensorTold, Told, SensorAt, Calls
<1>3. CASE ThermoMeasure
  BY Zenon, <1>3 DEF ThermoMeasure, SensorTold, Told, SensorAt, Calls, bus
<1>4. CASE LtrLabel \/ LtrSelect \/ LtrNoReading \/ ThermoEnabled \/ ThermoSwitch \/ ThermoReset
  BY Zenon, <1>4 DEF LtrLabel, LtrSelect, LtrNoReading, ThermoEnabled, ThermoSwitch, ThermoReset
<1>5. QED
  BY Zenon, <1>1, <1>2, <1>3, <1>4 DEF SensorTask

LEMMA MqttBus ==
  ASSUME MqttTask
  PROVE  Handled \/ Stores
<1>1. CASE \E e \in BOOLEAN, m \in Modes, g \in Gains, r \in Rates : Ltr390SetOptions(e, m, g, r)
  BY Zenon, <1>1 DEF Ltr390SetOptions, Handled, Told, Accept, Calls, OptionCalls
<1>2. CASE \E e \in BOOLEAN, m \in {High, Low, commands + 1} : ThermoSetOptions(e, m)
  BY Zenon, <1>2 DEF ThermoSetOptions, Handled, Told, Accept, Calls
<1>3. CASE ThermoStore
  BY Zenon, <1>3 DEF ThermoStore, Stores, Calls
<1>4. QED
  BY Zenon, <1>1, <1>2, <1>3 DEF MqttTask

LEMMA BusSteps ==
  ASSUME TypeOK, Next
  PROVE  BusStep
<1>1. CASE Driver
  <2>1. PICK t \in Tasks : \/ TakeMutex(t) \/ Write(t) \/ Read(t) \/ TransferFails(t) \/ WriteIgnored(t)
                           \/ ReadIgnored(t) \/ GiveMutex(t) \/ Finish(t)
    BY Zenon, <1>1 DEF Driver
  <2>2. Takes(t) \/ TimesOut(t) \/ Advances(t) \/ Ends(t) \/ Gives(t) \/ Finishes(t)
    BY Zenon, <2>1, TakeMutexBus, WriteBus, ReadEffect, TransferFailsBus, ReadIgnoredEffect, GiveMutexBus,
       FinishBus
  <2>3. QED
    BY Zenon, <2>2 DEF BusStep
<1>2. CASE BootFails \/ ConversionAborts
  BY Zenon, <1>2 DEF BootFails, ConversionAborts, Restart, BusStep, Reboots
<1>3. CASE ChipMeasures
  BY Zenon, <1>3 DEF ChipMeasures, BusStep
<1>4. QED
  BY Zenon, <1>1, <1>2, <1>3, SensorBus, MqttBus DEF Next, BusStep

LEMMA CallOf ==
  ASSUME NEW s, s[1] \in DriverCalls, s[2] \in Int
  PROVE  /\ Call(s) \in CallRec
         /\ Call(s).fn = s[1] /\ Call(s).arg = s[2] /\ Call(s).at = 1 /\ Call(s).got = NoCtrl
         /\ Call(s).result = "ok"
<1>1. 1 \in Nat
  OBVIOUS
<1>2. NoCtrl \in CtrlReg
  BY Zenon DEF NoCtrl, CtrlReg, Modes
<1>3. QED
  BY Zenon, <1>1, <1>2 DEF Call, CallRec

LEMMA TakesEffect ==
  ASSUME TypeOK, ArgInv, NEW t \in Tasks, Takes(t)
  PROVE  LET s == Head(todo[t])
         IN /\ call'[t].fn = s[1] /\ call'[t].arg = s[2] /\ call'[t].at = 1 /\ call'[t].got = NoCtrl
            /\ call'[t].result = "ok" /\ todo'[t] = Tail(todo[t])
            /\ s[1] \in DriverCalls /\ ArgOK(s[1], s[2])
            /\ OthersKeep(t)
            /\ mutex'[Device(s[1])] = t
            /\ \A d \in Devices : d # Device(s[1]) => mutex'[d] = mutex[d]
            /\ call' \in [Tasks -> CallRec] /\ todo' \in [Tasks -> Seq(Steps)]
            /\ mutex' \in [Devices -> Tasks \cup {Nobody}]
<1> DEFINE s == Head(todo[t])
<1>1. /\ ~InCall(t) /\ todo[t] # <<>> /\ s[1] \in DriverCalls
      /\ mutex[Device(s[1])] = Nobody
      /\ mutex' = [mutex EXCEPT ![Device(s[1])] = t]
      /\ call' = [call EXCEPT ![t] = Call(s)]
      /\ todo' = [todo EXCEPT ![t] = Tail(todo[t])]
  BY Zenon DEF Takes
<1>2. s[2] \in Int /\ ArgOK(s[1], s[2]) /\ Tail(todo[t]) \in Seq(Steps)
  BY Zenon, <1>1, NextCall
<1> HIDE DEF s
<1>3. /\ Call(s) \in CallRec
      /\ Call(s).fn = s[1] /\ Call(s).arg = s[2] /\ Call(s).at = 1 /\ Call(s).got = NoCtrl
      /\ Call(s).result = "ok"
  BY Zenon, <1>1, <1>2, CallOf
<1>4. call'[t] = Call(s) /\ (\A u \in Tasks : u # t => call'[u] = call[u]) /\ call' \in [Tasks -> CallRec]
  BY Zenon, <1>1, <1>3, NewCallEffect
<1>5. todo'[t] = Tail(todo[t]) /\ (\A u \in Tasks : u # t => todo'[u] = todo[u]) /\ todo' \in [Tasks -> Seq(Steps)]
  BY Zenon, <1>1, <1>2, NewTodoEffect
<1>6. /\ mutex'[Device(s[1])] = t
      /\ \A d \in Devices : d # Device(s[1]) => mutex'[d] = mutex[d]
      /\ mutex' \in [Devices -> Tasks \cup {Nobody}]
  BY Zenon, <1>1, DeviceOf, NewMutexEffect
<1>7. QED
  BY Zenon, <1>1, <1>2, <1>3, <1>4, <1>5, <1>6 DEF OthersKeep, s

LEMMA TimesOutEffect ==
  ASSUME TypeOK, ArgInv, NEW t \in Tasks, TimesOut(t)
  PROVE  /\ call'[t] = NoCall("error") /\ call'[t].fn = "none" /\ todo'[t] = Tail(todo[t]) /\ OthersKeep(t)
         /\ call' \in [Tasks -> CallRec] /\ todo' \in [Tasks -> Seq(Steps)]
<1>1. Tail(todo[t]) \in Seq(Steps)
  BY Zenon, NextCall DEF TimesOut
<1>2. NoCall("error") \in CallRec /\ NoCall("error").fn = "none"
  BY Zenon, NoCallTyped
<1>3. QED
  BY Zenon, <1>1, <1>2, NewCallEffect, NewTodoEffect DEF TimesOut, OthersKeep

LEMMA AdvancesEffect ==
  ASSUME TypeOK, NEW t \in Tasks, Advances(t)
  PROVE  /\ call'[t].fn = call[t].fn /\ call'[t].arg = call[t].arg /\ call'[t].at = call[t].at + 1
         /\ call'[t].result = call[t].result
         /\ OthersKeep(t) /\ call' \in [Tasks -> CallRec]
BY Zenon, AdvanceEffect DEF Advances, OthersKeep

LEMMA EndsEffect ==
  ASSUME TypeOK, NEW t \in Tasks, Ends(t)
  PROVE  /\ call'[t].fn = "none" /\ OthersKeep(t) /\ call' \in [Tasks -> CallRec]
         /\ mutex'[Device(call[t].fn)] = Nobody
         /\ \A d \in Devices : d # Device(call[t].fn) => mutex'[d] = mutex[d]
         /\ mutex' \in [Devices -> Tasks \cup {Nobody}]
<1>1. /\ mutex' = [mutex EXCEPT ![Device(call[t].fn)] = Nobody]
      /\ todo' = todo
  BY Zenon DEF Ends
<1>2. /\ mutex'[Device(call[t].fn)] = Nobody
      /\ \A d \in Devices : d # Device(call[t].fn) => mutex'[d] = mutex[d]
      /\ mutex' \in [Devices -> Tasks \cup {Nobody}]
  BY Zenon, <1>1, NewMutexEffect, DeviceOf
<1>3. PICK res \in {"ok", "error"} : call' = [call EXCEPT ![t] = NoCall(res)]
  BY Zenon DEF Ends
<1>4. NoCall(res) \in CallRec /\ NoCall(res).fn = "none"
  BY Zenon, NoCallTyped
<1>5. /\ call'[t] = NoCall(res) /\ call' \in [Tasks -> CallRec]
      /\ \A u \in Tasks : u # t => call'[u] = call[u]
  BY Zenon, <1>3, <1>4, NewCallEffect
<1>6. QED
  BY Zenon, <1>1, <1>2, <1>4, <1>5 DEF OthersKeep

LEMMA GivesEffect ==
  ASSUME TypeOK, NEW t \in Tasks, Gives(t)
  PROVE  /\ call'[t].fn = call[t].fn /\ call'[t].arg = call[t].arg /\ call'[t].at = call[t].at + 1
         /\ OthersKeep(t) /\ call' \in [Tasks -> CallRec]
         /\ mutex'[Device(call[t].fn)] = Nobody
         /\ \A d \in Devices : d # Device(call[t].fn) => mutex'[d] = mutex[d]
         /\ mutex' \in [Devices -> Tasks \cup {Nobody}]
<1>1. NoCtrl \in CtrlReg
  BY Zenon DEF NoCtrl, CtrlReg, Modes
<1>2. /\ call'[t].fn = call[t].fn /\ call'[t].arg = call[t].arg /\ call'[t].at = call[t].at + 1
      /\ \A u \in Tasks : u # t => call'[u] = call[u]
      /\ call' \in [Tasks -> CallRec]
  BY Zenon, <1>1, AdvanceEffect DEF Gives, Step
<1>3. /\ mutex'[Device(call[t].fn)] = Nobody
      /\ \A d \in Devices : d # Device(call[t].fn) => mutex'[d] = mutex[d]
      /\ mutex' \in [Devices -> Tasks \cup {Nobody}]
  BY Zenon, NewMutexEffect, DeviceOf DEF Gives
<1>4. QED
  BY Zenon, <1>2, <1>3 DEF Gives, OthersKeep

LEMMA FinishesEffect ==
  ASSUME TypeOK, NEW t \in Tasks, Finishes(t)
  PROVE  /\ call'[t] = NoCall("ok") /\ call'[t].fn = "none" /\ OthersKeep(t) /\ call' \in [Tasks -> CallRec]
BY Zenon, NewCallEffect, NoCallTyped DEF Finishes, OthersKeep

LEMMA ToldEffect ==
  ASSUME TypeOK, NEW t \in Tasks, NEW calls, Told(t, calls)
  PROVE  /\ todo'[t] = calls /\ call'[t] = call[t] /\ OthersKeep(t)
         /\ calls \in Seq(Steps) => todo' \in [Tasks -> Seq(Steps)]
BY Zenon, NewTodoEffect DEF Told, OthersKeep

LEMMA RebootsEffect ==
  ASSUME Reboots
  PROVE  /\ \A t \in Tasks : call'[t] = NoCall("ok") /\ call'[t].fn = "none"
         /\ \A d \in Devices : mutex'[d] = Nobody
         /\ todo'[Main] = BootCalls /\ \A t \in {Sensor, Mqtt} : todo'[t] = <<>>
         /\ call' \in [Tasks -> CallRec] /\ mutex' \in [Devices -> Tasks \cup {Nobody}]
<1>1. NoCall("ok") \in CallRec /\ NoCall("ok").fn = "none"
  BY Zenon, NoCallTyped
<1>2. call' = [t \in Tasks |-> NoCall("ok")]
  BY Zenon DEF Reboots, NewCall
<1>3. mutex' = [d \in Devices |-> Nobody]
  BY Zenon DEF Reboots, NewMutex
<1>4. todo' = [t \in Tasks |-> IF t = Main THEN BootCalls ELSE <<>>]
  BY Zenon DEF Reboots, NewTodo
<1>5. Main # Sensor /\ Main # Mqtt
  BY Zenon DEF Main, Sensor, Mqtt
<1>6. QED
  BY Zenon, <1>1, <1>2, <1>3, <1>4, <1>5 DEF Tasks

--------------------------------------------------------------------------------
(* The mutexes *)

LocksInv == PlaceInv /\ HolderInv /\ MutexesGivenBack

(* A task that takes or gives a mutex, or moves on with it, leaves those of the others alone. *)
LEMMA OthersLocks ==
  ASSUME TypeOK, LocksInv, NEW t \in Tasks, OthersKeep(t),
         NEW u \in Tasks, u # t, InCall(u)'
  PROVE  /\ InCall(u) /\ call'[u] = call[u]
         /\ call'[u].at \in 1 .. Len(Transfers[call'[u].fn]) + 2
         /\ call'[u].fn \notin StoringCalls => call'[u].at <= Len(Transfers[call'[u].fn]) + 1
         /\ call'[u].at <= Len(Transfers[call'[u].fn]) + 1 => mutex[Device(call'[u].fn)] = u
BY Zenon DEF LocksInv, OthersKeep, PlaceInv, HolderInv, InCall

LEMMA NotNobody == \A t \in Tasks : t # Nobody
BY Zenon DEF Tasks, Main, Sensor, Mqtt, Nobody

LEMMA LenTransfers ==
  ASSUME NEW fn \in DriverCalls
  PROVE  Len(Transfers[fn]) \in Nat /\ Len(Transfers[fn]) > 0
<1>1. Len(Transfers[fn]) \in {1, 2, 3, 4, 6}
  BY Zenon, PlacesOf DEF Lengths
<1>2. \A n \in {1, 2, 3, 4, 6} : n \in Nat /\ n > 0
  OBVIOUS
<1>3. QED
  BY Zenon, <1>1, <1>2

LEMMA Holders ==
  ASSUME TypeOK, LocksInv, NEW d \in Devices, mutex[d] # Nobody
  PROVE  /\ mutex[d] \in Tasks /\ InCall(mutex[d]) /\ Device(call[mutex[d]].fn) = d
         /\ call[mutex[d]].at \in 1 .. Len(Transfers[call[mutex[d]].fn]) + 1
BY Zenon DEF LocksInv, MutexesGivenBack, InCall, TypeOK

LEMMA TakesLocks ==
  ASSUME TypeOK, ArgInv, LocksInv, NEW t \in Tasks, Takes(t)
  PROVE  LocksInv'
<1> DEFINE s == Head(todo[t])
<1>1. /\ call'[t].fn = s[1] /\ call'[t].at = 1 /\ s[1] \in DriverCalls
      /\ OthersKeep(t)
      /\ mutex'[Device(s[1])] = t
      /\ \A d \in Devices : d # Device(s[1]) => mutex'[d] = mutex[d]
  BY Zenon, TakesEffect
<1>2. ~InCall(t) /\ mutex[Device(s[1])] = Nobody
  BY Zenon DEF Takes
<1> HIDE DEF s
<1>3. 1 \in 1 .. Len(Transfers[s[1]]) + 1 /\ 1 \in 1 .. Len(Transfers[s[1]]) + 2 /\ 1 <= Len(Transfers[s[1]]) + 1
  BY SMT, <1>1, LenTransfers
<1>4. PlaceInv'
  BY Zenon, <1>1, <1>3, OthersLocks DEF PlaceInv
<1>5. HolderInv'
  <2>1. ASSUME NEW u \in Tasks, u # t, InCall(u)', call'[u].at <= Len(Transfers[call'[u].fn]) + 1
        PROVE  mutex'[Device(call'[u].fn)] = u
    <3>1. mutex[Device(call'[u].fn)] = u
      BY Zenon, <2>1, <1>1, OthersLocks
    <3>2. QED
      BY Zenon, <3>1, <1>1, <1>2, NotNobody, DeviceOf
  <2>2. mutex'[Device(call'[t].fn)] = t
    BY Zenon, <1>1
  <2>3. QED
    BY Zenon, <2>1, <2>2 DEF HolderInv
<1>6. MutexesGivenBack'
  <2>1. s[1] # "none"
    BY Zenon, <1>1, CallNames DEF LtrCalls
  <2>2. ASSUME NEW d \in Devices, d # Device(s[1]), mutex'[d] # Nobody
        PROVE  /\ call'[mutex'[d]].fn # "none" /\ Device(call'[mutex'[d]].fn) = d
               /\ call'[mutex'[d]].at \in 1 .. Len(Transfers[call'[mutex'[d]].fn]) + 1
    <3>1. mutex'[d] = mutex[d] /\ mutex[d] # t
      BY Zenon, <2>2, <1>1, <1>2, Holders
    <3>2. call'[mutex'[d]] = call[mutex[d]]
      BY Zenon, <3>1, <2>2, <1>1, Holders DEF OthersKeep
    <3>3. QED
      BY Zenon, <3>1, <3>2, <2>2, Holders DEF InCall
  <2>3. QED
    BY Zenon, <2>1, <2>2, <1>1, <1>3 DEF MutexesGivenBack
<1>7. QED
  BY Zenon, <1>4, <1>5, <1>6 DEF LocksInv

(* The same calls in the same places *)
LEMMA SameLocks ==
  ASSUME TypeOK, LocksInv, mutex' = mutex,
         \A u \in Tasks : call'[u] = call[u] \/ (mutex[Device(call[u].fn)] # u /\ call'[u].fn = "none")
                                             \/ (~InCall(u) /\ call'[u].fn = "none")
  PROVE  LocksInv'
<1>1. PlaceInv' /\ HolderInv'
  <2>1. ASSUME NEW u \in Tasks, InCall(u)' PROVE call'[u] = call[u] /\ InCall(u)
    BY Zenon, <2>1 DEF InCall
  <2>2. PlaceInv'
    BY Zenon, <2>1 DEF LocksInv, PlaceInv
  <2>3. HolderInv'
    BY Zenon, <2>1 DEF LocksInv, HolderInv
  <2>4. QED
    BY Zenon, <2>2, <2>3
<1>2. ASSUME NEW d \in Devices, mutex[d] # Nobody
      PROVE  call'[mutex[d]] = call[mutex[d]]
  BY Zenon, <1>2, Holders
<1>3. MutexesGivenBack'
  BY Zenon, <1>2, Holders DEF MutexesGivenBack, InCall
<1>4. QED
  BY Zenon, <1>1, <1>3 DEF LocksInv

LEMMA AdvancesLocks ==
  ASSUME TypeOK, LocksInv, NEW t \in Tasks, Advances(t)
  PROVE  LocksInv'
<1>1. /\ call'[t].fn = call[t].fn /\ call'[t].at = call[t].at + 1 /\ OthersKeep(t) /\ mutex' = mutex
  BY Zenon, AdvancesEffect DEF Advances
<1>2. InCall(t) /\ call[t].at \in 1 .. Len(Transfers[call[t].fn]) /\ call[t].fn \in DriverCalls
  BY Zenon, AtPlace DEF Advances
<1>3. /\ call[t].at + 1 \in 1 .. Len(Transfers[call[t].fn]) + 2
      /\ call[t].at + 1 \in 1 .. Len(Transfers[call[t].fn]) + 1
      /\ call[t].at + 1 <= Len(Transfers[call[t].fn]) + 1
      /\ call[t].at <= Len(Transfers[call[t].fn]) + 1
  BY SMT, <1>2, LenTransfers
<1>4. mutex[Device(call[t].fn)] = t
  BY Zenon, <1>2, <1>3 DEF LocksInv, HolderInv
<1>5. PlaceInv' /\ HolderInv'
  <2>1. PlaceInv'
    <3>1. /\ call'[t].at \in 1 .. Len(Transfers[call'[t].fn]) + 2
          /\ call'[t].at <= Len(Transfers[call'[t].fn]) + 1
      BY Zenon, <1>1, <1>3
    <3>2. QED
      BY Zenon, <3>1, <1>1, OthersLocks DEF PlaceInv
  <2>2. HolderInv'
    BY Zenon, <1>1, <1>4, OthersLocks DEF HolderInv
  <2>3. QED
    BY Zenon, <2>1, <2>2
<1>6. MutexesGivenBack'
  <2>1. ASSUME NEW d \in Devices, mutex[d] # Nobody
        PROVE  /\ call'[mutex[d]].fn # "none" /\ Device(call'[mutex[d]].fn) = d
               /\ call'[mutex[d]].at \in 1 .. Len(Transfers[call'[mutex[d]].fn]) + 1
    <3>1. CASE mutex[d] = t
      BY Zenon, <3>1, <2>1, <1>1, <1>3, Holders DEF InCall
    <3>2. CASE mutex[d] # t
      <4>1. call'[mutex[d]] = call[mutex[d]]
        BY Zenon, <3>2, <2>1, <1>1, Holders DEF OthersKeep
      <4>2. QED
        BY Zenon, <4>1, <2>1, Holders DEF InCall
    <3>3. QED
      BY Zenon, <3>1, <3>2
  <2>2. QED
    BY Zenon, <2>1, <1>1 DEF MutexesGivenBack
<1>7. QED
  BY Zenon, <1>5, <1>6 DEF LocksInv

LEMMA ReleaseLocks ==
  ASSUME TypeOK, LocksInv, NEW t \in Tasks, Ends(t) \/ Gives(t)
  PROVE  LocksInv'
<1>1. /\ mutex'[Device(call[t].fn)] = Nobody /\ OthersKeep(t)
      /\ \A d \in Devices : d # Device(call[t].fn) => mutex'[d] = mutex[d]
      /\ \/ call'[t].fn = "none"
         \/ call'[t].fn = call[t].fn /\ call'[t].at = call[t].at + 1 /\ Gives(t)
  BY Zenon, EndsEffect, GivesEffect
<1>2. InCall(t) /\ call[t].fn \in DriverCalls /\ call[t].at \in Nat
  BY Zenon, CallTyped DEF Ends, Gives
<1>3. /\ call[t].at <= Len(Transfers[call[t].fn]) + 1
      /\ Gives(t) => /\ call[t].at + 1 \in 1 .. Len(Transfers[call[t].fn]) + 2
                     /\ ~(call[t].at + 1 <= Len(Transfers[call[t].fn]) + 1)
  BY SMT, <1>2, LenTransfers DEF Ends, Gives
<1>4. mutex[Device(call[t].fn)] = t
  BY Zenon, <1>2, <1>3 DEF LocksInv, HolderInv
<1>5. PlaceInv'
  <2>1. ASSUME InCall(t)'
        PROVE  /\ call'[t].at \in 1 .. Len(Transfers[call'[t].fn]) + 2
               /\ call'[t].fn \in StoringCalls
    BY Zenon, <2>1, <1>1, <1>3 DEF InCall, Gives
  <2>2. QED
    BY Zenon, <2>1, <1>1, OthersLocks DEF PlaceInv
<1>6. HolderInv'
  <2>1. ASSUME NEW u \in Tasks, u # t, InCall(u)', call'[u].at <= Len(Transfers[call'[u].fn]) + 1
        PROVE  mutex'[Device(call'[u].fn)] = u
    <3>1. mutex[Device(call'[u].fn)] = u
      BY Zenon, <2>1, <1>1, OthersLocks
    <3>2. QED
      BY Zenon, <3>1, <2>1, <1>1, <1>4, DeviceOf
  <2>2. ASSUME InCall(t)' PROVE ~(call'[t].at <= Len(Transfers[call'[t].fn]) + 1)
    BY Zenon, <2>2, <1>1, <1>3 DEF InCall
  <2>3. QED
    BY Zenon, <2>1, <2>2 DEF HolderInv
<1>7. MutexesGivenBack'
  <2>1. ASSUME NEW d \in Devices, mutex'[d] # Nobody
        PROVE  /\ call'[mutex'[d]].fn # "none" /\ Device(call'[mutex'[d]].fn) = d
               /\ call'[mutex'[d]].at \in 1 .. Len(Transfers[call'[mutex'[d]].fn]) + 1
    <3>1. d # Device(call[t].fn) /\ mutex'[d] = mutex[d]
      BY Zenon, <2>1, <1>1
    <3>2. mutex[d] # t
      BY Zenon, <3>1, <2>1, Holders
    <3>3. call'[mutex'[d]] = call[mutex[d]]
      BY Zenon, <3>1, <3>2, <2>1, <1>1, Holders DEF OthersKeep
    <3>4. QED
      BY Zenon, <3>1, <3>3, <2>1, Holders DEF InCall
  <2>2. QED
    BY Zenon, <2>1 DEF MutexesGivenBack
<1>8. QED
  BY Zenon, <1>5, <1>6, <1>7 DEF LocksInv

LEMMA LocksKept ==
  ASSUME TypeOK, ArgInv, LocksInv, BusStep
  PROVE  LocksInv'
<1>1. ASSUME NEW t \in Tasks, TimesOut(t)
      PROVE  LocksInv'
  <2>1. mutex' = mutex /\ ~InCall(t) /\ call'[t].fn = "none" /\ OthersKeep(t)
    BY Zenon, <1>1, TimesOutEffect DEF TimesOut
  <2>2. QED
    BY Zenon, <2>1, SameLocks DEF OthersKeep
<1>2. ASSUME NEW t \in Tasks, Finishes(t)
      PROVE  LocksInv'
  <2>1. mutex' = mutex /\ InCall(t) /\ call'[t].fn = "none" /\ OthersKeep(t)
        /\ call[t].at = Len(Transfers[call[t].fn]) + 2 /\ call[t].fn \in DriverCalls
    BY Zenon, <1>2, FinishesEffect, CallTyped DEF Finishes
  <2>2. call[t].at \notin 1 .. Len(Transfers[call[t].fn]) + 1
    BY SMT, <2>1, LenTransfers
  <2>3. mutex[Device(call[t].fn)] # t
    BY Zenon, <2>2, Holders, DeviceOf, NotNobody
  <2>4. QED
    BY Zenon, <2>1, <2>3, SameLocks DEF OthersKeep
<1>3. CASE SensorTold \/ Handled \/ Stores \/ bus' = bus
  <2>1. mutex' = mutex /\ call' = call
    BY Zenon, <1>3 DEF SensorTold, Handled, Stores, Told, bus
  <2>2. QED
    BY Zenon, <2>1, SameLocks
<1>4. CASE Reboots
  BY Zenon, <1>4, RebootsEffect DEF LocksInv, PlaceInv, HolderInv, MutexesGivenBack, InCall
<1>5. QED
  BY Zenon, <1>1, <1>2, <1>3, <1>4, TakesLocks, AdvancesLocks, ReleaseLocks DEF BusStep

--------------------------------------------------------------------------------
(* The types, and the arguments *)

ListOK(l) == l \in Seq(Steps) /\ \A k \in DOMAIN l : ArgOK(l[k][1], l[k][2])

LEMMA OneStepList ==
  ASSUME NEW a
  PROVE  /\ <<a>> # <<>> /\ Len(<<a>>) = 1 /\ Head(<<a>>) = a /\ Tail(<<a>>) = <<>>
         /\ \A k \in DOMAIN <<a>> : <<a>>[k] = a
         /\ a \in Steps => <<a>> \in Seq(Steps)
OBVIOUS

LEMMA OneStepOK ==
  ASSUME NEW fn \in DriverCalls, NEW n \in Int, ArgOK(fn, n)
  PROVE  ListOK(<< <<fn, n>> >>)
<1>1. <<fn, n>>[1] = fn /\ <<fn, n>>[2] = n
  BY Zenon, PairParts
<1>2. <<fn, n>> \in Steps
  BY Zenon, StepsIn
<1> DEFINE a == <<fn, n>>
<1>3. ArgOK(a[1], a[2]) /\ a \in Steps
  BY Zenon, <1>1, <1>2
<1> HIDE DEF a
<1>4. ListOK(<<a>>)
  BY Zenon, <1>3, OneStepList DEF ListOK
<1>5. QED
  BY Zenon, <1>4 DEF a

LEMMA ThermoModes ==
  ASSUME TypeOK
  PROVE  /\ thermo.mode \in {High, Low} \cup 1 .. MaxEvents /\ thermo.mode \in Int
         /\ sen.label \in Modes /\ 1 - sen.label \in Modes /\ 1 - sen.label \in Int
<1>1. thermo.mode \in {High, Low} \cup 1 .. MaxEvents /\ sen.label \in Modes
  BY Zenon DEF TypeOK
<1>2. QED
  BY <1>1, SensorsAssumption DEF High, Low, Modes, ALS, UVS

LEMMA SensorCallNames ==
  /\ "ltr390_read" \in DriverCalls /\ "ltr390_set_mode" \in DriverCalls /\ MeasureCall \in DriverCalls
  /\ MeasureCall \in {"sht4x_measure", "shtc3_measure"}
BY Zenon, CallNames DEF LtrCalls, MeasureCall

SensorLists == {<< <<"ltr390_read", 0>> >>, << <<"ltr390_set_mode", 1 - sen.label>> >>,
                << <<MeasureCall, thermo.mode>> >>}

LEMMA SensorListsOK ==
  ASSUME TypeOK, NEW l \in SensorLists
  PROVE  ListOK(l)
<1>1. 0 \in Int
  OBVIOUS
<1>2. ArgOK("ltr390_read", 0) /\ ArgOK("ltr390_set_mode", 1 - sen.label) /\ ArgOK(MeasureCall, thermo.mode)
  BY Zenon, ThermoModes, SensorCallNames DEF ArgOK
<1>3. QED
  BY Zenon, <1>1, <1>2, OneStepOK, ThermoModes, SensorCallNames DEF SensorLists

(* What a handler of the commands stores in turn *)
LEMMA StoreListsOK ==
  ASSUME NEW e \in BOOLEAN, NEW m \in Int
  PROVE  /\ ListOK(Sht4xStores(e, m)) /\ ListOK(Shtc3Stores(e))
         /\ \A k \in DOMAIN Sht4xStores(e, m) :
              Sht4xStores(e, m)[k] = <<"enabled", e>> \/ Sht4xStores(e, m)[k] = <<"mode", m>>
         /\ \A k \in DOMAIN Shtc3Stores(e) : Shtc3Stores(e)[k] = <<"enabled", e>>
<1> DEFINE a == <<"enabled", e>>
           b == <<"mode", m>>
<1>1. a \in Steps /\ b \in Steps
  BY Zenon, StepsIn
<1>2. ArgOK(a[1], a[2]) /\ ArgOK(b[1], b[2])
  <2>1. a[1] = "enabled" /\ a[2] = e /\ b[1] = "mode" /\ b[2] = m
    BY Zenon, PairParts
  <2>2. ArgOK("enabled", e) /\ ArgOK("mode", m)
    BY Zenon DEF ArgOK
  <2>3. QED
    BY Zenon, <2>1, <2>2
<1>3. Sht4xStores(e, m) = <<a, b>> /\ Shtc3Stores(e) = <<a>>
  BY Zenon DEF Sht4xStores, Shtc3Stores
<1> HIDE DEF a, b
<1>4. <<a, b>> \in Seq(Steps) /\ \A k \in DOMAIN <<a, b>> : <<a, b>>[k] = a \/ <<a, b>>[k] = b
  BY <1>1
<1>5. ListOK(<<a, b>>)
  BY Zenon, <1>2, <1>4 DEF ListOK
<1>6. ListOK(<<a>>) /\ \A k \in DOMAIN <<a>> : <<a>>[k] = a
  BY Zenon, <1>1, <1>2, OneStepList DEF ListOK
<1>7. QED
  BY Zenon, <1>3, <1>4, <1>5, <1>6 DEF a, b

LEMMA NewModes ==
  ASSUME TypeOK, NEW m \in {High, Low, commands + 1}
  PROVE  m \in Int
BY DEF TypeOK, High, Low

LEMMA BootListOK == ListOK(BootCalls) /\ ListOK(<<>>)
<1>1. "ltr390_init" \in DriverCalls /\ "ltr390_enable" \in DriverCalls /\ ThermoInitCall \in DriverCalls
  BY Zenon, CallNames DEF LtrCalls, ThermoInitCall
<1>2. 0 \in Int
  OBVIOUS
<1> DEFINE a == <<"ltr390_init", 0>>
           b == <<"ltr390_enable", 0>>
           c == <<ThermoInitCall, 0>>
<1>3. a \in Steps /\ b \in Steps /\ c \in Steps
  BY Zenon, <1>1, <1>2, StepsIn
<1>4. ArgOK(a[1], a[2]) /\ ArgOK(b[1], b[2]) /\ ArgOK(c[1], c[2])
  <2>1. a[1] = "ltr390_init" /\ b[1] = "ltr390_enable" /\ c[1] = ThermoInitCall /\ a[2] = 0 /\ b[2] = 0 /\ c[2] = 0
    BY Zenon, PairParts
  <2>2. ArgOK("ltr390_init", 0) /\ ArgOK("ltr390_enable", 0) /\ ArgOK(ThermoInitCall, 0)
    BY Zenon DEF ArgOK, ThermoInitCall
  <2>3. QED
    BY Zenon, <2>1, <2>2
<1>5. BootCalls = <<a, b, c>>
  BY Zenon DEF BootCalls
<1> HIDE DEF a, b, c
<1>6. <<a, b, c>> \in Seq(Steps) /\ \A k \in DOMAIN <<a, b, c>> : <<a, b, c>>[k] \in {a, b, c}
  BY <1>3
<1>7. ListOK(<<a, b, c>>)
  BY Zenon, <1>4, <1>6 DEF ListOK
<1>8. <<>> \in Seq(Steps) /\ \A k \in DOMAIN <<>> : FALSE
  OBVIOUS
<1>9. QED
  BY Zenon, <1>5, <1>7, <1>8 DEF ListOK

LEMMA ArgsKept ==
  ASSUME TypeOK, ArgInv, BusStep
  PROVE  /\ mutex' \in [Devices -> Tasks \cup {Nobody}]
         /\ call' \in [Tasks -> CallRec]
         /\ todo' \in [Tasks -> Seq(Steps)]
         /\ ArgInv'
<1> DEFINE Goal == /\ mutex' \in [Devices -> Tasks \cup {Nobody}]
                   /\ call' \in [Tasks -> CallRec]
                   /\ todo' \in [Tasks -> Seq(Steps)]
                   /\ ArgInv'
<1>1. /\ mutex \in [Devices -> Tasks \cup {Nobody}]
      /\ call \in [Tasks -> CallRec]
      /\ todo \in [Tasks -> Seq(Steps)]
  BY Zenon DEF TypeOK, CallRec
<1>2. \A arg : ArgOK("none", arg)
  BY Zenon DEF ArgOK
<1>3. ASSUME NEW t \in Tasks, Takes(t) PROVE Goal
  <2>1. /\ call'[t].fn = Head(todo[t])[1] /\ call'[t].arg = Head(todo[t])[2] /\ todo'[t] = Tail(todo[t])
        /\ ArgOK(Head(todo[t])[1], Head(todo[t])[2]) /\ OthersKeep(t)
        /\ call' \in [Tasks -> CallRec] /\ todo' \in [Tasks -> Seq(Steps)]
        /\ mutex' \in [Devices -> Tasks \cup {Nobody}]
    BY Zenon, <1>3, TakesEffect
  <2>2. \A k \in DOMAIN Tail(todo[t]) : ArgOK(Tail(todo[t])[k][1], Tail(todo[t])[k][2])
    BY Zenon, <1>3, NextCall DEF Takes
  <2>3. ArgInv'
    BY Zenon, <2>1, <2>2 DEF ArgInv, OthersKeep
  <2>4. QED
    BY Zenon, <2>1, <2>3
<1>4. ASSUME NEW t \in Tasks, TimesOut(t) PROVE Goal
  <2>1. /\ call'[t].fn = "none" /\ todo'[t] = Tail(todo[t]) /\ OthersKeep(t) /\ mutex' = mutex
        /\ call' \in [Tasks -> CallRec] /\ todo' \in [Tasks -> Seq(Steps)]
    BY Zenon, <1>4, TimesOutEffect DEF TimesOut
  <2>2. \A k \in DOMAIN Tail(todo[t]) : ArgOK(Tail(todo[t])[k][1], Tail(todo[t])[k][2])
    BY Zenon, <1>4, NextCall DEF TimesOut
  <2>3. ArgInv'
    BY Zenon, <2>1, <2>2, <1>2 DEF ArgInv, OthersKeep
  <2>4. QED
    BY Zenon, <1>1, <2>1, <2>3
<1>5. ASSUME NEW t \in Tasks, Advances(t) \/ Gives(t) \/ Ends(t) \/ Finishes(t) PROVE Goal
  <2>1. /\ OthersKeep(t) /\ call' \in [Tasks -> CallRec] /\ todo' = todo
        /\ mutex' \in [Devices -> Tasks \cup {Nobody}]
        /\ (call'[t].fn = call[t].fn /\ call'[t].arg = call[t].arg) \/ call'[t].fn = "none"
    <3>1. CASE Advances(t)
      BY Zenon, <3>1, <1>1, AdvancesEffect DEF Advances
    <3>2. CASE Gives(t)
      BY Zenon, <3>2, GivesEffect DEF Gives
    <3>3. CASE Ends(t)
      BY Zenon, <3>3, EndsEffect DEF Ends
    <3>4. CASE Finishes(t)
      BY Zenon, <3>4, <1>1, FinishesEffect DEF Finishes
    <3>5. QED
      BY Zenon, <3>1, <3>2, <3>3, <3>4, <1>5
  <2>2. ArgInv'
    BY Zenon, <2>1, <1>2 DEF ArgInv, OthersKeep
  <2>3. QED
    BY Zenon, <1>1, <2>1, <2>2
<1>6. ASSUME NEW t \in Tasks, NEW l, ListOK(l), Told(t, l) PROVE Goal
  <2>1. /\ todo'[t] = l /\ call'[t] = call[t] /\ OthersKeep(t) /\ todo' \in [Tasks -> Seq(Steps)]
        /\ mutex' = mutex /\ call' = call
    BY Zenon, <1>6, ToldEffect DEF Told, ListOK
  <2>2. ArgInv'
    BY Zenon, <2>1, <1>6 DEF ArgInv, OthersKeep, ListOK
  <2>3. QED
    BY Zenon, <1>1, <2>1, <2>2
<1>7. CASE SensorTold
  <2>1. Sensor \in Tasks
    BY Zenon DEF Tasks
  <2>2. \E l \in SensorLists : Told(Sensor, l)
    BY Zenon, <1>7 DEF SensorTold, SensorLists
  <2>3. QED
    BY Zenon, <2>1, <2>2, <1>6, SensorListsOK
<1>8. CASE Handled
  <2>1. Mqtt \in Tasks
    BY Zenon DEF Tasks
  <2>2. CASE \E e \in BOOLEAN, m \in Modes, g \in Gains, r \in Rates : Told(Mqtt, OptionCalls(e, m, g, r))
    BY Zenon, <2>1, <2>2, <1>6, OptionCallsOK DEF ListOK
  <2>3. CASE \E e \in BOOLEAN, m \in {High, Low, commands + 1} :
               Told(Mqtt, Sht4xStores(e, m)) \/ Told(Mqtt, Shtc3Stores(e))
    BY Zenon, <2>1, <2>3, <1>6, StoreListsOK, NewModes
  <2>4. QED
    BY Zenon, <2>2, <2>3, <1>8 DEF Handled
<1>9. CASE Stores
  <2>1. Mqtt \in Tasks
    BY Zenon DEF Tasks
  <2>2. /\ mutex' = mutex /\ call' = call /\ todo[Mqtt] # <<>>
        /\ todo' = [todo EXCEPT ![Mqtt] = Tail(todo[Mqtt])]
    BY Zenon, <1>9 DEF Stores
  <2>3. /\ Tail(todo[Mqtt]) \in Seq(Steps)
        /\ \A k \in DOMAIN Tail(todo[Mqtt]) : ArgOK(Tail(todo[Mqtt])[k][1], Tail(todo[Mqtt])[k][2])
    BY Zenon, <2>1, <2>2, NextCall
  <2>4. /\ todo'[Mqtt] = Tail(todo[Mqtt]) /\ \A u \in Tasks : u # Mqtt => todo'[u] = todo[u]
        /\ todo' \in [Tasks -> Seq(Steps)]
    BY Zenon, <2>1, <2>2, <2>3, NewTodoEffect
  <2>5. ArgInv'
    BY Zenon, <2>2, <2>3, <2>4 DEF ArgInv
  <2>6. QED
    BY Zenon, <1>1, <2>2, <2>4, <2>5
<1>10. CASE Reboots
  <2>1. /\ \A t \in Tasks : call'[t].fn = "none"
        /\ todo'[Main] = BootCalls /\ \A t \in {Sensor, Mqtt} : todo'[t] = <<>>
        /\ call' \in [Tasks -> CallRec] /\ mutex' \in [Devices -> Tasks \cup {Nobody}]
    BY Zenon, <1>10, RebootsEffect
  <2>2. todo' = [t \in Tasks |-> IF t = Main THEN BootCalls ELSE <<>>]
    BY Zenon, <1>10 DEF Reboots, NewTodo
  <2>3. todo' \in [Tasks -> Seq(Steps)]
    BY Zenon, <2>2, BootListOK DEF ListOK
  <2>4. ArgInv'
    BY Zenon, <2>1, <1>2, BootListOK DEF ArgInv, ListOK, Tasks
  <2>5. QED
    BY Zenon, <2>1, <2>3, <2>4
<1>11. CASE bus' = bus
  BY Zenon, <1>1, <1>11 DEF bus, ArgInv
<1>12. QED
  BY Zenon, <1>3, <1>4, <1>5, <1>7, <1>8, <1>9, <1>10, <1>11 DEF BusStep

ThermoRec == [enabled : BOOLEAN, mode : {High, Low} \cup 1 .. MaxEvents]

Counts == /\ commands \in Nat /\ errors \in Nat /\ commands + errors <= MaxEvents
          /\ wrong \in Nat

DataOK == /\ st \in StRec /\ thermo \in ThermoRec /\ sen \in SenRec /\ chip \in ChipRec /\ awake \in BOOLEAN
          /\ Counts /\ heated \in Seq(1 .. MaxEvents)

LEMMA DataTyped == TypeOK => DataOK
BY Zenon DEF TypeOK, DataOK, StRec, ThermoRec, SenRec, ChipRec, Counts

LEMMA ErrorCounts ==
  ASSUME TypeOK, Error, commands' = commands
  PROVE  Counts' /\ wrong' = 0 /\ errors' # 0
BY SensorsAssumption DEF TypeOK, Error, Counts

LEMMA SameCounts ==
  ASSUME TypeOK, commands' = commands, errors' = errors, wrong' = wrong \/ wrong' = 0 \/ wrong' = wrong + 1
  PROVE  Counts'
BY DEF TypeOK, Counts

LEMMA HeatedTyped ==
  ASSUME TypeOK, ArgInv, NEW t \in Tasks, call[t].fn = "sht4x_measure", Heater(call[t].arg)
  PROVE  Append(heated, call[t].arg) \in Seq(1 .. MaxEvents) /\ call[t].arg \in 1 .. MaxEvents
<1>1. call[t].arg \in {High, Low} \cup 1 .. MaxEvents
  BY Zenon DEF ArgInv, ArgOK
<1>2. \A n \in {High, Low} \cup 1 .. MaxEvents : Heater(n) => n \in 1 .. MaxEvents
  BY SensorsAssumption DEF High, Low, Heater
<1>3. call[t].arg \in 1 .. MaxEvents
  BY Zenon, <1>1, <1>2
<1>4. \A S : \A s \in Seq(S), a \in S : Append(s, a) \in Seq(S)
  OBVIOUS
<1>5. heated \in Seq(1 .. MaxEvents)
  BY Zenon DEF TypeOK
<1>6. QED
  BY Zenon, <1>3, <1>4, <1>5

LEMMA WriteData ==
  ASSUME TypeOK, ArgInv, NEW t \in Tasks, Write(t)
  PROVE  DataOK'
<1>1. /\ chip' \in ChipRec /\ awake' \in BOOLEAN
      /\ heated' = IF call[t].fn = "sht4x_measure" /\ Heater(call[t].arg)
                      THEN Append(heated, call[t].arg) ELSE heated
  BY Zenon, WriteEffect DEF Write, ChipRec
<1>2. heated' \in Seq(1 .. MaxEvents)
  BY Zenon, <1>1, HeatedTyped DEF TypeOK
<1>3. /\ UNCHANGED <<mutex, todo, ram, sen, commands, errors>> /\ (wrong' = wrong \/ wrong' = 0)
  BY Zenon DEF Write, Disturbs
<1>4. Counts'
  BY Zenon, <1>3, SameCounts
<1>5. st' \in StRec /\ thermo' \in ThermoRec /\ sen' \in SenRec
  BY Zenon, <1>3, DataTyped DEF DataOK, ram
<1>6. QED
  BY Zenon, <1>1, <1>2, <1>4, <1>5 DEF DataOK

LEMMA FailedData ==
  ASSUME TypeOK, ArgInv, NEW t \in Tasks, TransferFails(t) \/ WriteIgnored(t)
  PROVE  DataOK'
<1>1. Transferring(t) /\ Fails(t) /\ Error /\ UNCHANGED <<ram, sen, commands>>
  BY Zenon DEF TransferFails, WriteIgnored
<1>2. /\ chip' \in ChipRec /\ awake' \in BOOLEAN
      /\ \/ heated' = heated
         \/ /\ call[t].fn = "sht4x_measure" /\ Heater(call[t].arg)
            /\ heated' = Append(heated, call[t].arg)
  BY Zenon, <1>1, FailsEffect
<1>3. heated' \in Seq(1 .. MaxEvents)
  BY Zenon, <1>2, HeatedTyped, DataTyped DEF DataOK
<1>4. Counts'
  BY Zenon, <1>1, ErrorCounts
<1>5. st' \in StRec /\ thermo' \in ThermoRec /\ sen' \in SenRec
  BY Zenon, <1>1, DataTyped DEF DataOK, ram
<1>6. QED
  BY Zenon, <1>2, <1>3, <1>4, <1>5 DEF DataOK

LEMMA ReadData ==
  ASSUME TypeOK, NEW t \in Tasks, Read(t) \/ ReadIgnored(t)
  PROVE  DataOK'
<1>1. CASE Read(t)
  <2>1. Counts'
    BY Zenon, <1>1, ReadEffect, SameCounts
  <2>2. QED
    BY Zenon, <1>1, <2>1, ReadEffect, DataTyped DEF DataOK
<1>2. CASE ReadIgnored(t)
  <2>1. Error /\ commands' = commands
    BY Zenon, <1>2, ReadIgnoredEffect
  <2>2. Counts'
    BY Zenon, <2>1, ErrorCounts
  <2>3. QED
    BY Zenon, <1>2, <2>2, ReadIgnoredEffect, DataTyped DEF DataOK, chips
<1>3. QED
  BY Zenon, <1>1, <1>2

(* The stores after the give *)
LEMMA FinishEffect ==
  ASSUME TypeOK, ArgInv, PlaceInv, NEW t \in Tasks, Finish(t)
  PROVE  /\ call[t].fn \in StoringCalls /\ call[t].at = Len(Transfers[call[t].fn]) + 2
         /\ st' \in StRec
         /\ st'.enabled = IF call[t].fn = "ltr390_enable" THEN TRUE
                          ELSE IF call[t].fn = "ltr390_standby" THEN FALSE ELSE st.enabled
         /\ st'.mode = IF call[t].fn = "ltr390_set_mode" THEN call[t].arg ELSE st.mode
         /\ Disturbs(t) /\ Return(t, "ok")
         /\ UNCHANGED <<mutex, todo, thermo, sen, chips, commands, errors, heated>>
<1> DEFINE c == call[t]
<1>1. /\ InCall(t) /\ c.at = Len(Transfers[c.fn]) + 2
      /\ st' = CASE c.fn = "ltr390_enable"         -> [st EXCEPT !.enabled = TRUE]
                 [] c.fn = "ltr390_standby"        -> [st EXCEPT !.enabled = FALSE]
                 [] c.fn = "ltr390_set_mode"       -> [st EXCEPT !.mode = c.arg]
                 [] c.fn = "ltr390_set_resolution" -> [st EXCEPT !.rate = c.arg]
      /\ Disturbs(t) /\ Return(t, "ok")
      /\ UNCHANGED <<mutex, todo, thermo, sen, chips, commands, errors, heated>>
  BY Zenon DEF Finish
<1>2. c.fn \in StoringCalls
  <2>1. c.fn \in DriverCalls
    BY Zenon, <1>1, CallTyped
  <2>2. ~(c.at <= Len(Transfers[c.fn]) + 1)
    BY SMT, <1>1, <2>1, LenTransfers
  <2>3. QED
    BY Zenon, <1>1, <2>2 DEF PlaceInv
<1>3. st \in StRec
  BY Zenon, DataTyped DEF DataOK
<1>4. ArgOK(c.fn, c.arg)
  BY Zenon DEF ArgInv
<1> HIDE DEF c
<1>5. CASE c.fn = "ltr390_enable"
  <2>1. st' = [st EXCEPT !.enabled = TRUE]
    BY Zenon, <1>1, <1>5
  <2>2. st' \in StRec /\ st'.enabled = TRUE /\ st'.mode = st.mode
    BY Zenon, <2>1, <1>3 DEF StRec
  <2>3. QED
    BY Zenon, <1>1, <1>2, <1>5, <2>2 DEF c
<1>6. CASE c.fn = "ltr390_standby"
  <2>1. st' = [st EXCEPT !.enabled = FALSE]
    BY Zenon, <1>1, <1>6
  <2>2. st' \in StRec /\ st'.enabled = FALSE /\ st'.mode = st.mode
    BY Zenon, <2>1, <1>3 DEF StRec
  <2>3. QED
    BY Zenon, <1>1, <1>2, <1>6, <2>2 DEF c
<1>7. CASE c.fn = "ltr390_set_mode"
  <2>1. st' = [st EXCEPT !.mode = c.arg] /\ c.arg \in Modes
    BY Zenon, <1>1, <1>4, <1>7 DEF ArgOK
  <2>2. st' \in StRec /\ st'.enabled = st.enabled /\ st'.mode = c.arg
    BY Zenon, <2>1, <1>3 DEF StRec
  <2>3. QED
    BY Zenon, <1>1, <1>2, <1>7, <2>2 DEF c
<1>8. CASE c.fn = "ltr390_set_resolution"
  <2>1. st' = [st EXCEPT !.rate = c.arg] /\ c.arg \in RateReg
    BY Zenon, <1>1, <1>4, <1>8 DEF ArgOK, RateReg
  <2>2. st' \in StRec /\ st'.enabled = st.enabled /\ st'.mode = st.mode
    BY Zenon, <2>1, <1>3 DEF StRec
  <2>3. QED
    BY Zenon, <1>1, <1>2, <1>8, <2>2 DEF c
<1>9. QED
  BY Zenon, <1>2, <1>5, <1>6, <1>7, <1>8 DEF StoringCalls

LEMMA FinishData ==
  ASSUME TypeOK, ArgInv, PlaceInv, NEW t \in Tasks, Finish(t)
  PROVE  DataOK'
<1>1. /\ st' \in StRec /\ (wrong' = wrong \/ wrong' = 0)
      /\ UNCHANGED <<mutex, todo, thermo, sen, chips, commands, errors, heated>>
  BY Zenon, FinishEffect DEF Disturbs
<1>2. Counts'
  BY Zenon, <1>1, SameCounts
<1>3. QED
  BY Zenon, <1>1, <1>2, DataTyped DEF DataOK, chips

LEMMA BusOnlyData ==
  ASSUME TypeOK, NEW t \in Tasks, TakeMutex(t) \/ GiveMutex(t)
  PROVE  DataOK'
<1>1. /\ UNCHANGED <<ram, sen, chips, commands, heated>>
      /\ UNCHANGED <<errors, wrong>> \/ Error
  BY Zenon DEF TakeMutex, GiveMutex, history
<1>2. Counts'
  BY Zenon, <1>1, ErrorCounts, SameCounts
<1>3. QED
  BY Zenon, <1>1, <1>2, DataTyped DEF DataOK, ram, chips

LEMMA NewData == NewSen \in SenRec /\ NewSt \in StRec
BY Zenon DEF NewSen, NewSt, SenRec, StRec, Modes, GainReg, RateReg

LEMMA SensorData ==
  ASSUME TypeOK, SensorTask
  PROVE  DataOK'
<1>1. /\ sen \in SenRec /\ thermo \in ThermoRec /\ st \in StRec
  BY Zenon, DataTyped DEF DataOK
<1>2. \A p \in {"ltr390", "select", "recheck", "convert", "thermo", "mode", "reset", "heater"} :
        [sen EXCEPT !.at = p] \in SenRec /\ [NewSen EXCEPT !.at = p] \in SenRec
  BY Zenon, <1>1, NewData DEF SenRec
<1>3. \A m \in Modes : /\ [sen EXCEPT !.at = "select", !.label = m] \in SenRec
                       /\ [sen EXCEPT !.at = "recheck", !.source = m] \in SenRec
  BY Zenon, <1>1 DEF SenRec
<1>4. st.mode \in Modes
  BY Zenon, <1>1 DEF StRec
<1>5. sen' \in SenRec
  <2>1. CASE LtrLabel
    BY Zenon, <2>1, <1>2, <1>3, <1>4 DEF LtrLabel
  <2>2. CASE LtrSelect
    BY Zenon, <2>2, <1>3, <1>4 DEF LtrSelect
  <2>3. CASE LtrRead \/ LtrReading \/ LtrNoReading \/ ThermoEnabled \/ ThermoMeasure \/ ThermoSwitch \/ ThermoReset
    BY Zenon, <2>3, <1>2 DEF LtrRead, LtrReading, LtrNoReading, ThermoEnabled, ThermoMeasure, ThermoSwitch, ThermoReset, Go, Leave
  <2>4. QED
    BY Zenon, <2>1, <2>2, <2>3 DEF SensorTask
<1>6. thermo' \in ThermoRec
  <2>1. thermo' = thermo \/ thermo' = [thermo EXCEPT !.mode = High]
    BY Zenon DEF SensorTask, LtrLabel, LtrSelect, LtrRead, LtrReading, LtrNoReading, ThermoEnabled, ThermoMeasure, ThermoSwitch,
       ThermoReset, ram
  <2>2. QED
    BY Zenon, <2>1, <1>1 DEF ThermoRec
<1>7. UNCHANGED <<st, chips, commands, errors, heated>> /\ (wrong' = wrong \/ wrong' = 0 \/ wrong' = wrong + 1)
  BY Zenon DEF SensorTask, LtrLabel, LtrSelect, LtrRead, LtrReading, LtrNoReading, ThermoEnabled, ThermoMeasure, ThermoSwitch,
     ThermoReset, ram, history
<1>8. Counts'
  BY Zenon, <1>7, SameCounts
<1>9. QED
  BY Zenon, <1>5, <1>6, <1>7, <1>8, DataTyped DEF DataOK, chips

LEMMA MqttData ==
  ASSUME TypeOK, ArgInv, MqttInv, MqttTask
  PROVE  DataOK'
<1>1. ASSUME NEW l, Accept(l), UNCHANGED <<mutex, call, ram, sen, chips, errors, history>>
      PROVE DataOK'
  <2>1. commands + errors < MaxEvents /\ commands' = commands + 1 /\ errors' = errors /\ wrong' = wrong
    BY Zenon, <1>1 DEF Accept, history
  <2>2. commands \in Nat /\ errors \in Nat /\ wrong \in Nat
    BY Zenon DEF TypeOK
  <2>3. Counts'
    BY SMT, <2>1, <2>2, SensorsAssumption DEF Counts
  <2>4. QED
    BY Zenon, <1>1, <2>3, DataTyped DEF DataOK, ram, chips, history
<1>2. CASE \E e \in BOOLEAN, m \in Modes, g \in Gains, r \in Rates : Ltr390SetOptions(e, m, g, r)
  BY Zenon, <1>1, <1>2 DEF Ltr390SetOptions
<1>3. CASE \E e \in BOOLEAN, m \in {High, Low, commands + 1} : ThermoSetOptions(e, m)
  BY Zenon, <1>1, <1>3 DEF ThermoSetOptions
<1>4. CASE ThermoStore
  <2>1. /\ todo[Mqtt] # <<>> /\ Head(todo[Mqtt])[1] \in DOMAIN thermo
        /\ thermo' = [thermo EXCEPT ![Head(todo[Mqtt])[1]] = Head(todo[Mqtt])[2]]
        /\ UNCHANGED <<mutex, call, st, sen, chips, commands, errors, history>>
    BY Zenon, <1>4 DEF ThermoStore
  <2>2. thermo \in ThermoRec
    BY Zenon, DataTyped DEF DataOK
  <2>3. DOMAIN thermo = {"enabled", "mode"}
    BY Zenon, <2>2 DEF ThermoRec
  <2>4. /\ Head(todo[Mqtt])[1] = "enabled" => Head(todo[Mqtt])[2] \in BOOLEAN
        /\ Head(todo[Mqtt])[1] = "mode" => Head(todo[Mqtt])[2] \in {High, Low} \cup 1 .. MaxEvents
    <3>1. Mqtt \in Tasks /\ todo[Mqtt] \in Seq(Steps)
      BY Zenon, CallTyped DEF Tasks
    <3>2. Head(todo[Mqtt])[1] = "mode" => Head(todo[Mqtt])[2] \in {High, Low, commands}
      <4>1. Head(todo[Mqtt]) = todo[Mqtt][1] /\ 1 \in DOMAIN todo[Mqtt]
        BY <3>1, <2>1, HeadAndTail
      <4>2. QED
        BY Zenon, <4>1 DEF MqttInv
    <3>3. commands \in {High, Low} \cup 1 .. MaxEvents
      BY SensorsAssumption DEF TypeOK, Low
    <3>4. QED
      BY Zenon, <3>1, <3>2, <3>3, <2>1, NextCall
  <2>5. thermo' \in ThermoRec
    BY Zenon, <2>1, <2>2, <2>3, <2>4 DEF ThermoRec
  <2>6. Counts'
    BY Zenon, <2>1, SameCounts DEF history
  <2>7. QED
    BY Zenon, <2>1, <2>5, <2>6, DataTyped DEF DataOK, chips, history
<1>5. QED
  BY Zenon, <1>2, <1>3, <1>4 DEF MqttTask

LEMMA RestartData ==
  ASSUME TypeOK, ArgInv, BootFails \/ ConversionAborts \/ ChipMeasures
  PROVE  DataOK'
<1>1. CASE BootFails
  <2>1. Main \in Tasks
    BY Zenon DEF Tasks
  <2>2. Transferring(Main) /\ Error /\ Fails(Main) /\ Restart
    BY Zenon, <1>1 DEF BootFails
  <2>3. /\ chip' \in ChipRec /\ awake' \in BOOLEAN
        /\ \/ heated' = heated
           \/ /\ call[Main].fn = "sht4x_measure" /\ Heater(call[Main].arg)
              /\ heated' = Append(heated, call[Main].arg)
    BY Zenon, <2>1, <2>2, FailsEffect
  <2>4. heated' \in Seq(1 .. MaxEvents)
    BY Zenon, <2>1, <2>3, HeatedTyped, DataTyped DEF DataOK
  <2>5. Counts'
    BY Zenon, <2>2, ErrorCounts DEF Restart
  <2>6. NewThermo \in ThermoRec
    BY Zenon DEF NewThermo, ThermoRec
  <2>7. QED
    BY Zenon, <2>2, <2>3, <2>4, <2>5, <2>6, NewData DEF DataOK, Restart
<1>2. CASE ConversionAborts
  <2>1. wrong' = 0 /\ UNCHANGED <<errors, chips, heated>> /\ Restart
    BY Zenon, <1>2 DEF ConversionAborts
  <2>2. NewThermo \in ThermoRec
    BY Zenon DEF NewThermo, ThermoRec
  <2>3. Counts'
    BY Zenon, <2>1, SameCounts DEF Restart
  <2>4. QED
    BY Zenon, <2>1, <2>2, <2>3, NewData, DataTyped DEF DataOK, Restart, chips
<1>3. CASE ChipMeasures
  <2>1. /\ chip' = [chip EXCEPT !.ready = TRUE]
        /\ UNCHANGED <<bus, ram, sen, awake, commands, errors, history>>
    BY Zenon, <1>3 DEF ChipMeasures
  <2>2. chip' \in ChipRec
    BY Zenon, <2>1, DataTyped DEF DataOK, ChipRec
  <2>3. Counts'
    BY Zenon, <2>1, SameCounts DEF history
  <2>4. QED
    BY Zenon, <2>1, <2>2, <2>3, DataTyped DEF DataOK, ram, history
<1>4. QED
  BY Zenon, <1>1, <1>2, <1>3

LEMMA TypeKept ==
  ASSUME TypeOK, ArgInv, PlaceInv, MqttInv, Next
  PROVE  TypeOK' /\ ArgInv'
<1>1. DataOK'
  BY Zenon, WriteData, FailedData, ReadData, FinishData, BusOnlyData, SensorData, MqttData, RestartData
     DEF Next, Driver
<1>2. /\ mutex' \in [Devices -> Tasks \cup {Nobody}]
      /\ call' \in [Tasks -> CallRec]
      /\ todo' \in [Tasks -> Seq(Steps)]
      /\ ArgInv'
  BY Zenon, BusSteps, ArgsKept
<1>3. QED
  BY Zenon, <1>1, <1>2 DEF TypeOK, DataOK, StRec, ThermoRec, SenRec, ChipRec, Counts, CallRec

--------------------------------------------------------------------------------
(* What each task is at *)

LEMMA TaskNames ==
  /\ Main \in Tasks /\ Sensor \in Tasks /\ Mqtt \in Tasks
  /\ Main # Sensor /\ Main # Mqtt /\ Sensor # Mqtt
  /\ \A t \in Tasks : t = Main \/ t = Sensor \/ t = Mqtt
BY Zenon DEF Tasks, Main, Sensor, Mqtt

DriverStep(t) ==
  \/ TakeMutex(t) \/ Write(t) \/ Read(t) \/ TransferFails(t) \/ WriteIgnored(t)
  \/ ReadIgnored(t) \/ GiveMutex(t) \/ Finish(t)

LEMMA DriverBus ==
  ASSUME TypeOK, NEW t \in Tasks, DriverStep(t)
  PROVE  Takes(t) \/ TimesOut(t) \/ Advances(t) \/ Ends(t) \/ Gives(t) \/ Finishes(t)
BY Zenon, TakeMutexBus, WriteBus, ReadEffect, TransferFailsBus, ReadIgnoredEffect, GiveMutexBus, FinishBus
   DEF DriverStep

LEMMA DriverKeeps ==
  ASSUME TypeOK, NEW t \in Tasks, DriverStep(t)
  PROVE  /\ sen'.at = sen.at /\ sen'.label = sen.label /\ sen'.source = sen.source
         /\ call[t].fn # "ltr390_read" => sen' = sen
         /\ commands' = commands /\ thermo' = thermo
         /\ wrong' = wrong \/ wrong' = 0
         /\ errors' = errors \/ (Error /\ errors' # 0)
         /\ OthersKeep(t)
         /\ ~Idle(t)
<1>2. OthersKeep(t) /\ ~Idle(t)
  <2>1. ~Idle(t)
    BY Zenon, DriverBus DEF Takes, TimesOut, Advances, Ends, Gives, Finishes, Transferring, Idle
  <2>2. OthersKeep(t)
    <3>1. CASE TakeMutex(t)
      <4>1. todo' = [todo EXCEPT ![t] = Tail(todo[t])]
        BY Zenon, <3>1 DEF TakeMutex, Calls
      <4>2. PICK c : call' = [call EXCEPT ![t] = c]
        BY Zenon, <3>1 DEF TakeMutex, Return
      <4>3. \A u \in Tasks : u # t => call'[u] = call[u]
        BY Zenon, <4>2, NewCallEffect
      <4>4. \A u \in Tasks : u # t => todo'[u] = todo[u]
        BY Zenon, <4>1, NewTodoEffect
      <4>5. QED
        BY Zenon, <4>3, <4>4 DEF OthersKeep
    <3>2. CASE ~TakeMutex(t)
      <4>1. Advances(t) \/ Ends(t) \/ Gives(t) \/ Finishes(t)
        BY Zenon, <3>2, WriteBus, ReadEffect, TransferFailsBus, ReadIgnoredEffect, GiveMutexBus, FinishBus
           DEF DriverStep
      <4>2. QED
        BY Zenon, <4>1, AdvancesEffect, EndsEffect, GivesEffect, FinishesEffect
    <3>3. QED
      BY Zenon, <3>1, <3>2
  <2>3. QED
    BY Zenon, <2>1, <2>2
<1>3. CASE Read(t)
  BY Zenon, <1>2, <1>3, ReadEffect DEF SenRec
<1>4. CASE ReadIgnored(t)
  BY Zenon, <1>2, <1>4, ReadIgnoredEffect, ErrorCounts
<1>5. CASE Write(t)
  BY Zenon, <1>2, <1>5 DEF Write, Disturbs, ram
<1>6. CASE TransferFails(t) \/ WriteIgnored(t)
  <2>1. Error /\ UNCHANGED <<ram, sen, commands>>
    BY Zenon, <1>6 DEF TransferFails, WriteIgnored
  <2>2. wrong' = 0 /\ errors' # 0
    BY Zenon, <2>1, ErrorCounts
  <2>3. QED
    BY Zenon, <1>2, <2>1, <2>2 DEF ram
<1>7. CASE GiveMutex(t)
  BY Zenon, <1>2, <1>7 DEF GiveMutex, ram, history
<1>8. CASE Finish(t)
  BY Zenon, <1>2, <1>8 DEF Finish, Disturbs
<1>9. QED
  <2>1. CASE TakeMutex(t)
    <3>1. UNCHANGED <<ram, sen, chips, commands, heated>> /\ (UNCHANGED <<errors, wrong>> \/ Error)
      BY Zenon, <2>1 DEF TakeMutex
    <3>2. QED
      BY Zenon, <1>2, <3>1, ErrorCounts DEF ram
  <2>2. QED
    BY Zenon, <2>1, <1>3, <1>4, <1>5, <1>6, <1>7, <1>8 DEF DriverStep

(* Where the calls and lists of one task stay, or go on *)
LEMMA OneTask ==
  ASSUME TypeOK, ArgInv, NEW t \in Tasks, DriverStep(t)
  PROVE  \/ /\ ~InCall(t) /\ todo[t] # <<>> /\ todo'[t] = Tail(todo[t])
            /\ \/ call'[t].fn = Head(todo[t])[1] /\ call'[t].arg = Head(todo[t])[2] /\ call'[t].at = 1
                  /\ Head(todo[t])[1] \in DriverCalls /\ Takes(t)
               \/ call'[t].fn = "none" /\ TimesOut(t)
         \/ /\ InCall(t) /\ todo'[t] = todo[t]
            /\ \/ call'[t].fn = call[t].fn /\ call'[t].arg = call[t].arg /\ call'[t].at = call[t].at + 1
                  /\ (Advances(t) \/ Gives(t))
               \/ call'[t].fn = "none" /\ (Ends(t) \/ Finishes(t))
<1>1. CASE Takes(t)
  BY Zenon, <1>1, TakesEffect DEF Takes
<1>2. CASE TimesOut(t)
  BY Zenon, <1>2, TimesOutEffect DEF TimesOut
<1>3. CASE Advances(t)
  BY Zenon, <1>3, AdvancesEffect DEF Advances, Transferring
<1>4. CASE Ends(t)
  BY Zenon, <1>4, EndsEffect DEF Ends
<1>5. CASE Gives(t)
  BY Zenon, <1>5, GivesEffect DEF Gives
<1>6. CASE Finishes(t)
  BY Zenon, <1>6, FinishesEffect DEF Finishes
<1>7. QED
  BY Zenon, <1>1, <1>2, <1>3, <1>4, <1>5, <1>6, DriverBus

LEMMA RestartEffect ==
  ASSUME Restart
  PROVE  /\ Reboots /\ sen' = NewSen /\ st' = NewSt /\ thermo' = NewThermo /\ commands' = commands
         /\ \A t \in Tasks : call'[t].fn = "none" /\ InCall(t)' = FALSE
         /\ todo'[Main] = BootCalls /\ todo'[Sensor] = <<>> /\ todo'[Mqtt] = <<>>
         /\ Idle(Sensor)' /\ Idle(Mqtt)'
<1>1. Reboots /\ sen' = NewSen /\ st' = NewSt /\ thermo' = NewThermo /\ commands' = commands
  BY Zenon DEF Restart, Reboots
<1>2. QED
  BY Zenon, <1>1, RebootsEffect, TaskNames DEF InCall, Idle

LEMMA SensorKeeps ==
  ASSUME SensorTask
  PROVE  /\ Started /\ Idle(Sensor) /\ mutex' = mutex /\ call' = call
         /\ commands' = commands /\ errors' = errors /\ st' = st /\ chip' = chip /\ heated' = heated
         /\ \/ todo' = todo
            \/ todo' = [todo EXCEPT ![Sensor] = << <<"ltr390_read", 0>> >>] /\ sen' = [sen EXCEPT !.at = "convert"]
            \/ /\ todo' = [todo EXCEPT ![Sensor] = << <<"ltr390_set_mode", 1 - sen.label>> >>]
               /\ sen' = [NewSen EXCEPT !.at = "thermo"]
            \/ todo' = [todo EXCEPT ![Sensor] = << <<MeasureCall, thermo.mode>> >>]
               /\ sen' = [sen EXCEPT !.at = "reset"]
<1>1. CASE LtrRead
  BY Zenon, <1>1 DEF LtrRead, SensorAt, Calls, Go, Leave, ram, chips, history
<1>2. CASE LtrReading
  BY Zenon, <1>2 DEF LtrReading, SensorAt, Calls, Leave, ram, chips
<1>3. CASE ThermoMeasure
  BY Zenon, <1>3 DEF ThermoMeasure, SensorAt, Calls, Go, Leave, ram, chips, history
<1>4. CASE LtrLabel \/ LtrSelect \/ LtrNoReading \/ ThermoEnabled \/ ThermoSwitch \/ ThermoReset
  BY Zenon, <1>4 DEF LtrLabel, LtrSelect, LtrNoReading, ThermoEnabled, ThermoSwitch, ThermoReset, SensorAt, bus, ram, chips, history
<1>5. QED
  BY Zenon, <1>1, <1>2, <1>3, <1>4 DEF SensorTask

LEMMA MqttKeeps ==
  ASSUME BootInv, MqttTask
  PROVE  /\ Started /\ mutex' = mutex /\ call' = call /\ sen' = sen /\ wrong' = wrong
         /\ errors' = errors /\ st' = st /\ chip' = chip /\ heated' = heated
         /\ \E l : todo' = [todo EXCEPT ![Mqtt] = l]
<1>1. CASE \E e \in BOOLEAN, m \in Modes, g \in Gains, r \in Rates : Ltr390SetOptions(e, m, g, r)
  BY Zenon, <1>1 DEF Ltr390SetOptions, Accept, Calls, ram, chips, history
<1>2. CASE \E e \in BOOLEAN, m \in {High, Low, commands + 1} : ThermoSetOptions(e, m)
  BY Zenon, <1>2 DEF ThermoSetOptions, Accept, Calls, ram, chips, history
<1>3. CASE ThermoStore
  BY Zenon, <1>3 DEF ThermoStore, Calls, ram, chips, history, BootInv, Idle
<1>4. QED
  BY Zenon, <1>1, <1>2, <1>3 DEF MqttTask

LEMMA MainKept ==
  ASSUME BootInv, Started, call'[Main] = call[Main], todo'[Main] = todo[Main]
  PROVE  BootInv'
BY Zenon DEF BootInv, Started, Idle, InCall

LEMMA BootKept ==
  ASSUME TypeOK, ArgInv, BootInv, Next
  PROVE  BootInv'
<1>1. ASSUME NEW t \in Tasks, t # Main, DriverStep(t)
      PROVE  BootInv'
  <2>1. OthersKeep(t) /\ ~Idle(t)
    BY Zenon, <1>1, DriverKeeps
  <2>2. Started
    BY Zenon, <2>1, <1>1, TaskNames DEF BootInv
  <2>3. QED
    BY Zenon, <2>1, <2>2, <1>1, TaskNames, MainKept DEF OthersKeep
<1>2. CASE DriverStep(Main)
  <2>1. /\ OthersKeep(Main) /\ ~Idle(Main) /\ (call[Main].fn # "ltr390_read" => sen' = sen)
        /\ (wrong' = wrong \/ wrong' = 0)
    BY Zenon, <1>2, TaskNames, DriverKeeps
  <2>2. Idle(Sensor) /\ Idle(Mqtt) /\ sen = NewSen /\ wrong = 0
    BY Zenon, <2>1 DEF BootInv, Started
  <2>3. sen' = sen
    <3>1. ThermoInitCall # "ltr390_read"
      BY Zenon DEF ThermoInitCall
    <3>2. call[Main].fn \in {"none", "ltr390_init", "ltr390_enable", ThermoInitCall}
      BY Zenon DEF BootInv, InCall
    <3>3. QED
      BY Zenon, <2>1, <3>1, <3>2
  <2>4. Idle(Sensor)' /\ Idle(Mqtt)'
    BY Zenon, <2>1, <2>2, TaskNames DEF OthersKeep, Idle, InCall
  <2>5. \/ todo'[Main] = BootCalls /\ ~InCall(Main)'
        \/ todo'[Main] = AfterInit /\ call'[Main].fn \in {"none", "ltr390_init"}
        \/ todo'[Main] = AfterEnable /\ call'[Main].fn \in {"none", "ltr390_enable"}
        \/ todo'[Main] = <<>> /\ call'[Main].fn \in {"none", ThermoInitCall}
    <3>1. Head(BootCalls)[1] = "ltr390_init" /\ Head(AfterInit)[1] = "ltr390_enable"
          /\ Head(AfterEnable)[1] = ThermoInitCall
      BY Zenon, BootLists, PairParts
    <3>2. CASE /\ ~InCall(Main) /\ todo[Main] # <<>> /\ todo'[Main] = Tail(todo[Main])
               /\ call'[Main].fn = Head(todo[Main])[1] \/ call'[Main].fn = "none"
      BY Zenon, <3>1, <3>2, BootLists DEF BootInv
    <3>3. CASE /\ InCall(Main) /\ todo'[Main] = todo[Main]
               /\ call'[Main].fn = call[Main].fn \/ call'[Main].fn = "none"
      BY Zenon, <3>3 DEF BootInv
    <3>4. QED
      BY Zenon, <3>2, <3>3, <1>2, OneTask, TaskNames
  <2>6. QED
    BY Zenon, <2>1, <2>2, <2>3, <2>4, <2>5 DEF BootInv
<1>3. CASE SensorTask
  <2>1. Started /\ call' = call /\ \E l : todo' = todo \/ todo' = [todo EXCEPT ![Sensor] = l]
    BY Zenon, <1>3, SensorKeeps
  <2>2. todo'[Main] = todo[Main]
    BY Zenon, <2>1, NewTodoEffect, TaskNames
  <2>3. QED
    BY Zenon, <2>1, <2>2, MainKept
<1>4. CASE MqttTask
  <2>1. Started /\ call' = call /\ \E l : todo' = [todo EXCEPT ![Mqtt] = l]
    BY Zenon, <1>4, MqttKeeps
  <2>2. todo'[Main] = todo[Main]
    BY Zenon, <2>1, NewTodoEffect, TaskNames
  <2>3. QED
    BY Zenon, <2>1, <2>2, MainKept
<1>5. CASE BootFails \/ ConversionAborts
  <2>1. Restart /\ wrong' = 0
    BY Zenon, <1>5 DEF BootFails, ConversionAborts, Error
  <2>2. QED
    BY Zenon, <2>1, RestartEffect, TaskNames DEF BootInv, Started
<1>6. CASE ChipMeasures
  BY Zenon, <1>6 DEF ChipMeasures, bus, ram, history, BootInv, Started, Idle, InCall
<1>7. QED
  BY Zenon, <1>1, <1>2, <1>3, <1>4, <1>5, <1>6 DEF Next, Driver, DriverStep

LEMMA TailOfOne ==
  ASSUME NEW S, NEW s \in Seq(S), Len(s) = 1
  PROVE  Tail(s) = <<>>
<1>1. s # <<>>
  BY EmptySeq
<1>2. Tail(s) \in Seq(S) /\ Len(Tail(s)) = 0
  BY <1>1, HeadTailProperties
<1>3. QED
  BY <1>2, EmptySeq

LEMMA SensorSame ==
  ASSUME SensorInv, call'[Sensor] = call[Sensor], todo'[Sensor] = todo[Sensor], sen'.at = sen.at
  PROVE  SensorInv'
BY Zenon DEF SensorInv, Idle, InCall, JobFn

LEMMA SensorKept ==
  ASSUME TypeOK, ArgInv, BootInv, SensorInv, Next
  PROVE  SensorInv'
<1>1. ASSUME NEW t \in Tasks, t # Sensor, DriverStep(t)
      PROVE  SensorInv'
  BY Zenon, <1>1, DriverKeeps, TaskNames, SensorSame DEF OthersKeep
<1>2. CASE DriverStep(Sensor)
  <2>1. sen'.at = sen.at
    BY Zenon, <1>2, DriverKeeps, TaskNames
  <2>2. CASE /\ ~InCall(Sensor) /\ todo[Sensor] # <<>> /\ todo'[Sensor] = Tail(todo[Sensor])
             /\ call'[Sensor].fn = Head(todo[Sensor])[1] \/ call'[Sensor].fn = "none"
    <3>1. Tail(todo[Sensor]) = <<>>
      <4>1. todo[Sensor] \in Seq(Steps) /\ Len(todo[Sensor]) = 1
        BY Zenon, <2>2, CallTyped, TaskNames DEF SensorInv
      <4>2. QED
        BY Zenon, <4>1, TailOfOne
    <3>2. JobFn(Sensor) = Head(todo[Sensor])[1]
      BY Zenon, <2>2 DEF JobFn
    <3>3. JobFn(Sensor)' = call'[Sensor].fn
      BY Zenon, <2>2, <3>1 DEF JobFn
    <3>4. QED
      BY Zenon, <2>1, <2>2, <3>1, <3>2, <3>3 DEF SensorInv, Idle, InCall
  <2>3. CASE /\ InCall(Sensor) /\ todo'[Sensor] = todo[Sensor]
             /\ call'[Sensor].fn = call[Sensor].fn \/ call'[Sensor].fn = "none"
    <3>1. todo[Sensor] = <<>>
      BY Zenon, <2>3 DEF SensorInv
    <3>2. JobFn(Sensor) = call[Sensor].fn /\ JobFn(Sensor)' = call'[Sensor].fn
      BY Zenon, <2>3, <3>1 DEF JobFn
    <3>3. QED
      BY Zenon, <2>1, <2>3, <3>1, <3>2 DEF SensorInv, Idle, InCall
  <2>4. QED
    BY Zenon, <2>2, <2>3, <1>2, OneTask, TaskNames
<1>3. CASE SensorTask
  <2>1. Idle(Sensor) /\ call' = call
    BY Zenon, <1>3, SensorKeeps
  <2>2. CASE todo' = todo
    BY Zenon, <2>1, <2>2 DEF SensorInv, Idle, InCall
  <2>3. ASSUME NEW l, todo' = [todo EXCEPT ![Sensor] = l], l # <<>>, Len(l) = 1,
               \/ Head(l)[1] = "ltr390_read" /\ sen'.at = "convert"
               \/ Head(l)[1] = "ltr390_set_mode" /\ sen'.at = "thermo"
               \/ Head(l)[1] = MeasureCall /\ sen'.at = "reset"
        PROVE  SensorInv'
    <3>1. todo'[Sensor] = l
      BY Zenon, <2>3, NewTodoEffect, TaskNames
    <3>2. ~InCall(Sensor)'
      BY Zenon, <2>1 DEF Idle, InCall
    <3>3. JobFn(Sensor)' = Head(l)[1]
      BY Zenon, <2>3, <3>1, <3>2 DEF JobFn
    <3>4. QED
      BY Zenon, <2>3, <3>1, <3>2, <3>3 DEF SensorInv
  <2>4. /\ [sen EXCEPT !.at = "convert"].at = "convert" /\ [NewSen EXCEPT !.at = "thermo"].at = "thermo"
        /\ [sen EXCEPT !.at = "reset"].at = "reset"
    BY Zenon, NewData, DataTyped DEF DataOK, SenRec
  <2>5. \A fn, n : << <<fn, n>> >> # <<>> /\ Len(<< <<fn, n>> >>) = 1 /\ Head(<< <<fn, n>> >>)[1] = fn
    OBVIOUS
  <2>6. CASE todo' = [todo EXCEPT ![Sensor] = << <<"ltr390_read", 0>> >>] /\ sen' = [sen EXCEPT !.at = "convert"]
    <3>1. sen'.at = "convert"
      BY Zenon, <2>4, <2>6
    <3> DEFINE l == << <<"ltr390_read", 0>> >>
    <3>2. l # <<>> /\ Len(l) = 1 /\ Head(l)[1] = "ltr390_read"
      BY Zenon, <2>5
    <3>3. todo' = [todo EXCEPT ![Sensor] = l]
      BY Zenon, <2>6
    <3> HIDE DEF l
    <3>4. QED
      BY Zenon, <2>3, <3>1, <3>2, <3>3
  <2>7. CASE /\ todo' = [todo EXCEPT ![Sensor] = << <<"ltr390_set_mode", 1 - sen.label>> >>]
             /\ sen' = [NewSen EXCEPT !.at = "thermo"]
    <3>1. sen'.at = "thermo"
      BY Zenon, <2>4, <2>7
    <3> DEFINE l == << <<"ltr390_set_mode", 1 - sen.label>> >>
    <3>2. l # <<>> /\ Len(l) = 1 /\ Head(l)[1] = "ltr390_set_mode"
      BY Zenon, <2>5
    <3>3. todo' = [todo EXCEPT ![Sensor] = l]
      BY Zenon, <2>7
    <3> HIDE DEF l
    <3>4. QED
      BY Zenon, <2>3, <3>1, <3>2, <3>3
  <2>8. CASE todo' = [todo EXCEPT ![Sensor] = << <<MeasureCall, thermo.mode>> >>] /\ sen' = [sen EXCEPT !.at = "reset"]
    <3>1. sen'.at = "reset"
      BY Zenon, <2>4, <2>8
    <3> DEFINE l == << <<MeasureCall, thermo.mode>> >>
    <3>2. l # <<>> /\ Len(l) = 1 /\ Head(l)[1] = MeasureCall
      BY Zenon, <2>5
    <3>3. todo' = [todo EXCEPT ![Sensor] = l]
      BY Zenon, <2>8
    <3> HIDE DEF l
    <3>4. QED
      BY Zenon, <2>3, <3>1, <3>2, <3>3
  <2>9. QED
    BY Zenon, <1>3, <2>2, <2>6, <2>7, <2>8, SensorKeeps
<1>4. CASE MqttTask
  <2>1. call' = call /\ sen' = sen /\ todo'[Sensor] = todo[Sensor]
    BY Zenon, <1>4, MqttKeeps, NewTodoEffect, TaskNames
  <2>2. QED
    BY Zenon, <2>1, SensorSame
<1>5. CASE BootFails \/ ConversionAborts
  <2>1. Restart
    BY Zenon, <1>5 DEF BootFails, ConversionAborts
  <2>2. QED
    BY Zenon, <2>1, RestartEffect DEF SensorInv
<1>6. CASE ChipMeasures
  BY Zenon, <1>6, SensorSame DEF ChipMeasures, bus
<1>7. QED
  BY Zenon, <1>1, <1>2, <1>3, <1>4, <1>5, <1>6 DEF Next, Driver, DriverStep

LEMMA MqttSame ==
  ASSUME MqttInv, call'[Mqtt] = call[Mqtt], todo'[Mqtt] = todo[Mqtt], commands' = commands
  PROVE  MqttInv'
BY Zenon DEF MqttInv

LEMMA MqttTail ==
  ASSUME TypeOK, MqttInv, todo[Mqtt] # <<>>
  PROVE  /\ Head(todo[Mqtt])[1] \in LtrSettingCalls \cup {"enabled", "mode"}
         /\ Head(todo[Mqtt])[1] = "mode" => Head(todo[Mqtt])[2] \in {High, Low, commands}
         /\ \A k \in DOMAIN Tail(todo[Mqtt]) :
              /\ Tail(todo[Mqtt])[k][1] \in LtrSettingCalls \cup {"enabled", "mode"}
              /\ Tail(todo[Mqtt])[k][1] = "mode" => Tail(todo[Mqtt])[k][2] \in {High, Low, commands}
<1>1. todo[Mqtt] \in Seq(Steps)
  BY Zenon, CallTyped, TaskNames
<1>2. /\ Head(todo[Mqtt]) = todo[Mqtt][1] /\ 1 \in DOMAIN todo[Mqtt]
      /\ \A k \in DOMAIN Tail(todo[Mqtt]) : k + 1 \in DOMAIN todo[Mqtt] /\ Tail(todo[Mqtt])[k] = todo[Mqtt][k + 1]
  BY <1>1, HeadAndTail
<1>3. QED
  BY Zenon, <1>2 DEF MqttInv

LEMMA MqttKept ==
  ASSUME TypeOK, ArgInv, BootInv, MqttInv, Next
  PROVE  MqttInv'
<1>1. ASSUME NEW t \in Tasks, t # Mqtt, DriverStep(t)
      PROVE  MqttInv'
  BY Zenon, <1>1, DriverKeeps, TaskNames, MqttSame DEF OthersKeep
<1>2. "none" \in LtrSettingCalls \cup {"none"} /\ "enabled" \notin DriverCalls /\ "mode" \notin DriverCalls
  BY Zenon, CallNames DEF LtrCalls
<1>3. CASE DriverStep(Mqtt)
  <2>1. commands' = commands
    BY Zenon, <1>3, DriverKeeps, TaskNames
  <2>2. CASE /\ ~InCall(Mqtt) /\ todo[Mqtt] # <<>> /\ todo'[Mqtt] = Tail(todo[Mqtt])
             /\ \/ call'[Mqtt].fn = Head(todo[Mqtt])[1] /\ Head(todo[Mqtt])[1] \in DriverCalls
                \/ call'[Mqtt].fn = "none"
    BY Zenon, <2>1, <2>2, <1>2, MqttTail DEF MqttInv
  <2>3. CASE /\ InCall(Mqtt) /\ todo'[Mqtt] = todo[Mqtt]
             /\ call'[Mqtt].fn = call[Mqtt].fn \/ call'[Mqtt].fn = "none"
    BY Zenon, <2>1, <2>3, <1>2 DEF MqttInv
  <2>4. QED
    BY Zenon, <2>2, <2>3, <1>3, OneTask, TaskNames
<1>4. CASE SensorTask
  <2>1. call' = call /\ commands' = commands /\ todo'[Mqtt] = todo[Mqtt]
    BY Zenon, <1>4, SensorKeeps, NewTodoEffect, TaskNames
  <2>2. QED
    BY Zenon, <2>1, MqttSame
<1>5. ASSUME NEW l, call' = call, todo' = [todo EXCEPT ![Mqtt] = l],
             \A k \in DOMAIN l : /\ l[k][1] \in LtrSettingCalls \cup {"enabled", "mode"}
                                 /\ l[k][1] = "mode" => l[k][2] \in {High, Low, commands'}
      PROVE  MqttInv'
  <2>1. todo'[Mqtt] = l
    BY Zenon, <1>5, NewTodoEffect, TaskNames
  <2>2. QED
    BY Zenon, <1>5, <2>1 DEF MqttInv
<1>6. ASSUME NEW e \in BOOLEAN, NEW m \in Modes, NEW g \in Gains, NEW r \in Rates, Ltr390SetOptions(e, m, g, r)
      PROVE  MqttInv'
  <2>1. call' = call /\ todo' = [todo EXCEPT ![Mqtt] = OptionCalls(e, m, g, r)]
    BY Zenon, <1>6 DEF Ltr390SetOptions, Accept, Calls, OptionCalls
  <2>2. "mode" \notin LtrSettingCalls
    BY Zenon, <1>2 DEF DriverCalls
  <2>3. \A k \in DOMAIN OptionCalls(e, m, g, r) : OptionCalls(e, m, g, r)[k][1] \in LtrSettingCalls
    BY Zenon, OptionCallsOK
  <2>4. \A k \in DOMAIN OptionCalls(e, m, g, r) :
          /\ OptionCalls(e, m, g, r)[k][1] \in LtrSettingCalls \cup {"enabled", "mode"}
          /\ OptionCalls(e, m, g, r)[k][1] = "mode" => OptionCalls(e, m, g, r)[k][2] \in {High, Low, commands'}
    BY Zenon, <2>2, <2>3
  <2>5. QED
    BY Zenon, <1>5, <2>1, <2>4
<1>7. ASSUME NEW e \in BOOLEAN, NEW m \in {High, Low, commands + 1}, ThermoSetOptions(e, m)
      PROVE  MqttInv'
  <2>1. call' = call /\ commands' = commands + 1
        /\ (todo' = [todo EXCEPT ![Mqtt] = Sht4xStores(e, m)] \/ todo' = [todo EXCEPT ![Mqtt] = Shtc3Stores(e)])
    BY Zenon, <1>7 DEF ThermoSetOptions, Accept, Calls
  <2>2. m \in Int /\ m \in {High, Low, commands'}
    BY Zenon, <2>1, NewModes
  <2> DEFINE Fits(s) == /\ s[1] \in LtrSettingCalls \cup {"enabled", "mode"}
                        /\ s[1] = "mode" => s[2] \in {High, Low, commands'}
  <2>3. Fits(<<"enabled", e>>) /\ Fits(<<"mode", m>>)
    BY Zenon, <2>2, PairParts
  <2> HIDE DEF Fits
  <2>4. /\ \A k \in DOMAIN Sht4xStores(e, m) : Fits(Sht4xStores(e, m)[k])
        /\ \A k \in DOMAIN Shtc3Stores(e) : Fits(Shtc3Stores(e)[k])
    BY Zenon, <2>2, <2>3, StoreListsOK
  <2>5. \A l : (\A k \in DOMAIN l : Fits(l[k])) /\ todo' = [todo EXCEPT ![Mqtt] = l] => MqttInv'
    BY Zenon, <1>5, <2>1 DEF Fits
  <2>6. QED
    BY Zenon, <2>1, <2>4, <2>5
<1>8. CASE ThermoStore
  <2>1. /\ call' = call /\ commands' = commands /\ todo[Mqtt] # <<>>
        /\ todo' = [todo EXCEPT ![Mqtt] = Tail(todo[Mqtt])]
    BY Zenon, <1>8 DEF ThermoStore, Calls
  <2>2. QED
    BY Zenon, <1>5, <2>1, MqttTail
<1>9. CASE BootFails \/ ConversionAborts
  <2>1. Restart
    BY Zenon, <1>9 DEF BootFails, ConversionAborts
  <2>2. \A k \in DOMAIN <<>> : FALSE
    OBVIOUS
  <2>3. QED
    BY Zenon, <2>1, <2>2, <1>2, RestartEffect, TaskNames DEF MqttInv
<1>10. CASE ChipMeasures
  BY Zenon, <1>10, MqttSame DEF ChipMeasures, bus
<1>11. QED
  BY Zenon, <1>1, <1>3, <1>4, <1>6, <1>7, <1>8, <1>9, <1>10 DEF Next, Driver, DriverStep, MqttTask

--------------------------------------------------------------------------------
(* Every reachable state *)

LEMMA BaseInit ==
  ASSUME Init
  PROVE  BaseInv
<1>1. /\ st = NewSt /\ thermo = NewThermo /\ sen = NewSen
      /\ mutex = NewMutex /\ call = NewCall /\ todo = NewTodo
      /\ chip = NewChip /\ awake = TRUE
      /\ commands = 0 /\ errors = 0 /\ wrong = 0 /\ heated = <<>>
  BY Zenon DEF Init
<1>2. /\ call = [t \in Tasks |-> NoCall("ok")] /\ mutex = [d \in Devices |-> Nobody]
      /\ todo = [t \in Tasks |-> IF t = Main THEN BootCalls ELSE <<>>]
  BY Zenon, <1>1 DEF NewCall, NewMutex, NewTodo
<1>3. NoCall("ok") \in CallRec /\ NoCall("ok").fn = "none"
  BY Zenon, NoCallTyped
<1>4. /\ \A t \in Tasks : call[t].fn = "none" /\ ~InCall(t)
      /\ todo[Main] = BootCalls /\ todo[Sensor] = <<>> /\ todo[Mqtt] = <<>>
      /\ Idle(Sensor) /\ Idle(Mqtt)
  BY Zenon, <1>2, <1>3, TaskNames DEF InCall, Idle
<1>5. /\ mutex \in [Devices -> Tasks \cup {Nobody}] /\ call \in [Tasks -> CallRec]
      /\ todo \in [Tasks -> Seq(Steps)]
  BY Zenon, <1>2, <1>3, BootListOK DEF ListOK
<1>6. DataOK
  <2>1. NewThermo \in ThermoRec
    BY Zenon DEF NewThermo, ThermoRec
  <2>2. NewChip \in ChipRec
    BY Zenon DEF NewChip, ChipRec, NoCtrl, CtrlReg, Modes, GainReg, RateReg
  <2>3. Counts
    BY <1>1, SensorsAssumption DEF Counts
  <2>4. heated \in Seq(1 .. MaxEvents)
    BY <1>1
  <2>5. QED
    BY Zenon, <1>1, <2>1, <2>2, <2>3, <2>4, NewData DEF DataOK
<1>7. TypeOK
  BY Zenon, <1>5, <1>6 DEF TypeOK, DataOK, StRec, ThermoRec, SenRec, ChipRec, Counts, CallRec
<1>8. PlaceInv /\ HolderInv /\ MutexesGivenBack
  BY Zenon, <1>2, <1>4 DEF PlaceInv, HolderInv, MutexesGivenBack
<1>9. ArgInv
  <2>1. \A n : ArgOK("none", n)
    BY Zenon DEF ArgOK
  <2>2. QED
    BY Zenon, <2>1, <1>4, TaskNames, BootListOK DEF ArgInv, ListOK
<1>10. BootInv /\ SensorInv
  BY Zenon, <1>1, <1>4, TaskNames DEF BootInv, SensorInv
<1>11. MqttInv
  <2>1. \A k \in DOMAIN <<>> : FALSE
    OBVIOUS
  <2>2. QED
    BY Zenon, <2>1, <1>4, TaskNames DEF MqttInv
<1>12. QED
  BY Zenon, <1>7, <1>8, <1>9, <1>10, <1>11 DEF BaseInv

LEMMA BaseKept ==
  ASSUME BaseInv, [Next]_vars
  PROVE  BaseInv'
<1>1. CASE Next
  <2>1. TypeOK' /\ ArgInv'
    BY Zenon, <1>1, TypeKept DEF BaseInv
  <2>2. PlaceInv' /\ HolderInv' /\ MutexesGivenBack'
    BY Zenon, <1>1, BusSteps, LocksKept DEF BaseInv, LocksInv
  <2>3. BootInv' /\ SensorInv' /\ MqttInv'
    BY Zenon, <1>1, BootKept, SensorKept, MqttKept DEF BaseInv
  <2>4. QED
    BY Zenon, <2>1, <2>2, <2>3 DEF BaseInv
<1>2. CASE UNCHANGED vars
  <2>1. /\ mutex' = mutex /\ call' = call /\ todo' = todo /\ st' = st /\ thermo' = thermo /\ sen' = sen
        /\ chip' = chip /\ awake' = awake /\ commands' = commands /\ errors' = errors /\ wrong' = wrong
        /\ heated' = heated
    BY Zenon, <1>2 DEF vars, bus, ram, chips, history
  <2>2. TypeOK'
    BY Zenon, <2>1 DEF BaseInv, TypeOK
  <2>3. PlaceInv' /\ ArgInv'
    BY Zenon, <2>1 DEF BaseInv, PlaceInv, ArgInv, InCall
  <2>4. HolderInv' /\ MutexesGivenBack'
    BY Zenon, <2>1 DEF BaseInv, HolderInv, MutexesGivenBack, InCall
  <2>5. BootInv'
    BY Zenon, <2>1 DEF BaseInv, BootInv, Started, Idle, InCall
  <2>6. SensorInv' /\ MqttInv'
    BY Zenon, <2>1, SensorSame, MqttSame DEF BaseInv
  <2>7. QED
    BY Zenon, <2>2, <2>3, <2>4, <2>5, <2>6 DEF BaseInv
<1>3. QED
  BY Zenon, <1>1, <1>2

LEMMA BaseAlways == Spec => []BaseInv
<1>1. Init => BaseInv
  BY Zenon, BaseInit
<1>2. BaseInv /\ [Next]_vars => BaseInv'
  BY Zenon, BaseKept
<1>3. QED
  BY <1>1, <1>2, PTL DEF Spec

(* Every variable keeps its type: no call, register or option of the sensors takes a value of another kind. *)
THEOREM TypeCorrect == Spec => []TypeOK
<1>1. BaseInv => TypeOK
  BY Zenon DEF BaseInv
<1>2. QED
  BY <1>1, BaseAlways, PTL

(* Each path through a driver function, whichever transfers fail, gives the mutex  *)
(* it took: I2C_DEV_TAKE_MUTEX, I2C_DEV_CHECK and I2C_DEV_GIVE_MUTEX of i2cdev.h.  *)
THEOREM NoMutexKept == Spec => []MutexesGivenBack
<1>1. BaseInv => MutexesGivenBack
  BY Zenon DEF BaseInv
<1>2. QED
  BY <1>1, BaseAlways, PTL

--------------------------------------------------------------------------------
(* The heater *)

(* The job of the sensor task goes on, or ends. *)
LEMMA SensorJob ==
  ASSUME TypeOK, ArgInv, SensorInv, DriverStep(Sensor)
  PROVE  /\ todo'[Sensor] = <<>>
         /\ \/ /\ ~InCall(Sensor) /\ InCall(Sensor)' /\ call'[Sensor].at = 1 /\ Takes(Sensor)
               /\ JobFn(Sensor)' = JobFn(Sensor) /\ JobArg(Sensor)' = JobArg(Sensor)
            \/ /\ InCall(Sensor) /\ InCall(Sensor)' /\ call'[Sensor].at = call[Sensor].at + 1
               /\ JobFn(Sensor) = call[Sensor].fn /\ JobArg(Sensor) = call[Sensor].arg
               /\ JobFn(Sensor)' = JobFn(Sensor) /\ JobArg(Sensor)' = JobArg(Sensor)
               /\ (Advances(Sensor) \/ Gives(Sensor))
            \/ /\ InCall(Sensor) /\ JobFn(Sensor)' = "none" /\ Idle(Sensor)' /\ (Ends(Sensor) \/ Finishes(Sensor))
            \/ /\ ~InCall(Sensor) /\ JobFn(Sensor)' = "none" /\ Idle(Sensor)' /\ TimesOut(Sensor)
<1>1. "none" \notin DriverCalls
  BY Zenon, CallNames DEF LtrCalls
<1>2. CASE /\ ~InCall(Sensor) /\ todo[Sensor] # <<>> /\ todo'[Sensor] = Tail(todo[Sensor])
           /\ \/ call'[Sensor].fn = Head(todo[Sensor])[1] /\ call'[Sensor].arg = Head(todo[Sensor])[2]
                 /\ call'[Sensor].at = 1 /\ Head(todo[Sensor])[1] \in DriverCalls /\ Takes(Sensor)
              \/ call'[Sensor].fn = "none" /\ TimesOut(Sensor)
  <2>1. Tail(todo[Sensor]) = <<>>
    <3>1. todo[Sensor] \in Seq(Steps) /\ Len(todo[Sensor]) = 1
      BY Zenon, <1>2, CallTyped, TaskNames DEF SensorInv
    <3>2. QED
      BY Zenon, <3>1, TailOfOne
  <2>2. QED
    BY Zenon, <1>1, <1>2, <2>1 DEF JobFn, JobArg, InCall, Idle
<1>3. CASE /\ InCall(Sensor) /\ todo'[Sensor] = todo[Sensor]
           /\ \/ call'[Sensor].fn = call[Sensor].fn /\ call'[Sensor].arg = call[Sensor].arg
                 /\ call'[Sensor].at = call[Sensor].at + 1 /\ (Advances(Sensor) \/ Gives(Sensor))
              \/ call'[Sensor].fn = "none" /\ (Ends(Sensor) \/ Finishes(Sensor))
  <2>1. todo[Sensor] = <<>> /\ todo'[Sensor] = <<>>
    BY Zenon, <1>3 DEF SensorInv
  <2>2. /\ JobFn(Sensor) = call[Sensor].fn /\ JobArg(Sensor) = call[Sensor].arg
        /\ JobFn(Sensor)' = call'[Sensor].fn /\ JobArg(Sensor)' = call'[Sensor].arg
    BY Zenon, <2>1 DEF JobFn, JobArg
  <2>3. CASE call'[Sensor].fn = call[Sensor].fn
    <3>1. call[Sensor].fn # "none" /\ InCall(Sensor)'
      BY Zenon, <1>3, <2>3 DEF InCall
    <3>2. QED
      BY Zenon, <1>3, <2>1, <2>2, <2>3, <3>1
  <2>4. CASE call'[Sensor].fn = "none" /\ (Ends(Sensor) \/ Finishes(Sensor))
    BY Zenon, <1>3, <2>1, <2>2, <2>4 DEF InCall, Idle
  <2>5. QED
    BY Zenon, <1>3, <2>3, <2>4
<1>4. QED
  BY Zenon, <1>2, <1>3, OneTask, TaskNames

(* The mode is the last that a handler of the commands stores. *)
LEMMA ModeLastKept ==
  ASSUME TypeOK, ArgInv, BootInv, MqttInv, ModeLast, Next
  PROVE  ModeLast'
<1>1. todo[Mqtt] \in Seq(Steps)
  BY Zenon, CallTyped, TaskNames
<1>2. todo'[Mqtt] = todo[Mqtt] => ModeLast'
  BY Zenon DEF ModeLast
<1>3. ASSUME todo[Mqtt] # <<>>, todo'[Mqtt] = Tail(todo[Mqtt]) PROVE ModeLast'
  <2>1. /\ \A k \in DOMAIN Tail(todo[Mqtt]) : k + 1 \in DOMAIN todo[Mqtt] /\ Tail(todo[Mqtt])[k] = todo[Mqtt][k + 1]
        /\ Len(Tail(todo[Mqtt])) = Len(todo[Mqtt]) - 1
    BY <1>1, <1>3, HeadAndTail, HeadTailProperties
  <2>2. \A k \in DOMAIN Tail(todo[Mqtt]) : k + 1 = Len(todo[Mqtt]) => k = Len(Tail(todo[Mqtt]))
    BY <1>1, <1>3, <2>1
  <2>3. QED
    BY Zenon, <1>3, <2>1, <2>2 DEF ModeLast
<1>4. ASSUME NEW l, todo' = [todo EXCEPT ![Mqtt] = l], \A k \in DOMAIN l : l[k][1] = "mode" => k = Len(l)
      PROVE ModeLast'
  BY Zenon, <1>4, NewTodoEffect, TaskNames DEF ModeLast
<1>5. ASSUME NEW t \in Tasks, t # Mqtt, DriverStep(t)
      PROVE  ModeLast'
  BY Zenon, <1>2, <1>5, DriverKeeps, TaskNames DEF OthersKeep
<1>6. CASE DriverStep(Mqtt)
  BY Zenon, <1>2, <1>3, <1>6, OneTask, TaskNames
<1>7. CASE SensorTask
  BY Zenon, <1>2, <1>7, SensorKeeps, NewTodoEffect, TaskNames
<1>8. ASSUME NEW e \in BOOLEAN, NEW m \in Modes, NEW g \in Gains, NEW r \in Rates, Ltr390SetOptions(e, m, g, r)
      PROVE  ModeLast'
  <2>1. todo' = [todo EXCEPT ![Mqtt] = OptionCalls(e, m, g, r)]
    BY Zenon, <1>8 DEF Ltr390SetOptions, Accept, Calls, OptionCalls
  <2>2. "mode" \notin LtrSettingCalls
    BY Zenon, CallNames DEF LtrCalls
  <2>3. \A k \in DOMAIN OptionCalls(e, m, g, r) : OptionCalls(e, m, g, r)[k][1] # "mode"
    BY Zenon, <2>2, OptionCallsOK
  <2>4. QED
    BY Zenon, <1>4, <2>1, <2>3
<1>9. ASSUME NEW e \in BOOLEAN, NEW m \in {High, Low, commands + 1}, ThermoSetOptions(e, m)
      PROVE  ModeLast'
  <2>1. todo' = [todo EXCEPT ![Mqtt] = Sht4xStores(e, m)] \/ todo' = [todo EXCEPT ![Mqtt] = Shtc3Stores(e)]
    BY Zenon, <1>9 DEF ThermoSetOptions, Accept, Calls
  <2>2. \A a, b : Len(<<a, b>>) = 2 /\ (\A k \in DOMAIN <<a, b>> : k # 2 => <<a, b>>[k] = a)
    OBVIOUS
  <2>3. <<"enabled", e>>[1] # "mode"
    BY Zenon, PairParts
  <2>4. \A k \in DOMAIN Sht4xStores(e, m) : Sht4xStores(e, m)[k][1] = "mode" => k = Len(Sht4xStores(e, m))
    BY Zenon, <2>2, <2>3 DEF Sht4xStores
  <2>5. \A k \in DOMAIN Shtc3Stores(e) : Shtc3Stores(e)[k][1] = "mode" => k = Len(Shtc3Stores(e))
    <3>1. m \in Int
      BY Zenon, NewModes
    <3>2. QED
      BY Zenon, <2>3, <3>1, StoreListsOK
  <2>6. QED
    BY Zenon, <1>4, <2>1, <2>4, <2>5
<1>10. CASE ThermoStore
  <2>1. todo[Mqtt] # <<>> /\ todo' = [todo EXCEPT ![Mqtt] = Tail(todo[Mqtt])]
    BY Zenon, <1>10 DEF ThermoStore, Calls
  <2>2. QED
    BY Zenon, <1>3, <2>1, NewTodoEffect, TaskNames
<1>11. CASE BootFails \/ ConversionAborts
  <2>1. Restart
    BY Zenon, <1>11 DEF BootFails, ConversionAborts
  <2>2. \A k \in DOMAIN <<>> : FALSE
    OBVIOUS
  <2>3. QED
    BY Zenon, <2>1, <2>2, RestartEffect DEF ModeLast
<1>12. CASE ChipMeasures
  BY Zenon, <1>2, <1>12 DEF ChipMeasures, bus
<1>13. QED
  BY Zenon, <1>5, <1>6, <1>7, <1>8, <1>9, <1>10, <1>11, <1>12 DEF Next, Driver, DriverStep, MqttTask

(* A step that neither heats nor accepts a command *)
LEMMA HeatFrame ==
  ASSUME TypeOK, HeatInv, heated' = heated, commands' = commands,
         thermo'.mode = thermo.mode \/ thermo'.mode = High,
         Heater(thermo'.mode) /\ sen'.at \notin {"reset", "heater"} =>
           sen.at \notin {"reset", "heater"} \/ heated = <<>>,
         ToMeasure' => \/ ToMeasure /\ JobArg(Sensor)' = JobArg(Sensor)
                       \/ JobArg(Sensor)' = thermo.mode /\ sen.at \notin {"reset", "heater"},
         Stored(commands)' => Stored(commands)
  PROVE  HeatInv'
<1>1. commands \in Nat /\ ~Heater(High) /\ High <= commands /\ (commands > 0 => High # commands)
  BY DEF TypeOK, High, Heater
<1>2. \A h : Used(h)' <=> Used(h)
  BY Zenon DEF Used
<1>3. heated = <<>> => \A h : ~Used(h)
  <2>1. \A k \in DOMAIN <<>> : FALSE
    OBVIOUS
  <2>2. QED
    BY Zenon, <2>1 DEF Used
<1>4. HeatsOncePerCommand' /\ (\A i \in DOMAIN heated : heated[i] <= commands)'
      /\ (Thermometer = "sht4x" \/ heated = <<>>)'
  BY Zenon DEF HeatInv, HeatsOncePerCommand
<1>5. (thermo.mode <= commands)' /\ (Heater(thermo.mode) /\ sen.at \notin {"reset", "heater"} => ~Used(thermo.mode))'
  BY Zenon, <1>1, <1>2, <1>3 DEF HeatInv
<1>6. ToMeasure' => /\ (JobArg(Sensor) <= commands)'
                    /\ Heater(JobArg(Sensor))' => ~Used(JobArg(Sensor))'
  BY Zenon, <1>2 DEF HeatInv
<1>7. (Stored(commands) /\ commands > 0)' =>
        /\ ~Used(commands)' /\ (thermo.mode # commands)'
        /\ ToMeasure' => (JobArg(Sensor) # commands)'
  BY Zenon, <1>1, <1>2 DEF HeatInv
<1>8. QED
  BY Zenon, <1>4, <1>5, <1>6, <1>7 DEF HeatInv

(* Only a measurement of the SHT4X heats, at its first transfer. *)
LEMMA Heats ==
  ASSUME TypeOK, ArgInv, NEW t \in Tasks, DriverStep(t)
  PROVE  \/ heated' = heated
         \/ /\ InCall(t) /\ call[t].fn = "sht4x_measure" /\ call[t].at = 1 /\ Heater(call[t].arg)
            /\ heated' = Append(heated, call[t].arg)
<1>1. CASE TakeMutex(t) \/ GiveMutex(t) \/ Finish(t)
  BY Zenon, <1>1 DEF TakeMutex, GiveMutex, Finish, history
<1>2. CASE Read(t) \/ ReadIgnored(t)
  BY Zenon, <1>2, ReadEffect, ReadIgnoredEffect
<1>3. CASE Write(t)
  <2>1. Transferring(t) /\ Transfer(t)[1] = "write" /\ Written(t)
    BY Zenon, <1>3 DEF Write
  <2>2. QED
    BY Zenon, <2>1, WriteEffect DEF Transferring
<1>4. CASE TransferFails(t) \/ WriteIgnored(t)
  <2>1. Transferring(t) /\ Fails(t)
    BY Zenon, <1>4 DEF TransferFails, WriteIgnored
  <2>2. QED
    BY Zenon, <2>1, FailsEffect DEF Transferring
<1>5. QED
  BY Zenon, <1>1, <1>2, <1>3, <1>4 DEF DriverStep

(* The modes that the handler of a command is still to store, after one store or call *)
LEMMA StoredBefore ==
  ASSUME TypeOK, todo[Mqtt] # <<>>, todo'[Mqtt] = Tail(todo[Mqtt]), NEW h, Stored(h)'
  PROVE  Stored(h)
<1>1. todo[Mqtt] \in Seq(Steps)
  BY Zenon, CallTyped, TaskNames
<1>2. \A k \in DOMAIN Tail(todo[Mqtt]) : k + 1 \in DOMAIN todo[Mqtt] /\ Tail(todo[Mqtt])[k] = todo[Mqtt][k + 1]
  BY <1>1, HeadAndTail
<1>3. QED
  BY Zenon, <1>2 DEF Stored

LEMMA HeatDriver ==
  ASSUME TypeOK, PlaceInv, ArgInv, BootInv, SensorInv, MqttInv, HeatInv, NEW t \in Tasks, DriverStep(t)
  PROVE  HeatInv'
<1>1. /\ sen'.at = sen.at /\ commands' = commands /\ thermo' = thermo /\ OthersKeep(t)
  BY Zenon, DriverKeeps
<1>2. \A h : Stored(h)' => Stored(h)
  <2>1. CASE t = Mqtt
    <3>1. todo'[Mqtt] = todo[Mqtt] \/ (todo[Mqtt] # <<>> /\ todo'[Mqtt] = Tail(todo[Mqtt]))
      BY Zenon, <2>1, OneTask
    <3>2. QED
      BY Zenon, <3>1, StoredBefore DEF Stored
  <2>2. CASE t # Mqtt
    BY Zenon, <2>2, <1>1, TaskNames DEF OthersKeep, Stored
  <2>3. QED
    BY Zenon, <2>1, <2>2
<1>3. t = Sensor /\ ToMeasure' => ToMeasure /\ ~InCall(Sensor) /\ JobArg(Sensor)' = JobArg(Sensor)
  <2>1. SUFFICES ASSUME t = Sensor, ToMeasure'
                 PROVE  ToMeasure /\ ~InCall(Sensor) /\ JobArg(Sensor)' = JobArg(Sensor)
    OBVIOUS
  <2>2. InCall(Sensor) => call[Sensor].at \in Nat /\ call[Sensor].at + 1 # 1
    <3>1. InCall(Sensor) => call[Sensor].at \in 1 .. Len(Transfers[call[Sensor].fn]) + 2
      BY Zenon, TaskNames DEF PlaceInv
    <3>2. call[Sensor].at \in Nat
      BY Zenon, CallTyped, TaskNames
    <3>3. QED
      BY <3>1, <3>2
  <2>3. JobFn(Sensor)' = "sht4x_measure" /\ (InCall(Sensor)' => call'[Sensor].at = 1)
    BY Zenon, <2>1 DEF ToMeasure
  <2>4. "none" # "sht4x_measure"
    OBVIOUS
  <2>5. QED
    BY Zenon, <2>1, <2>2, <2>3, <2>4, SensorJob DEF ToMeasure
<1>4. t # Sensor => (ToMeasure' => ToMeasure /\ JobArg(Sensor)' = JobArg(Sensor))
  BY Zenon, <1>1, TaskNames DEF OthersKeep, ToMeasure, JobFn, JobArg, InCall
<1>5. CASE heated' = heated
  BY Zenon, <1>1, <1>2, <1>3, <1>4, <1>5, HeatFrame
<1>6. CASE /\ InCall(t) /\ call[t].fn = "sht4x_measure" /\ call[t].at = 1 /\ Heater(call[t].arg)
           /\ heated' = Append(heated, call[t].arg)
  <2>1. t = Sensor
    <3>1. "sht4x_measure" \notin LtrSettingCalls /\ ThermoInitCall # "sht4x_measure"
      BY Zenon, CallNames DEF LtrCalls, ThermoInitCall
    <3>2. call[Mqtt].fn # "sht4x_measure"
      BY Zenon, <3>1 DEF MqttInv
    <3>3. call[Main].fn # "sht4x_measure"
      BY Zenon, <3>1, <1>6 DEF BootInv, InCall
    <3>4. QED
      BY Zenon, <3>2, <3>3, <1>6, TaskNames
  <2>2. JobFn(Sensor) = "sht4x_measure" /\ JobArg(Sensor) = call[Sensor].arg /\ ToMeasure
    BY Zenon, <2>1, <1>6 DEF JobFn, JobArg, ToMeasure
  <2>3. ~ToMeasure'
    BY Zenon, <2>1, <1>3, <1>6
  <2>4. sen.at = "reset" /\ MeasureCall = "sht4x_measure"
    BY Zenon, <2>1, <2>2, <1>6 DEF SensorInv, Idle
  <2>5. Thermometer = "sht4x"
    BY Zenon, <2>4 DEF MeasureCall
  <2> DEFINE a == call[Sensor].arg
  <2>6. a \in Nat /\ a <= commands /\ ~Used(a) /\ commands \in Nat /\ heated \in Seq(Nat)
    <3>1. a <= commands /\ ~Used(a)
      BY Zenon, <2>1, <2>2, <1>6 DEF HeatInv
    <3>2. a \in 1 .. MaxEvents
      BY Zenon, <2>1, <1>6, HeatedTyped
    <3>3. commands \in Nat /\ heated \in Seq(1 .. MaxEvents)
      BY Zenon DEF TypeOK
    <3>4. QED
      BY <3>1, <3>2, <3>3, SensorsAssumption
  <2>7. heated' = Append(heated, a)
    BY Zenon, <2>1, <1>6
  <2> HIDE DEF a
  <2>8. /\ HeatsOncePerCommand'
        /\ \A i \in DOMAIN heated' : heated'[i] <= commands
        /\ \A h : Used(h)' => Used(h) \/ h = a
    <3>1. /\ DOMAIN heated' = DOMAIN heated \cup {Len(heated) + 1} /\ Len(heated) + 1 \notin DOMAIN heated
          /\ heated'[Len(heated) + 1] = a
          /\ \A i \in DOMAIN heated : heated'[i] = heated[i]
      BY <2>6, <2>7
    <3>2. \A h : Used(h)' => Used(h) \/ h = a
      BY Zenon, <3>1 DEF Used
    <3>3. \A i \in DOMAIN heated' : heated'[i] <= commands
      BY Zenon, <3>1, <2>6 DEF HeatInv
    <3>4. HeatsOncePerCommand'
      BY Zenon, <3>1, <2>6 DEF HeatInv, HeatsOncePerCommand, Used
    <3>5. QED
      BY Zenon, <3>2, <3>3, <3>4
  <2>9. thermo'.mode <= commands /\ sen'.at = "reset"
    BY Zenon, <1>1, <2>4 DEF HeatInv
  <2>10. Stored(commands)' /\ commands > 0 =>
           ~Used(commands)' /\ thermo'.mode # commands
    <3>1. a = JobArg(Sensor)
      BY Zenon, <2>2 DEF a
    <3>2. QED
      BY Zenon, <1>1, <1>2, <2>2, <2>8, <3>1 DEF HeatInv
  <2>11. QED
    BY Zenon, <1>1, <2>3, <2>5, <2>8, <2>9, <2>10 DEF HeatInv
<1>7. QED
  BY Zenon, <1>5, <1>6, Heats

LEMMA HeatSensor ==
  ASSUME TypeOK, SensorInv, HeatInv, SensorTask
  PROVE  HeatInv'
<1>1. /\ Idle(Sensor) /\ call' = call /\ commands' = commands /\ heated' = heated
  BY Zenon, SensorKeeps
<1>2. ~ToMeasure /\ (todo' = todo => ~ToMeasure')
  BY Zenon, <1>1 DEF ToMeasure, JobFn, Idle, InCall
<1>3. \A l : todo' = [todo EXCEPT ![Sensor] = l] => (\A h : Stored(h)' => Stored(h))
  BY Zenon, NewTodoEffect, TaskNames DEF Stored
<1>4. todo' = todo => (\A h : Stored(h)' => Stored(h))
  BY Zenon DEF Stored
<1>5. \A p : /\ [sen EXCEPT !.at = p].at = p /\ [NewSen EXCEPT !.at = p].at = p
  <2>1. sen \in SenRec /\ NewSen \in SenRec
    BY Zenon, NewData DEF TypeOK, SenRec
  <2>2. QED
    BY Zenon, <2>1 DEF SenRec
<1>6. ASSUME NEW fn, NEW n, todo' = [todo EXCEPT ![Sensor] = << <<fn, n>> >>]
      PROVE  JobFn(Sensor)' = fn /\ JobArg(Sensor)' = n
  <2>1. todo'[Sensor] = << <<fn, n>> >>
    BY Zenon, <1>6, NewTodoEffect, TaskNames
  <2>2. << <<fn, n>> >> # <<>> /\ Head(<< <<fn, n>> >>) = <<fn, n>>
    BY Zenon, OneStepList
  <2>3. ~InCall(Sensor)'
    BY Zenon, <1>1 DEF Idle, InCall
  <2>4. todo'[Sensor] # <<>> /\ Head(todo'[Sensor]) = <<fn, n>>
    BY Zenon, <2>1, <2>2
  <2>5. Head(todo'[Sensor])[1] = fn /\ Head(todo'[Sensor])[2] = n
    <3>1. <<fn, n>>[1] = fn /\ <<fn, n>>[2] = n
      BY Zenon, PairParts
    <3>2. QED
      BY Zenon, <2>4, <3>1
  <2>6. JobFn(Sensor)' = Head(todo'[Sensor])[1] /\ JobArg(Sensor)' = Head(todo'[Sensor])[2]
    BY Zenon, <2>3, <2>4 DEF JobFn, JobArg
  <2>7. QED
    BY Zenon, <2>5, <2>6
<1>7. CASE LtrLabel \/ LtrSelect \/ LtrNoReading \/ ThermoEnabled
  <2>1. todo' = todo /\ thermo' = thermo /\ sen.at \notin {"reset", "heater"}
    BY Zenon, <1>7 DEF LtrLabel, LtrSelect, LtrNoReading, ThermoEnabled, SensorAt, bus, ram
  <2>2. QED
    BY Zenon, <1>1, <1>2, <1>4, <2>1, HeatFrame
<1>8. CASE LtrRead \/ LtrReading
  <2>1. /\ thermo' = thermo /\ sen.at \notin {"reset", "heater"}
        /\ \/ todo' = todo
           \/ todo' = [todo EXCEPT ![Sensor] = << <<"ltr390_read", 0>> >>]
           \/ todo' = [todo EXCEPT ![Sensor] = << <<"ltr390_set_mode", 1 - sen.label>> >>]
    BY Zenon, <1>8 DEF LtrRead, LtrReading, SensorAt, Calls, ram
  <2>2. JobFn(Sensor)' \in {"ltr390_read", "ltr390_set_mode"} => ~ToMeasure'
    BY Zenon DEF ToMeasure
  <2>3. ~ToMeasure'
    BY Zenon, <1>2, <1>6, <2>1, <2>2
  <2>4. \A h : Stored(h)' => Stored(h)
    BY Zenon, <1>3, <1>4, <2>1
  <2>5. QED
    BY Zenon, <1>1, <2>1, <2>3, <2>4, HeatFrame
<1>9. CASE ThermoMeasure
  <2>1. /\ thermo' = thermo /\ sen.at = "mode"
        /\ \/ todo' = todo
           \/ todo' = [todo EXCEPT ![Sensor] = << <<MeasureCall, thermo.mode>> >>]
    BY Zenon, <1>9 DEF ThermoMeasure, SensorAt, Calls, ram
  <2>2. sen.at \notin {"reset", "heater"}
    BY Zenon, <2>1
  <2>3. ToMeasure' => JobArg(Sensor)' = thermo.mode
    BY Zenon, <1>2, <1>6, <2>1
  <2>4. \A h : Stored(h)' => Stored(h)
    BY Zenon, <1>3, <1>4, <2>1
  <2>5. QED
    BY Zenon, <1>1, <2>1, <2>2, <2>3, <2>4, HeatFrame
<1>10. CASE ThermoSwitch
  <2>1. todo' = todo /\ thermo' = thermo
    BY Zenon, <1>10 DEF ThermoSwitch, bus, ram
  <2>2. ResetSeesHeater => sen'.at = "heater"
    BY Zenon, <1>5, <1>10 DEF ThermoSwitch, Go
  <2>3. Heater(thermo'.mode) /\ sen'.at \notin {"reset", "heater"} => heated = <<>>
    BY Zenon, <2>1, <2>2 DEF ResetSeesHeater, HeatInv
  <2>4. QED
    BY Zenon, <1>1, <1>2, <1>4, <2>1, <2>3, HeatFrame
<1>11. CASE ThermoReset
  <2>1. todo' = todo /\ thermo' = [thermo EXCEPT !.mode = High]
    BY Zenon, <1>11 DEF ThermoReset, bus
  <2>2. thermo'.mode = High
    BY Zenon, <2>1 DEF TypeOK
  <2>3. ~Heater(High)
    BY DEF High, Heater
  <2>4. QED
    BY Zenon, <1>1, <1>2, <1>4, <2>1, <2>2, <2>3, HeatFrame
<1>12. QED
  BY Zenon, <1>7, <1>8, <1>9, <1>10, <1>11 DEF SensorTask

LEMMA HeatMqtt ==
  ASSUME TypeOK, ArgInv, BootInv, MqttInv, ModeLast, HeatInv, MqttTask
  PROVE  HeatInv'
<1>1. /\ call' = call /\ sen' = sen /\ heated' = heated
      /\ \E l : todo' = [todo EXCEPT ![Mqtt] = l]
  BY Zenon, MqttKeeps
<1>2. todo'[Sensor] = todo[Sensor]
  BY Zenon, <1>1, NewTodoEffect, TaskNames
<1>3. /\ JobArg(Sensor)' = JobArg(Sensor) /\ (ToMeasure' <=> ToMeasure)
      /\ \A h : Used(h)' <=> Used(h)
  BY Zenon, <1>1, <1>2 DEF ToMeasure, JobFn, JobArg, InCall, Used
<1>4. HeatsOncePerCommand' /\ (Thermometer = "sht4x" \/ heated' = <<>>)
  BY Zenon, <1>1 DEF HeatInv, HeatsOncePerCommand
<1>5. ASSUME commands' = commands + 1, thermo' = thermo
      PROVE  HeatInv'
  <2> DEFINE Old(n) == \E i \in DOMAIN heated : heated[i] = n
  <2>1. commands \in Nat /\ thermo.mode \in Int /\ heated \in Seq(Int)
    <3>1. commands \in Nat /\ heated \in Seq(1 .. MaxEvents) /\ thermo.mode \in Int
      BY Zenon, ThermoModes DEF TypeOK
    <3>2. QED
      BY <3>1, SensorsAssumption
  <2>2. ToMeasure => JobArg(Sensor) \in Int
    <3>1. todo[Sensor] # <<>> => (Head(todo[Sensor])[1] = "sht4x_measure" => Head(todo[Sensor])[2] \in Int)
      <4>1. "sht4x_measure" \in DriverCalls
        BY Zenon, CallNames
      <4>2. QED
        BY Zenon, <4>1, NextCall, TaskNames
    <3>2. call[Sensor].arg \in Int
      BY Zenon, CallTyped, TaskNames
    <3>3. QED
      BY Zenon, <3>1, <3>2 DEF ToMeasure, JobFn, JobArg
  <2>3. \A n \in Int : n <= commands => n <= commands' /\ n # commands'
    BY <2>1, <1>5
  <2>4. \A i \in DOMAIN heated : heated[i] <= commands /\ heated[i] \in Int
    <3>1. \A i \in DOMAIN heated : heated[i] \in Int
      BY <2>1
    <3>2. QED
      BY Zenon, <3>1 DEF HeatInv
  <2>5. (\A i \in DOMAIN heated : heated[i] <= commands)' /\ ~Used(commands')
    BY Zenon, <1>1, <2>3, <2>4 DEF Used
  <2>6. thermo'.mode <= commands' /\ thermo'.mode # commands'
    BY Zenon, <1>5, <2>1, <2>3 DEF HeatInv
  <2>7. (Heater(thermo.mode) /\ sen.at \notin {"reset", "heater"} => ~Used(thermo.mode))'
    BY Zenon, <1>1, <1>3, <1>5 DEF HeatInv
  <2>8. ToMeasure' => /\ JobArg(Sensor)' <= commands' /\ JobArg(Sensor)' # commands'
                      /\ (Heater(JobArg(Sensor)) => ~Used(JobArg(Sensor)))'
    BY Zenon, <1>3, <2>2, <2>3 DEF HeatInv
  <2>9. ~Used(commands)'
    BY Zenon, <1>1, <2>5 DEF Used
  <2>10. QED
    BY Zenon, <1>4, <2>5, <2>6, <2>7, <2>8, <2>9 DEF HeatInv
<1>6. CASE \E e \in BOOLEAN, m \in Modes, g \in Gains, r \in Rates : Ltr390SetOptions(e, m, g, r)
  BY Zenon, <1>5, <1>6 DEF Ltr390SetOptions, Accept, ram
<1>7. CASE \E e \in BOOLEAN, m \in {High, Low, commands + 1} : ThermoSetOptions(e, m)
  BY Zenon, <1>5, <1>7 DEF ThermoSetOptions, Accept, ram
<1>8. CASE ThermoStore
  <2>1. /\ todo[Mqtt] # <<>> /\ todo' = [todo EXCEPT ![Mqtt] = Tail(todo[Mqtt])] /\ commands' = commands
        /\ thermo' = [thermo EXCEPT ![Head(todo[Mqtt])[1]] = Head(todo[Mqtt])[2]]
        /\ Head(todo[Mqtt])[1] \in DOMAIN thermo
    BY Zenon, <1>8 DEF ThermoStore, Calls
  <2>2. todo'[Mqtt] = Tail(todo[Mqtt])
    BY Zenon, <2>1, NewTodoEffect, TaskNames
  <2>3. \A h : Stored(h)' => Stored(h)
    BY Zenon, <2>1, <2>2, StoredBefore
  <2>4. thermo \in ThermoRec
    BY Zenon DEF TypeOK, ThermoRec
  <2>5. CASE Head(todo[Mqtt])[1] = "enabled"
    <3>1. thermo'.mode = thermo.mode
      BY Zenon, <2>1, <2>4, <2>5 DEF ThermoRec
    <3>2. QED
      BY Zenon, <1>1, <1>3, <2>1, <2>3, <3>1, HeatFrame
  <2>6. CASE Head(todo[Mqtt])[1] = "mode"
    <3> DEFINE m == Head(todo[Mqtt])[2]
    <3>1. thermo'.mode = m
      BY Zenon, <2>1, <2>4, <2>6 DEF ThermoRec
    <3>2. m \in {High, Low, commands}
      BY Zenon, <2>1, <2>6, MqttTail
    <3>3. /\ 1 \in DOMAIN todo[Mqtt] /\ Head(todo[Mqtt]) = todo[Mqtt][1] /\ Head(todo[Mqtt]) \in Steps
          /\ todo[Mqtt] \in Seq(Steps)
      <4>1. todo[Mqtt] \in Seq(Steps)
        BY Zenon, CallTyped, TaskNames
      <4>2. QED
        BY Zenon, <4>1, <2>1, HeadAndTail
    <3>4. Tail(todo[Mqtt]) = <<>>
      <4>1. 1 = Len(todo[Mqtt])
        BY Zenon, <3>3, <2>6 DEF ModeLast
      <4>2. QED
        BY Zenon, <3>3, <4>1, TailOfOne
    <3>5. ~Stored(commands)'
      <4>1. \A k \in DOMAIN <<>> : FALSE
        OBVIOUS
      <4>2. QED
        BY Zenon, <2>2, <3>4, <4>1 DEF Stored
    <3>6. m = commands => Stored(commands)
      <4>1. Head(todo[Mqtt]) = <<"mode", m>>
        <5>1. Head(todo[Mqtt]) \in {"mode"} \X Int
          BY <3>3, <2>6, CallNames DEF Steps, LtrCalls
        <5>2. QED
          BY <5>1
      <4>2. QED
        BY Zenon, <3>3, <4>1 DEF Stored
    <3>7. commands \in Nat /\ High <= commands /\ Low <= commands /\ ~Heater(High) /\ ~Heater(Low)
          /\ (Heater(commands) => commands > 0) /\ commands <= commands
      BY DEF TypeOK, High, Low, Heater
    <3>8. m <= commands /\ (Heater(m) => ~Used(m))
      BY Zenon, <3>2, <3>6, <3>7 DEF HeatInv
    <3> HIDE DEF m
    <3>9. QED
      BY Zenon, <1>1, <1>3, <1>4, <2>1, <3>1, <3>5, <3>8 DEF HeatInv
  <2>7. QED
    BY Zenon, <2>1, <2>4, <2>5, <2>6 DEF ThermoRec
<1>9. QED
  BY Zenon, <1>6, <1>7, <1>8 DEF MqttTask

LEMMA HeatRestart ==
  ASSUME TypeOK, ArgInv, HeatInv, BootFails \/ ConversionAborts
  PROVE  HeatInv'
<1>1. Restart
  BY Zenon DEF BootFails, ConversionAborts
<1>2. heated' = heated
  <2>1. CASE BootFails
    <3>1. Transferring(Main) /\ Fails(Main) /\ call[Main].fn # "sht4x_measure"
      BY Zenon, <2>1 DEF BootFails
    <3>2. QED
      BY Zenon, <3>1, FailsEffect, TaskNames
  <2>2. CASE ConversionAborts
    BY Zenon, <2>2 DEF ConversionAborts
  <2>3. QED
    BY Zenon, <2>1, <2>2
<1>3. /\ thermo'.mode = High /\ commands' = commands /\ ~ToMeasure' /\ \A h : ~Stored(h)'
  <2>1. \A k \in DOMAIN <<>> : FALSE
    OBVIOUS
  <2>2. /\ thermo' = NewThermo /\ commands' = commands /\ todo'[Sensor] = <<>> /\ todo'[Mqtt] = <<>>
        /\ call'[Sensor].fn = "none"
    BY Zenon, <1>1, RestartEffect, TaskNames
  <2>3. ~ToMeasure'
    <3>1. JobFn(Sensor)' = "none"
      BY Zenon, <2>2 DEF JobFn
    <3>2. QED
      BY <3>1 DEF ToMeasure
  <2>4. \A h : ~Stored(h)'
    BY Zenon, <2>1, <2>2 DEF Stored
  <2>5. QED
    BY Zenon, <2>2, <2>3, <2>4 DEF NewThermo
<1>4. ~Heater(High)
  BY DEF High, Heater
<1>5. QED
  BY Zenon, <1>2, <1>3, <1>4, HeatFrame

LEMMA HeatKept ==
  ASSUME BaseInv, ModeLast, HeatInv, [Next]_vars
  PROVE  HeatInv'
<1>1. CASE DriverStep(Main) \/ DriverStep(Sensor) \/ DriverStep(Mqtt)
  BY Zenon, <1>1, HeatDriver, TaskNames DEF BaseInv
<1>2. CASE SensorTask
  BY Zenon, <1>2, HeatSensor DEF BaseInv
<1>3. CASE MqttTask
  BY Zenon, <1>3, HeatMqtt DEF BaseInv
<1>4. CASE BootFails \/ ConversionAborts
  BY Zenon, <1>4, HeatRestart DEF BaseInv
<1>5. ASSUME call' = call, todo' = todo, thermo' = thermo, sen' = sen, commands' = commands, heated' = heated
      PROVE  HeatInv'
  <2>1. /\ ToMeasure' => ToMeasure /\ JobArg(Sensor)' = JobArg(Sensor)
        /\ \A h : Stored(h)' => Stored(h)
    BY Zenon, <1>5 DEF ToMeasure, JobFn, JobArg, InCall, Stored
  <2>2. QED
    BY Zenon, <1>5, <2>1, HeatFrame DEF BaseInv
<1>6. CASE ChipMeasures
  BY Zenon, <1>5, <1>6 DEF ChipMeasures, bus, ram, history
<1>7. CASE UNCHANGED vars
  BY Zenon, <1>5, <1>7 DEF vars, bus, ram, history
<1>8. QED
  BY Zenon, <1>1, <1>2, <1>3, <1>4, <1>6, <1>7, TaskNames DEF Next, Driver, DriverStep

(* A command heats at most once: its mode is measured with once, taken back whatever *)
(* became of the measurement, and never stored again (sht4xmgr_measure and           *)
(* sht4xmgr_cmd_set_optionshandler).                                                 *)
THEOREM HeatsOnce == Spec => []HeatsOncePerCommand
<1>1. Init => ModeLast /\ HeatInv
  <2>1. SUFFICES ASSUME Init PROVE ModeLast /\ HeatInv
    OBVIOUS
  <2>2. heated = <<>> /\ commands = 0 /\ thermo.mode = High /\ todo[Mqtt] = <<>> /\ JobFn(Sensor) = "none"
    <3>1. /\ todo = [t \in Tasks |-> IF t = Main THEN BootCalls ELSE <<>>]
          /\ call = [t \in Tasks |-> NoCall("ok")] /\ heated = <<>> /\ commands = 0 /\ thermo.mode = High
      BY Zenon, <2>1 DEF Init, NewTodo, NewCall, NewThermo
    <3>2. todo[Mqtt] = <<>> /\ todo[Sensor] = <<>> /\ call[Sensor].fn = "none"
      BY Zenon, <3>1, TaskNames, NoCallTyped
    <3>3. QED
      BY Zenon, <3>1, <3>2 DEF JobFn
  <2>3. /\ \A k \in DOMAIN <<>> : FALSE
        /\ ~Heater(High) /\ High <= 0 /\ ~(0 > 0) /\ "none" # "sht4x_measure"
    BY DEF High, Heater
  <2>4. ModeLast /\ HeatsOncePerCommand
    BY Zenon, <2>2, <2>3 DEF ModeLast, HeatsOncePerCommand
  <2>5. ~ToMeasure
    BY Zenon, <2>2, <2>3 DEF ToMeasure
  <2>6. QED
    BY Zenon, <2>2, <2>3, <2>4, <2>5 DEF HeatInv
<1>2. BaseInv /\ ModeLast /\ HeatInv /\ [Next]_vars => ModeLast' /\ HeatInv'
  <2>1. SUFFICES ASSUME BaseInv, ModeLast, HeatInv, [Next]_vars PROVE ModeLast' /\ HeatInv'
    OBVIOUS
  <2>2. ModeLast'
    <3>1. CASE Next
      BY Zenon, <2>1, <3>1, ModeLastKept DEF BaseInv
    <3>2. CASE UNCHANGED vars
      BY Zenon, <2>1, <3>2 DEF vars, bus, ModeLast
    <3>3. QED
      BY Zenon, <2>1, <3>1, <3>2
  <2>3. QED
    BY Zenon, <2>1, <2>2, HeatKept
<1>3. HeatInv => HeatsOncePerCommand
  BY Zenon DEF HeatInv
<1>4. QED
  BY <1>1, <1>2, <1>3, BaseAlways, PTL DEF Spec

--------------------------------------------------------------------------------
(* The enable bit *)

LEMMA CtrlNames ==
  /\ CtrlCalls \subseteq StoringCalls /\ Enabling \subseteq CtrlCalls
  /\ "ltr390_set_mode" \in CtrlCalls /\ "ltr390_set_mode" \notin Enabling
  /\ \A fn \in CtrlCalls : /\ fn \in DriverCalls /\ Len(Transfers[fn]) = 2 /\ Device(fn) = "ltr390"
                           /\ fn # "none" /\ fn # "ltr390_init" /\ fn # "ltr390_read"
<1>1. \A fn \in CtrlCalls : fn \in DriverCalls /\ fn \notin ThermoCalls /\ fn \notin {"none", "ltr390_init", "ltr390_read"}
  BY Zenon, CallNames DEF LtrCalls, CtrlCalls
<1>2. \A fn \in CtrlCalls : Len(Transfers[fn]) = 2
  BY Zenon, <1>1, PlacesOf DEF Lengths
<1>3. QED
  BY Zenon, <1>1, <1>2 DEF CtrlCalls, StoringCalls, Enabling, Device

(* Who is inside a function that rewrites the register holds the mutex, so that *)
(* there is one.                                                                *)
LEMMA OneWriter ==
  ASSUME TypeOK, PlaceInv, HolderInv, NEW t \in Tasks, NEW u \in Tasks,
         call[t].fn \in CtrlCalls, call[t].at <= 3, call[u].fn \in CtrlCalls, call[u].at <= 3
  PROVE  t = u
<1>1. \A v \in Tasks : call[v].fn \in CtrlCalls /\ call[v].at <= 3 => mutex["ltr390"] = v
  <2>1. SUFFICES ASSUME NEW v \in Tasks, call[v].fn \in CtrlCalls, call[v].at <= 3
                 PROVE  mutex["ltr390"] = v
    OBVIOUS
  <2>2. InCall(v) /\ Len(Transfers[call[v].fn]) = 2 /\ Device(call[v].fn) = "ltr390"
    BY Zenon, <2>1, CtrlNames DEF InCall
  <2>3. call[v].at <= Len(Transfers[call[v].fn]) + 1
    BY <2>1, <2>2
  <2>4. QED
    BY Zenon, <2>2, <2>3 DEF HolderInv
<1>2. QED
  BY Zenon, <1>1

(* The LTR390 is switched by the boot, and by one handler at a time after it. *)
LEMMA OneSwitch ==
  ASSUME TypeOK, BootInv, SensorInv, MqttInv
  PROVE  /\ call[Sensor].fn \notin Enabling /\ call[Sensor].fn # "ltr390_init"
         /\ \A t, u \in Tasks : call[t].fn \in Enabling /\ call[u].fn \in Enabling => t = u
         /\ \A t, u \in Tasks : call[t].fn = "ltr390_init" /\ u # t =>
              t = Main /\ call[u].fn = "none" /\ ~SwitchedOn
<1>1. call[Sensor].fn \notin Enabling /\ call[Sensor].fn # "ltr390_init"
  <2>1. CASE ~InCall(Sensor)
    BY Zenon, <2>1, CtrlNames DEF InCall
  <2>2. CASE InCall(Sensor)
    <3>1. call[Sensor].fn \in {"ltr390_read", "ltr390_set_mode", MeasureCall}
      BY Zenon, <2>2 DEF SensorInv, JobFn, Idle
    <3>2. MeasureCall \notin Enabling /\ MeasureCall # "ltr390_init"
      BY DEF MeasureCall, Enabling
    <3>3. "ltr390_read" \notin Enabling /\ "ltr390_set_mode" \notin Enabling
      BY DEF Enabling
    <3>4. QED
      BY Zenon, <3>1, <3>2, <3>3
  <2>3. QED
    BY Zenon, <2>1, <2>2
<1>2. call[Main].fn # "none" => call[Mqtt].fn = "none" /\ call[Sensor].fn = "none"
  BY Zenon DEF BootInv, Started, Idle, InCall
<1>3. call[Main].fn = "ltr390_init" => ~SwitchedOn
  <2>1. AfterInit # <<>> /\ AfterInit # AfterEnable
    BY DEF AfterInit, AfterEnable
  <2>2. ThermoInitCall # "ltr390_init" /\ "ltr390_enable" # "ltr390_init" /\ "none" # "ltr390_init"
    BY DEF ThermoInitCall
  <2>3. call[Main].fn = "ltr390_init" => todo[Main] = AfterInit
    BY Zenon, <2>2 DEF BootInv, InCall
  <2>4. QED
    BY Zenon, <2>1, <2>3 DEF SwitchedOn
<1>4. call[Mqtt].fn # "none" => todo[Main] = <<>> /\ call[Main].fn = "none"
  BY Zenon DEF BootInv, Started, Idle, InCall
<1>5. "none" \notin Enabling /\ "none" # "ltr390_init"
  BY Zenon, CtrlNames
<1>6. call[Mqtt].fn # "ltr390_init"
  BY Zenon, CallNames DEF MqttInv
<1>7. \A t, u \in Tasks : call[t].fn \in Enabling /\ call[u].fn \in Enabling => t = u
  BY Zenon, <1>1, <1>2, <1>5, TaskNames
<1>8. \A t, u \in Tasks : call[t].fn = "ltr390_init" /\ u # t => t = Main /\ call[u].fn = "none" /\ ~SwitchedOn
  BY Zenon, <1>1, <1>2, <1>3, <1>5, <1>6, TaskNames
<1>9. QED
  BY Zenon, <1>1, <1>7, <1>8

LEMMA EnableFrame ==
  ASSUME EnableInv, errors' = errors \/ errors' # 0,
         chip'.ctrl = chip.ctrl, st'.enabled = st.enabled, todo'[Main] = todo[Main],
         \A t \in Tasks : call'[t] = call[t]
  PROVE  EnableInv'
<1>1. SUFFICES ASSUME errors' = 0 PROVE (\A t \in Tasks : CtrlOf(t)') /\ Believed'
  BY Zenon DEF EnableInv
<1>2. (\A t \in Tasks : CtrlOf(t)) /\ Believed
  BY Zenon, <1>1 DEF EnableInv
<1>3. QED
  BY Zenon, <1>2, TaskNames DEF CtrlOf, Believed, SwitchedOn

(* The next call *)
LEMMA EnableTakes ==
  ASSUME TypeOK, ArgInv, BootInv, EnableInv, NEW t \in Tasks, Takes(t),
         chip' = chip, st' = st, errors' = errors
  PROVE  EnableInv'
<1>1. SUFFICES ASSUME errors' = 0 PROVE (\A u \in Tasks : CtrlOf(u)') /\ Believed'
  BY Zenon DEF EnableInv
<1>2. (\A u \in Tasks : CtrlOf(u)) /\ Believed
  BY Zenon, <1>1 DEF EnableInv
<1>3. /\ call'[t].fn = Head(todo[t])[1] /\ call'[t].at = 1 /\ todo'[t] = Tail(todo[t]) /\ OthersKeep(t)
      /\ call[t].fn = "none" /\ todo[t] # <<>>
  BY Zenon, TakesEffect DEF Takes, InCall
<1>4. CtrlOf(t)'
  BY <1>3 DEF CtrlOf
<1>5. \A u \in Tasks : u # t => CtrlOf(u)'
  BY Zenon, <1>2, <1>3 DEF CtrlOf, OthersKeep
<1>6. SwitchedOn' => SwitchedOn
  <2>1. "none" \notin Enabling /\ "ltr390_enable" \in Enabling
    BY DEF Enabling
  <2>2. CASE t = Main
    <3>1. AfterInit # <<>> /\ AfterInit # AfterEnable
      BY DEF AfterInit, AfterEnable
    <3>2. call'[Mqtt] = call[Mqtt]
      BY Zenon, <1>3, <2>2, TaskNames DEF OthersKeep
    <3>3. CASE todo[Main] = BootCalls
      <4>1. todo'[Main] = AfterInit
        BY Zenon, <1>3, <2>2, <3>3, BootLists
      <4>2. QED
        BY Zenon, <3>1, <4>1 DEF SwitchedOn
    <3>4. CASE todo[Main] = AfterInit
      <4>1. Head(AfterInit)[1] = "ltr390_enable"
        BY BootLists
      <4>2. call'[Main].fn = "ltr390_enable"
        BY Zenon, <1>3, <2>2, <3>4, <4>1
      <4>3. QED
        BY Zenon, <2>1, <4>2 DEF SwitchedOn
    <3>5. CASE todo[Main] = AfterEnable
      BY Zenon, <1>3, <2>1, <2>2, <3>2, <3>5 DEF SwitchedOn
    <3>6. QED
      BY Zenon, <1>3, <2>2, <3>3, <3>4, <3>5 DEF BootInv
  <2>3. CASE t # Main
    BY Zenon, <1>3, <2>1, <2>3, TaskNames DEF SwitchedOn, OthersKeep
  <2>4. QED
    BY Zenon, <2>2, <2>3
<1>7. Believed'
  BY Zenon, <1>2, <1>6 DEF Believed
<1>8. QED
  BY Zenon, <1>4, <1>5, <1>7

(* The write: the register holds what the call read. *)
LEMMA EnableWrite ==
  ASSUME TypeOK, PlaceInv, ArgInv, HolderInv, BootInv, SensorInv, MqttInv, EnableInv,
         NEW t \in Tasks, Write(t)
  PROVE  EnableInv'
<1>1. SUFFICES ASSUME errors' = 0 PROVE (\A u \in Tasks : CtrlOf(u)') /\ Believed'
  BY Zenon DEF EnableInv
<1>2. (\A u \in Tasks : CtrlOf(u)) /\ Believed
  BY Zenon, <1>1 DEF EnableInv, Write
<1>3. /\ Transferring(t) /\ Transfer(t)[1] = "write" /\ Written(t) /\ st' = st
      /\ todo' = todo
  BY Zenon DEF Write, ram
<1>4. call'[t].fn = call[t].fn /\ call'[t].at = call[t].at + 1 /\ OthersKeep(t) /\ call[t].at \in Nat
  BY Zenon, WriteBus, AdvancesEffect, CallTyped
<1>5. SwitchedOn' <=> SwitchedOn
  <2>1. call'[Main].fn = call[Main].fn /\ call'[Mqtt].fn = call[Mqtt].fn
    BY Zenon, <1>4, TaskNames DEF OthersKeep
  <2>2. QED
    BY Zenon, <1>3, <2>1 DEF SwitchedOn
<1>6. \A u \in Tasks : u # t => call'[u] = call[u]
  BY Zenon, <1>4 DEF OthersKeep
<1>7. CASE call[t].fn \in CtrlCalls
  <2>1. call[t].at = 2 /\ chip'.ctrl = NewCtrl(call[t]) /\ call[t].got = chip.ctrl
    BY Zenon, <1>2, <1>3, <1>7, WriteEffect DEF CtrlOf
  <2>2. chip.ctrl \in CtrlReg /\ call[t].got \in CtrlReg
    BY Zenon, CallTyped DEF TypeOK
  <2>3. call[t].fn = "ltr390_set_mode" => chip'.ctrl.en = chip.ctrl.en
    <3>1. call[t].fn = "ltr390_set_mode" => chip'.ctrl = [call[t].got EXCEPT !.mode = call[t].arg]
      BY Zenon, <2>1 DEF NewCtrl
    <3>2. [call[t].got EXCEPT !.mode = call[t].arg].en = call[t].got.en
      BY Zenon, <2>2 DEF CtrlReg
    <3>3. QED
      BY Zenon, <2>1, <3>1, <3>2
  <2>4. call[t].fn \in Enabling => chip'.ctrl.en = (call[t].fn = "ltr390_enable")
    <3>1. call[t].fn = "ltr390_enable" => chip'.ctrl = [call[t].got EXCEPT !.en = TRUE]
      BY Zenon, <2>1 DEF NewCtrl
    <3>2. call[t].fn = "ltr390_standby" => chip'.ctrl = [call[t].got EXCEPT !.en = FALSE]
      BY Zenon, <2>1 DEF NewCtrl
    <3>3. call[t].fn = "ltr390_standby" => chip'.ctrl.en = FALSE
      BY Zenon, <2>2, <3>2 DEF CtrlReg
    <3>4. call[t].fn = "ltr390_enable" => chip'.ctrl.en = TRUE
      BY Zenon, <2>2, <3>1 DEF CtrlReg
    <3>5. QED
      BY <3>3, <3>4 DEF Enabling
  <2>5. CtrlOf(t)'
    <3>1. call'[t].at # 2
      BY <1>4, <2>1
    <3>2. QED
      BY Zenon, <1>4, <2>4, <3>1 DEF CtrlOf
  <2>6. ASSUME NEW u \in Tasks, u # t PROVE CtrlOf(u)'
    <3>1. ~(call[u].fn \in CtrlCalls /\ call[u].at = 2)
      <4>1. call[t].at <= 3 /\ (call[u].at = 2 => call[u].at <= 3)
        BY <2>1
      <4>2. QED
        BY Zenon, <1>7, <2>6, <4>1, OneWriter
    <3>2. CASE call[u].fn \in Enabling /\ call[u].at >= 3
      <4>1. call[t].fn = "ltr390_set_mode"
        BY Zenon, <1>7, <2>6, <3>2, OneSwitch DEF CtrlCalls, Enabling
      <4>2. chip'.ctrl.en = (call[u].fn = "ltr390_enable")
        BY Zenon, <1>2, <2>3, <2>6, <3>2, <4>1 DEF CtrlOf
      <4>3. QED
        BY Zenon, <1>6, <2>6, <3>1, <4>2 DEF CtrlOf
    <3>3. CASE ~(call[u].fn \in Enabling /\ call[u].at >= 3)
      BY Zenon, <1>6, <2>6, <3>1, <3>3 DEF CtrlOf
    <3>4. QED
      BY Zenon, <3>2, <3>3
  <2>7. Believed'
    <3>1. CASE call[t].fn \in Enabling
      BY Zenon, <1>5, <3>1, OneSwitch, TaskNames DEF Believed, SwitchedOn
    <3>2. CASE call[t].fn = "ltr390_set_mode"
      BY Zenon, <1>2, <1>3, <1>5, <2>3, <3>2 DEF Believed
    <3>3. QED
      BY Zenon, <1>7, <3>1, <3>2 DEF CtrlCalls, Enabling
  <2>8. QED
    BY Zenon, <2>5, <2>6, <2>7
<1>8. CASE call[t].fn = "ltr390_init"
  <2>1. /\ \A u \in Tasks : u # t => call[u].fn = "none"
        /\ ~SwitchedOn
    <3>1. t # Mqtt /\ t # Sensor
      BY Zenon, <1>8, OneSwitch, CallNames DEF MqttInv
    <3>2. Mqtt # t
      BY Zenon, <3>1
    <3>3. QED
      BY Zenon, <1>8, <3>2, OneSwitch, TaskNames
  <2>2. \A u \in Tasks : call'[u].fn \notin CtrlCalls /\ call'[u].fn \notin Enabling
    BY Zenon, <1>4, <1>6, <1>8, <2>1, CtrlNames
  <2>3. QED
    BY Zenon, <1>5, <2>1, <2>2 DEF CtrlOf, Believed
<1>9. CASE call[t].fn \notin CtrlCalls \cup {"ltr390_init"}
  <2>1. chip'.ctrl = chip.ctrl
    BY Zenon, <1>3, <1>9, WriteEffect
  <2>2. call'[t].fn \notin CtrlCalls /\ call'[t].fn \notin Enabling
    BY Zenon, <1>4, <1>9, CtrlNames
  <2>3. QED
    BY Zenon, <1>2, <1>3, <1>5, <1>6, <2>1, <2>2 DEF CtrlOf, Believed
<1>10. QED
  BY Zenon, <1>7, <1>8, <1>9

LEMMA EnableRead ==
  ASSUME TypeOK, PlaceInv, EnableInv, NEW t \in Tasks, Read(t)
  PROVE  EnableInv'
<1>1. SUFFICES ASSUME errors' = 0 PROVE (\A u \in Tasks : CtrlOf(u)') /\ Believed'
  BY Zenon DEF EnableInv
<1>2. /\ errors' = errors /\ chip'.ctrl = chip.ctrl /\ st'.enabled = st.enabled /\ todo' = todo
      /\ Ends(t) \/ Advances(t)
      /\ call[t].fn \in StoringCalls => Advance(t, chip.ctrl) /\ call[t].at = 1
  BY Zenon, ReadEffect DEF Read
<1>3. (\A u \in Tasks : CtrlOf(u)) /\ Believed
  BY Zenon, <1>1, <1>2 DEF EnableInv
<1>4. \A u \in Tasks : u # t => call'[u] = call[u]
  BY Zenon, <1>2, EndsEffect, AdvancesEffect DEF OthersKeep
<1>5. CASE call[t].fn \in StoringCalls
  <2>1. call'[t].fn = call[t].fn /\ call'[t].at = 1 + 1 /\ call'[t].got = chip.ctrl
    BY Zenon, <1>2, <1>5, AdvanceEffect
  <2>2. ~(call'[t].at >= 3)
    BY <2>1
  <2>3. CtrlOf(t)'
    BY Zenon, <1>2, <2>1, <2>2 DEF CtrlOf
  <2>4. SwitchedOn' <=> SwitchedOn
    <3>1. call'[Main].fn = call[Main].fn /\ call'[Mqtt].fn = call[Mqtt].fn
      BY Zenon, <1>4, <2>1, TaskNames
    <3>2. QED
      BY Zenon, <1>2, <3>1 DEF SwitchedOn
  <2>5. QED
    BY Zenon, <1>2, <1>3, <1>4, <2>3, <2>4 DEF CtrlOf, Believed
<1>6. CASE call[t].fn \notin StoringCalls
  <2>1. call'[t].fn = "none" \/ call'[t].fn = call[t].fn
    BY Zenon, <1>2, EndsEffect, AdvancesEffect
  <2>2. /\ call'[t].fn \notin CtrlCalls /\ call'[t].fn \notin Enabling
        /\ call[t].fn \notin CtrlCalls /\ call[t].fn \notin Enabling
    BY Zenon, <1>6, <2>1, CtrlNames
  <2>3. SwitchedOn' <=> SwitchedOn
    <3>1. \A u \in Tasks : call'[u].fn \in Enabling <=> call[u].fn \in Enabling
      BY Zenon, <1>4, <2>2
    <3>2. QED
      BY Zenon, <1>2, <3>1, TaskNames DEF SwitchedOn
  <2>4. QED
    BY Zenon, <1>2, <1>3, <1>4, <2>2, <2>3 DEF CtrlOf, Believed
<1>7. QED
  BY Zenon, <1>5, <1>6

LEMMA EnableGive ==
  ASSUME TypeOK, PlaceInv, EnableInv, NEW t \in Tasks, GiveMutex(t)
  PROVE  EnableInv'
<1>1. SUFFICES ASSUME errors' = 0 PROVE (\A u \in Tasks : CtrlOf(u)') /\ Believed'
  BY Zenon DEF EnableInv
<1>2. /\ errors' = errors /\ chip' = chip /\ st' = st /\ todo' = todo
      /\ Gives(t) \/ (Ends(t) /\ call[t].fn \notin StoringCalls)
  BY Zenon, GiveMutexBus DEF GiveMutex, ram, chips
<1>3. (\A u \in Tasks : CtrlOf(u)) /\ Believed
  BY Zenon, <1>1, <1>2 DEF EnableInv
<1>4. \A u \in Tasks : u # t => call'[u] = call[u]
  BY Zenon, <1>2, EndsEffect, GivesEffect DEF OthersKeep
<1>5. CtrlOf(t)' /\ (call'[t].fn \in Enabling <=> call[t].fn \in Enabling)
  <2>1. CASE Gives(t)
    <3>1. /\ call'[t].fn = call[t].fn /\ call'[t].at = call[t].at + 1
          /\ call[t].at = Len(Transfers[call[t].fn]) + 1
      BY Zenon, <2>1, GivesEffect DEF Gives
    <3>2. call[t].fn \in CtrlCalls => call[t].at >= 3 /\ call'[t].at # 2
      <4>1. call[t].fn \in CtrlCalls => call[t].at = 2 + 1
        BY Zenon, <3>1, CtrlNames
      <4>2. QED
        BY <3>1, <4>1
    <3>3. QED
      BY Zenon, <1>2, <1>3, <3>1, <3>2, CtrlNames DEF CtrlOf
  <2>2. CASE Ends(t) /\ call[t].fn \notin StoringCalls
    <3>1. call'[t].fn = "none"
      BY Zenon, <2>2, EndsEffect
    <3>2. QED
      BY Zenon, <2>2, <3>1, CtrlNames DEF CtrlOf
  <2>3. QED
    BY Zenon, <1>2, <2>1, <2>2
<1>6. SwitchedOn' <=> SwitchedOn
  <2>1. \A u \in Tasks : call'[u].fn \in Enabling <=> call[u].fn \in Enabling
    BY Zenon, <1>4, <1>5
  <2>2. QED
    BY Zenon, <1>2, <2>1, TaskNames DEF SwitchedOn
<1>7. QED
  BY Zenon, <1>2, <1>3, <1>4, <1>5, <1>6 DEF CtrlOf, Believed

(* The driver believes what the call has switched. *)
LEMMA EnableFinish ==
  ASSUME TypeOK, ArgInv, PlaceInv, BootInv, SensorInv, MqttInv, EnableInv, NEW t \in Tasks, Finish(t)
  PROVE  EnableInv'
<1>1. SUFFICES ASSUME errors' = 0 PROVE (\A u \in Tasks : CtrlOf(u)') /\ Believed'
  BY Zenon DEF EnableInv
<1>2. /\ errors' = errors /\ chip' = chip /\ todo' = todo
      /\ st'.enabled = IF call[t].fn = "ltr390_enable" THEN TRUE
                       ELSE IF call[t].fn = "ltr390_standby" THEN FALSE ELSE st.enabled
      /\ call[t].at = Len(Transfers[call[t].fn]) + 2
  BY Zenon, FinishEffect DEF chips
<1>3. (\A u \in Tasks : CtrlOf(u)) /\ Believed
  BY Zenon, <1>1, <1>2 DEF EnableInv
<1>4. call'[t].fn = "none" /\ \A u \in Tasks : u # t => call'[u] = call[u]
  BY Zenon, FinishBus, FinishesEffect DEF OthersKeep
<1>5. CtrlOf(t)'
  BY Zenon, <1>4, CtrlNames DEF CtrlOf
<1>6. Believed'
  <2>1. CASE call[t].fn \in Enabling
    <3>1. call[t].at = 2 + 2
      BY Zenon, <1>2, <2>1, CtrlNames
    <3>2. call[t].at >= 3
      BY <3>1
    <3>3. chip.ctrl.en = (call[t].fn = "ltr390_enable")
      BY Zenon, <1>3, <2>1, <3>2 DEF CtrlOf
    <3>4. st'.enabled = (call[t].fn = "ltr390_enable")
      BY <1>2, <2>1 DEF Enabling
    <3>5. QED
      BY Zenon, <1>2, <3>3, <3>4 DEF Believed
  <2>2. CASE call[t].fn \notin Enabling
    <3>1. st'.enabled = st.enabled
      BY Zenon, <1>2, <2>2 DEF Enabling
    <3>2. SwitchedOn' => SwitchedOn
      <4>1. \A u \in Tasks : call[u].fn \in Enabling => call'[u].fn \in Enabling
        BY Zenon, <1>4, <2>2
      <4>2. QED
        BY Zenon, <1>2, <4>1, TaskNames DEF SwitchedOn
    <3>3. QED
      BY Zenon, <1>2, <1>3, <3>1, <3>2 DEF Believed
  <2>3. QED
    BY Zenon, <2>1, <2>2
<1>7. QED
  BY Zenon, <1>2, <1>3, <1>4, <1>5, <1>6 DEF CtrlOf

LEMMA EnableInvKept ==
  ASSUME BaseInv, EnableInv, [Next]_vars
  PROVE  EnableInv'
<1>1. TypeOK
  BY Zenon DEF BaseInv
<1>2. Error /\ commands' = commands => EnableInv'
  BY Zenon, <1>1, ErrorCounts DEF EnableInv
<1>3. ASSUME NEW t \in Tasks, DriverStep(t)
      PROVE  EnableInv'
  <2>1. CASE TakeMutex(t)
    <3>1. commands' = commands /\ chip' = chip /\ st' = st
      BY Zenon, <2>1 DEF TakeMutex, chips, ram
    <3>2. Error \/ (Takes(t) /\ errors' = errors)
      <4>1. Takes(t) => ~TimesOut(t)
        <5>1. Takes(t) => call'[t].at = 1
          BY Zenon, <1>1, TakesEffect DEF BaseInv
        <5>2. TimesOut(t) => call'[t].at = 0
          BY Zenon, <1>1, TimesOutEffect, NoCallTyped DEF BaseInv
        <5>3. QED
          BY <5>1, <5>2
      <4>2. errors' = errors \/ Error
        BY Zenon, <2>1 DEF TakeMutex
      <4>3. QED
        BY Zenon, <2>1, <4>1, <4>2, TakeMutexBus
    <3>3. QED
      BY Zenon, <1>2, <3>1, <3>2, EnableTakes DEF BaseInv
  <2>2. CASE TransferFails(t) \/ WriteIgnored(t) \/ ReadIgnored(t)
    BY Zenon, <1>2, <2>2 DEF TransferFails, WriteIgnored, ReadIgnored
  <2>3. CASE Write(t)
    BY Zenon, <2>3, EnableWrite DEF BaseInv
  <2>4. CASE Read(t)
    BY Zenon, <2>4, EnableRead DEF BaseInv
  <2>5. CASE GiveMutex(t)
    BY Zenon, <2>5, EnableGive DEF BaseInv
  <2>6. CASE Finish(t)
    BY Zenon, <2>6, EnableFinish DEF BaseInv
  <2>7. QED
    BY Zenon, <1>3, <2>1, <2>2, <2>3, <2>4, <2>5, <2>6 DEF DriverStep
<1>4. CASE SensorTask
  <2>1. call' = call /\ errors' = errors /\ st' = st /\ chip' = chip
    BY Zenon, <1>4, SensorKeeps
  <2>2. todo'[Main] = todo[Main]
    BY Zenon, <1>1, <1>4, SensorKeeps, NewTodoEffect, TaskNames
  <2>3. QED
    BY Zenon, <2>1, <2>2, EnableFrame
<1>5. CASE MqttTask
  <2>1. /\ call' = call /\ errors' = errors /\ st' = st /\ chip' = chip
        /\ \E l : todo' = [todo EXCEPT ![Mqtt] = l]
    BY Zenon, <1>5, MqttKeeps DEF BaseInv
  <2>2. todo'[Main] = todo[Main]
    BY Zenon, <1>1, <2>1, NewTodoEffect, TaskNames
  <2>3. QED
    BY Zenon, <2>1, <2>2, EnableFrame
<1>6. CASE BootFails
  BY Zenon, <1>2, <1>6 DEF BootFails, Restart
<1>7. CASE ConversionAborts
  <2>1. /\ \A t \in Tasks : call'[t].fn = "none"
        /\ todo'[Main] = BootCalls
    BY Zenon, <1>7, RestartEffect DEF ConversionAborts
  <2>2. BootCalls # <<>> /\ BootCalls # AfterEnable
    BY DEF BootCalls, AfterEnable
  <2>3. QED
    BY Zenon, <2>1, <2>2, CtrlNames DEF EnableInv, CtrlOf, Believed, SwitchedOn
<1>8. CASE ChipMeasures
  <2>1. chip'.ctrl = chip.ctrl
    <3>1. chip' = [chip EXCEPT !.ready = TRUE] /\ chip \in ChipRec
      BY Zenon, <1>1, <1>8 DEF ChipMeasures, TypeOK, ChipRec
    <3>2. QED
      BY Zenon, <3>1 DEF ChipRec
  <2>2. QED
    BY Zenon, <1>8, <2>1, EnableFrame DEF ChipMeasures, bus, ram
<1>9. CASE UNCHANGED vars
  BY Zenon, <1>9, EnableFrame DEF vars, bus, ram, chips
<1>10. QED
  BY Zenon, <1>3, <1>4, <1>5, <1>6, <1>7, <1>8, <1>9 DEF Next, Driver, DriverStep

(* As long as no transfer fails, the LTR390 is on exactly when the driver believes *)
(* it is, however the toggle of the sensor task and the commands take turns.       *)
THEOREM EnableBelieved == Spec => []EnableKept
<1>1. Init => EnableInv
  <2>1. SUFFICES ASSUME Init PROVE EnableInv
    OBVIOUS
  <2>2. chip = NewChip /\ st = NewSt /\ todo = NewTodo /\ call = NewCall
    BY Zenon, <2>1 DEF Init
  <2>3. \A t \in Tasks : call[t].fn = "none"
    BY Zenon, <2>2, NoCallTyped DEF NewCall
  <2>4. chip.ctrl.en = st.enabled
    BY Zenon, <2>2 DEF NewChip, NewSt, NoCtrl
  <2>5. QED
    BY Zenon, <2>3, <2>4, CtrlNames DEF EnableInv, CtrlOf, Believed
<1>2. BaseInv /\ EnableInv /\ [Next]_vars => EnableInv'
  BY Zenon, EnableInvKept
<1>3. BaseInv /\ EnableInv => EnableKept
  BY Zenon, CtrlNames DEF EnableInv, EnableKept, Believed, SwitchedOn, Started, Idle, InCall, Enabling
<1>4. QED
  BY <1>1, <1>2, <1>3, BaseAlways, PTL DEF Spec

--------------------------------------------------------------------------------
(* The readings *)

LEMMA WrongFrame ==
  ASSUME WrongInv, wrong' = wrong \/ wrong' = 0,
         chip'.ctrl.mode = chip.ctrl.mode, st'.mode = st.mode, sen' = sen,
         call'[Sensor] = call[Sensor], todo'[Sensor] = todo[Sensor],
         KeepsMode => KeepsMode'
  PROVE  WrongInv'
<1>1. CASE wrong' = 0
  <2>1. ~(wrong' > 0)
    BY <1>1
  <2>2. QED
    BY Zenon, <2>1 DEF WrongInv
<1>2. CASE wrong' = wrong
  <2>1. /\ (Toggling' <=> Toggling) /\ (InCall(Sensor)' <=> InCall(Sensor))
        /\ (Returned(Sensor, "ok")' <=> Returned(Sensor, "ok"))
    BY Zenon DEF Toggling, JobFn, InCall, Returned, Idle
  <2>2. ReadingsAgree => ReadingsAgree'
    BY Zenon, <2>1 DEF ReadingsAgree
  <2>3. QED
    BY Zenon, <1>2, <2>1, <2>2 DEF WrongInv
<1>3. QED
  BY Zenon, <1>1, <1>2

LEMMA NotWrong ==
  ASSUME wrong' = 0
  PROVE  WrongInv'
<1>1. ~(wrong' > 0)
  OBVIOUS
<1>2. QED
  BY Zenon, <1>1 DEF WrongInv

(* Who reads the register to switch the LTR390 sees the mode that it writes back. *)
LEMMA ReadKeepsMode ==
  ASSUME TypeOK, NEW t \in Tasks, Read(t), KeepsMode
  PROVE  KeepsMode'
<1>1. /\ chip'.ctrl = chip.ctrl
      /\ Ends(t) \/ Advances(t)
      /\ call[t].fn \in StoringCalls => Advance(t, chip.ctrl)
  BY Zenon, ReadEffect
<1>2. OthersKeep(t) /\ (call'[t].fn = "none" \/ call'[t].fn = call[t].fn)
  BY Zenon, <1>1, EndsEffect, AdvancesEffect
<1>3. call'[t].fn \in Enabling => call'[t].got = chip.ctrl
  <2>1. call'[t].fn \in Enabling => call[t].fn \in StoringCalls
    BY Zenon, <1>2, CtrlNames
  <2>2. QED
    BY Zenon, <1>1, <2>1, AdvanceEffect
<1>4. QED
  BY Zenon, <1>1, <1>2, <1>3 DEF KeepsMode, OthersKeep

(* The other steps of a call do not read the register. *)
LEMMA StepKeepsMode ==
  ASSUME TypeOK, PlaceInv, ArgInv, NEW t \in Tasks,
         Takes(t) \/ Gives(t) \/ Ends(t) \/ Finishes(t), chip'.ctrl = chip.ctrl, KeepsMode
  PROVE  KeepsMode'
<1>1. OthersKeep(t)
  BY Zenon, TakesEffect, GivesEffect, EndsEffect, FinishesEffect
<1>2. ~(call'[t].fn \in Enabling /\ call'[t].at = 2)
  <2>1. CASE Takes(t)
    <3>1. call'[t].at = 1
      BY Zenon, <2>1, TakesEffect
    <3>2. QED
      BY <3>1
  <2>2. CASE Gives(t)
    <3>1. call'[t].fn = call[t].fn /\ call'[t].at = Len(Transfers[call[t].fn]) + 1 + 1
      BY Zenon, <2>2, GivesEffect DEF Gives
    <3>2. call[t].fn \in Enabling => call'[t].at = 2 + 1 + 1
      BY Zenon, <3>1, CtrlNames
    <3>3. QED
      BY <3>1, <3>2
  <2>3. CASE Ends(t) \/ Finishes(t)
    BY Zenon, <2>3, EndsEffect, FinishesEffect, CtrlNames
  <2>4. QED
    BY Zenon, <2>1, <2>2, <2>3
<1>3. QED
  BY Zenon, <1>1, <1>2 DEF KeepsMode, OthersKeep

(* The mode that a write leaves in the register *)
LEMMA WriteMode ==
  ASSUME TypeOK, PlaceInv, ArgInv, HolderInv, NEW t \in Tasks, Write(t), call[t].fn # "ltr390_init"
  PROVE  /\ chip'.ctrl.mode = IF call[t].fn = "ltr390_set_mode" THEN call[t].arg
                              ELSE IF call[t].fn \in Enabling THEN call[t].got.mode
                              ELSE chip.ctrl.mode
         /\ call[t].fn \in CtrlCalls => call[t].at = 2 /\ KeepsMode'
         /\ chip'.ctrl.mode = chip.ctrl.mode /\ KeepsMode => KeepsMode'
         /\ call'[t].fn = call[t].fn /\ call'[t].arg = call[t].arg /\ call'[t].at = call[t].at + 1
         /\ OthersKeep(t) /\ st' = st /\ sen' = sen /\ todo' = todo
<1>1. /\ Transferring(t) /\ Transfer(t)[1] = "write" /\ Written(t)
      /\ st' = st /\ sen' = sen /\ todo' = todo
  BY Zenon DEF Write, ram
<1>2. /\ call[t].fn \in CtrlCalls => call[t].at = 2 /\ chip'.ctrl = NewCtrl(call[t])
      /\ call[t].fn \notin CtrlCalls => chip'.ctrl = chip.ctrl
  BY Zenon, <1>1, WriteEffect
<1>3. /\ call'[t].fn = call[t].fn /\ call'[t].arg = call[t].arg /\ call'[t].at = call[t].at + 1
      /\ OthersKeep(t)
  BY Zenon, WriteBus, AdvancesEffect
<1>4. call[t].got \in CtrlReg /\ (call[t].fn = "ltr390_set_mode" => call[t].arg \in Modes)
  BY Zenon, CallTyped DEF ArgInv, ArgOK
<1>5. call[t].fn = "ltr390_set_mode" => chip'.ctrl.mode = call[t].arg
  <2>1. call[t].fn = "ltr390_set_mode" => chip'.ctrl = [call[t].got EXCEPT !.mode = call[t].arg]
    BY Zenon, <1>2 DEF NewCtrl, CtrlCalls
  <2>2. [call[t].got EXCEPT !.mode = call[t].arg].mode = call[t].arg
    BY Zenon, <1>4 DEF CtrlReg
  <2>3. QED
    BY Zenon, <2>1, <2>2
<1>6. call[t].fn \in Enabling => chip'.ctrl.mode = call[t].got.mode
  <2>1. call[t].fn = "ltr390_enable" => chip'.ctrl = [call[t].got EXCEPT !.en = TRUE]
    BY Zenon, <1>2 DEF NewCtrl, CtrlCalls
  <2>2. call[t].fn = "ltr390_standby" => chip'.ctrl = [call[t].got EXCEPT !.en = FALSE]
    BY Zenon, <1>2 DEF NewCtrl, CtrlCalls
  <2>3. /\ [call[t].got EXCEPT !.en = TRUE].mode = call[t].got.mode
        /\ [call[t].got EXCEPT !.en = FALSE].mode = call[t].got.mode
    BY Zenon, <1>4 DEF CtrlReg
  <2>4. QED
    BY Zenon, <2>1, <2>2, <2>3 DEF Enabling
<1>7. call[t].fn \in CtrlCalls => KeepsMode'
  <2>1. SUFFICES ASSUME call[t].fn \in CtrlCalls, NEW u \in Tasks, call'[u].fn \in Enabling, call'[u].at = 2
                 PROVE  FALSE
    BY Zenon DEF KeepsMode
  <2>2. call[t].at = 2 /\ call'[t].at # 2
    BY <1>2, <1>3, <2>1
  <2>3. u # t /\ call[u].fn \in CtrlCalls /\ call[u].at = 2
    BY Zenon, <1>3, <2>1, <2>2, CtrlNames DEF OthersKeep
  <2>4. call[t].at <= 3 /\ call[u].at <= 3
    BY <2>2, <2>3
  <2>5. QED
    BY Zenon, <2>1, <2>3, <2>4, OneWriter
<1>8. call[t].fn \notin CtrlCalls /\ KeepsMode => KeepsMode'
  BY Zenon, <1>2, <1>3, CtrlNames DEF KeepsMode, OthersKeep
<1>9. QED
  BY Zenon, <1>1, <1>2, <1>3, <1>5, <1>6, <1>7, <1>8, CtrlNames DEF CtrlCalls, Enabling

(* A step that leaves a wrong reading in the history is no failure and no set_mode of a command. *)
LEMMA WrongSteps ==
  ASSUME BaseInv, NEW t \in Tasks, DriverStep(t), wrong' # 0
  PROVE  /\ wrong' = wrong /\ wrong > 0 /\ t # Main
         /\ \/ Takes(t) /\ chip' = chip /\ st' = st /\ sen' = sen
            \/ Write(t) /\ ~(t = Mqtt /\ call[t].fn = "ltr390_set_mode")
            \/ Read(t)
            \/ GiveMutex(t)
            \/ Finish(t) /\ ~(t = Mqtt /\ call[t].fn = "ltr390_set_mode")
<1>1. TypeOK /\ ArgInv /\ BootInv
  BY Zenon DEF BaseInv
<1>2. wrong' = wrong /\ ~Idle(t)
  BY Zenon, <1>1, DriverKeeps
<1>3. wrong > 0
  BY <1>1, <1>2 DEF TypeOK
<1>4. t # Main
  BY Zenon, <1>1, <1>2, <1>3 DEF BootInv, Started
<1>5. commands' = commands /\ ~Error
  BY Zenon, <1>1, DriverKeeps, ErrorCounts
<1>6. CASE TakeMutex(t)
  BY Zenon, <1>2, <1>3, <1>4, <1>5, <1>6, TakeMutexBus DEF TakeMutex, chips, ram
<1>7. CASE TransferFails(t) \/ WriteIgnored(t) \/ ReadIgnored(t)
  BY Zenon, <1>5, <1>7 DEF TransferFails, WriteIgnored, ReadIgnored
<1>8. CASE Write(t) \/ Finish(t)
  BY Zenon, <1>2, <1>3, <1>4, <1>8 DEF Write, Finish, Disturbs
<1>9. QED
  BY Zenon, <1>2, <1>3, <1>4, <1>6, <1>7, <1>8 DEF DriverStep

LEMMA WrongMqtt ==
  ASSUME BaseInv, WrongInv, DriverStep(Mqtt)
  PROVE  WrongInv'
<1>1. CASE wrong' = 0
  BY Zenon, <1>1, NotWrong
<1>2. CASE wrong' # 0
  <2>1. /\ TypeOK /\ ArgInv /\ PlaceInv /\ HolderInv /\ MqttInv /\ BootInv /\ SensorInv
    BY Zenon DEF BaseInv
  <2>2. /\ wrong' = wrong
        /\ \/ Takes(Mqtt) /\ chip' = chip /\ st' = st /\ sen' = sen
           \/ Write(Mqtt) /\ call[Mqtt].fn # "ltr390_set_mode"
           \/ Read(Mqtt)
           \/ GiveMutex(Mqtt)
           \/ Finish(Mqtt) /\ call[Mqtt].fn # "ltr390_set_mode"
    BY Zenon, <1>2, WrongSteps, TaskNames
  <2>3. OthersKeep(Mqtt) /\ call'[Sensor] = call[Sensor] /\ todo'[Sensor] = todo[Sensor]
    BY Zenon, <2>1, DriverKeeps, TaskNames DEF OthersKeep
  <2>4. call[Mqtt].fn # "ltr390_init" /\ call[Mqtt].fn # "ltr390_read"
    BY Zenon, <2>1, CallNames DEF MqttInv
  <2>5. ASSUME chip'.ctrl.mode = chip.ctrl.mode, st'.mode = st.mode, sen' = sen, KeepsMode => KeepsMode'
        PROVE  WrongInv'
    BY Zenon, <2>2, <2>3, <2>5, WrongFrame
  <2>6. CASE Takes(Mqtt) /\ chip' = chip /\ st' = st /\ sen' = sen
    BY Zenon, <2>1, <2>2, <2>5, <2>6, StepKeepsMode, TaskNames
  <2>7. CASE Write(Mqtt) /\ call[Mqtt].fn # "ltr390_set_mode"
    <3>1. /\ call[Mqtt].fn \notin Enabling => chip'.ctrl.mode = chip.ctrl.mode
          /\ call[Mqtt].fn \in Enabling => chip'.ctrl.mode = call[Mqtt].got.mode
          /\ call[Mqtt].fn \in CtrlCalls => call[Mqtt].at = 2 /\ KeepsMode'
          /\ chip'.ctrl.mode = chip.ctrl.mode /\ KeepsMode => KeepsMode'
          /\ st' = st /\ sen' = sen
      BY Zenon, <2>1, <2>4, <2>7, WriteMode, TaskNames
    <3>2. CASE KeepsMode
      <4>1. chip'.ctrl.mode = chip.ctrl.mode
        BY Zenon, <3>1, <3>2, CtrlNames, TaskNames DEF KeepsMode
      <4>2. QED
        BY Zenon, <2>2, <2>5, <3>1, <3>2, <4>1
    <3>3. CASE ~KeepsMode
      <4>1. Toggling /\ wrong = 1 /\ (InCall(Sensor) => call[Sensor].at <= 2)
        BY Zenon, <1>2, <2>2, <3>3, WrongSteps, TaskNames DEF WrongInv
      <4>2. Toggling' /\ (InCall(Sensor)' => call'[Sensor].at <= 2)
        BY Zenon, <2>3, <4>1 DEF Toggling, JobFn, InCall
      <4>3. QED
        BY Zenon, <2>2, <4>1, <4>2 DEF WrongInv
    <3>4. QED
      BY Zenon, <3>2, <3>3
  <2>8. CASE Read(Mqtt)
    <3>1. chip'.ctrl = chip.ctrl /\ st' = st /\ sen' = sen
      BY Zenon, <2>1, <2>4, <2>8, ReadEffect, TaskNames
    <3>2. KeepsMode => KeepsMode'
      BY Zenon, <2>1, <2>8, ReadKeepsMode, TaskNames
    <3>3. QED
      BY Zenon, <2>2, <2>5, <3>1, <3>2
  <2>9. CASE GiveMutex(Mqtt)
    <3>1. chip' = chip /\ st' = st /\ sen' = sen /\ (Gives(Mqtt) \/ Ends(Mqtt))
      BY Zenon, <2>1, <2>9, GiveMutexBus, TaskNames DEF GiveMutex, ram, chips
    <3>2. KeepsMode => KeepsMode'
      BY Zenon, <2>1, <3>1, StepKeepsMode, TaskNames
    <3>3. QED
      BY Zenon, <2>2, <2>5, <3>1, <3>2
  <2>10. CASE Finish(Mqtt) /\ call[Mqtt].fn # "ltr390_set_mode"
    <3>1. chip' = chip /\ st'.mode = st.mode /\ sen' = sen
      BY Zenon, <2>1, <2>10, FinishEffect, TaskNames DEF chips
    <3>2. KeepsMode => KeepsMode'
      BY Zenon, <2>1, <2>10, <3>1, FinishBus, StepKeepsMode, TaskNames
    <3>3. QED
      BY Zenon, <2>2, <2>5, <3>1, <3>2
  <2>11. QED
    BY Zenon, <2>2, <2>6, <2>7, <2>8, <2>9, <2>10
<1>3. QED
  BY Zenon, <1>1, <1>2

(* The toggle writes the other mode, and then stores it. *)
LEMMA WrongToggle ==
  ASSUME BaseInv, WrongInv, DriverStep(Sensor), wrong' # 0, Toggling
  PROVE  WrongInv'
<1>1. /\ TypeOK /\ ArgInv /\ PlaceInv /\ HolderInv /\ MqttInv /\ BootInv /\ SensorInv
  BY Zenon DEF BaseInv
<1>2. /\ wrong' = wrong /\ wrong = 1
      /\ \/ Takes(Sensor) /\ chip' = chip /\ st' = st /\ sen' = sen
         \/ Write(Sensor)
         \/ Read(Sensor)
         \/ GiveMutex(Sensor)
         \/ Finish(Sensor)
  BY Zenon, WrongSteps, TaskNames DEF WrongInv
<1>3. wrong > 0 /\ wrong' > 0 /\ wrong' = 1
  BY <1>2
<1>4. InCall(Sensor) => call[Sensor].fn = "ltr390_set_mode" /\ call[Sensor].at \in Nat
  BY Zenon, <1>1, CallTyped, TaskNames DEF Toggling, JobFn
<1>5. sen.at = "thermo"
  <2>1. JobFn(Sensor) = "ltr390_set_mode" /\ ~Idle(Sensor)
    <3>1. Idle(Sensor) => JobFn(Sensor) = "none"
      BY Zenon DEF JobFn, Idle, InCall
    <3>2. QED
      BY <3>1 DEF Toggling
  <2>2. MeasureCall # "ltr390_set_mode" /\ "ltr390_read" # "ltr390_set_mode"
    BY DEF MeasureCall
  <2>3. QED
    BY Zenon, <1>1, <2>1, <2>2 DEF SensorInv
<1>6. sen'.at = "thermo" /\ todo'[Sensor] = <<>>
  BY Zenon, <1>1, <1>5, DriverKeeps, SensorJob, TaskNames
<1>7. JobFn(Sensor)' = call'[Sensor].fn
  BY Zenon, <1>6 DEF JobFn
<1>8. CASE Takes(Sensor)
  <2>1. call'[Sensor].fn = "ltr390_set_mode" /\ call'[Sensor].at = 1
    BY Zenon, <1>1, <1>8, TakesEffect, TaskNames DEF Takes, Toggling, JobFn
  <2>2. 1 <= 2
    OBVIOUS
  <2>3. QED
    BY Zenon, <1>2, <1>3, <1>7, <2>1, <2>2 DEF WrongInv, Toggling
<1>9. CASE Write(Sensor)
  <2>1. InCall(Sensor)
    BY Zenon, <1>9 DEF Write, Transferring
  <2>2. /\ chip'.ctrl.mode = call[Sensor].arg /\ KeepsMode'
        /\ call'[Sensor].fn = "ltr390_set_mode" /\ call'[Sensor].arg = call[Sensor].arg
        /\ call'[Sensor].at = 2 + 1
    <3>1. "ltr390_set_mode" # "ltr390_init"
      OBVIOUS
    <3>2. QED
      BY Zenon, <1>1, <1>4, <1>9, <2>1, <3>1, WriteMode, CtrlNames, TaskNames
  <2>3. call'[Sensor].at >= 3 /\ InCall(Sensor)'
    BY <2>2 DEF InCall
  <2>4. QED
    BY Zenon, <1>3, <1>7, <2>2, <2>3 DEF WrongInv, Toggling
<1>10. CASE Read(Sensor)
  <2>1. InCall(Sensor)
    BY Zenon, <1>10, ReadEffect, <1>1, TaskNames DEF Transferring
  <2>2. Advance(Sensor, chip.ctrl) /\ call[Sensor].at = 1
    BY Zenon, <1>1, <1>4, <1>10, <2>1, ReadEffect, CtrlNames, TaskNames
  <2>3. call'[Sensor].fn = "ltr390_set_mode" /\ call'[Sensor].at = 1 + 1
    BY Zenon, <1>1, <1>4, <2>1, <2>2, AdvanceEffect, TaskNames
  <2>4. call'[Sensor].at <= 2
    BY <2>3
  <2>5. QED
    BY Zenon, <1>3, <1>7, <2>3, <2>4 DEF WrongInv, Toggling
<1>11. CASE GiveMutex(Sensor)
  <2>1. InCall(Sensor)
    BY Zenon, <1>11 DEF GiveMutex
  <2>2. Gives(Sensor) /\ chip' = chip
    BY Zenon, <1>1, <1>4, <1>11, <2>1, GiveMutexBus, CtrlNames, TaskNames DEF GiveMutex, chips
  <2>3. /\ call'[Sensor].fn = "ltr390_set_mode" /\ call'[Sensor].arg = call[Sensor].arg
        /\ call'[Sensor].at = call[Sensor].at + 1 /\ call[Sensor].at = 2 + 1
    BY Zenon, <1>1, <1>4, <2>1, <2>2, GivesEffect, CtrlNames, TaskNames DEF Gives
  <2>4. ~(call[Sensor].at <= 2) /\ call'[Sensor].at >= 3 /\ InCall(Sensor)'
    BY <2>3 DEF InCall
  <2>5. KeepsMode /\ chip.ctrl.mode = call[Sensor].arg
    BY Zenon, <1>3, <2>1, <2>4 DEF WrongInv
  <2>6. KeepsMode'
    BY Zenon, <1>1, <2>2, <2>5, StepKeepsMode, TaskNames
  <2>7. QED
    BY Zenon, <1>3, <1>7, <2>2, <2>3, <2>4, <2>5, <2>6 DEF WrongInv, Toggling
<1>12. CASE Finish(Sensor)
  <2>1. InCall(Sensor)
    BY Zenon, <1>12 DEF Finish
  <2>2. /\ call[Sensor].at = 2 + 2 /\ st'.mode = call[Sensor].arg /\ chip' = chip
        /\ call'[Sensor].fn = "none"
    BY Zenon, <1>1, <1>4, <1>12, <2>1, FinishEffect, FinishBus, FinishesEffect, CtrlNames, TaskNames DEF chips
  <2>3. ~(call[Sensor].at <= 2)
    BY <2>2
  <2>4. KeepsMode /\ chip.ctrl.mode = call[Sensor].arg
    BY Zenon, <1>3, <2>1, <2>3 DEF WrongInv
  <2>5. KeepsMode'
    BY Zenon, <1>1, <1>12, <2>2, <2>4, FinishBus, StepKeepsMode, TaskNames
  <2>6. ReadingsAgree' /\ ~Toggling'
    <3>1. "none" # "ltr390_read" /\ "none" # "ltr390_set_mode"
      OBVIOUS
    <3>2. sen'.at \notin {"select", "recheck", "convert"}
      BY <1>6
    <3>3. QED
      BY Zenon, <1>7, <2>2, <2>4, <3>1, <3>2 DEF ReadingsAgree, Toggling
  <2>7. QED
    BY Zenon, <1>3, <2>5, <2>6 DEF WrongInv
<1>13. QED
  BY Zenon, <1>2, <1>8, <1>9, <1>10, <1>11, <1>12

(* A measurement and a reading see the mode that the driver believes. *)
LEMMA WrongRead ==
  ASSUME BaseInv, WrongInv, DriverStep(Sensor), wrong' # 0, ~Toggling
  PROVE  WrongInv'
<1>1. /\ TypeOK /\ ArgInv /\ PlaceInv /\ HolderInv /\ MqttInv /\ BootInv /\ SensorInv
  BY Zenon DEF BaseInv
<1>2. /\ wrong' = wrong /\ wrong = 1 /\ KeepsMode /\ ReadingsAgree
      /\ \/ Takes(Sensor) /\ chip' = chip /\ st' = st /\ sen' = sen
         \/ Write(Sensor)
         \/ Read(Sensor)
         \/ GiveMutex(Sensor)
         \/ Finish(Sensor)
  BY Zenon, WrongSteps, TaskNames DEF WrongInv
<1>3. wrong > 0 /\ wrong' > 0 /\ wrong' = 1
  BY <1>2
<1>4. /\ sen'.at = sen.at /\ sen'.label = sen.label /\ sen'.source = sen.source
      /\ call[Sensor].fn # "ltr390_read" => sen' = sen
  BY Zenon, <1>1, DriverKeeps, TaskNames
<1>5. todo'[Sensor] = <<>> /\ JobFn(Sensor)' = call'[Sensor].fn
  BY Zenon, <1>1, SensorJob DEF JobFn
<1>6. InCall(Sensor) => /\ call[Sensor].fn \in {"ltr390_read", MeasureCall}
                        /\ call[Sensor].fn \notin StoringCalls /\ call[Sensor].fn \notin CtrlCalls
                        /\ call[Sensor].fn # "ltr390_init" /\ call[Sensor].at \in Nat
  <2>1. InCall(Sensor) => JobFn(Sensor) = call[Sensor].fn /\ ~Idle(Sensor)
    BY Zenon DEF JobFn, Idle
  <2>2. InCall(Sensor) => call[Sensor].fn \in {"ltr390_read", MeasureCall}
    BY Zenon, <1>1, <2>1 DEF SensorInv, Toggling
  <2>3. /\ "ltr390_read" \notin StoringCalls /\ MeasureCall \notin StoringCalls
        /\ "ltr390_read" # "ltr390_init" /\ MeasureCall # "ltr390_init"
    BY DEF StoringCalls, MeasureCall
  <2>4. QED
    BY Zenon, <1>1, <2>2, <2>3, CtrlNames, CallTyped, TaskNames
<1>7. ASSUME call'[Sensor].fn # "ltr390_set_mode", chip'.ctrl.mode = chip.ctrl.mode, st' = st, KeepsMode',
             \/ call'[Sensor].fn = "ltr390_read" /\ call'[Sensor].at = 3
             \/ sen.at = "convert" /\ Returned(Sensor, "ok")'
             => sen'.taken = st.mode
      PROVE  WrongInv'
  <2>1. ReadingsAgree'
    BY Zenon, <1>2, <1>4, <1>7 DEF ReadingsAgree
  <2>2. QED
    BY Zenon, <1>3, <1>5, <1>7, <2>1 DEF WrongInv, Toggling
<1>8. CASE Takes(Sensor) /\ chip' = chip /\ st' = st /\ sen' = sen
  <2>1. /\ call'[Sensor].fn = JobFn(Sensor) /\ call'[Sensor].at = 1 /\ call'[Sensor].fn \in DriverCalls
    BY Zenon, <1>1, <1>8, TakesEffect, TaskNames DEF Takes, JobFn
  <2>2. call'[Sensor].at # 3 /\ InCall(Sensor)'
    <3>1. "none" \notin DriverCalls
      BY Zenon, CallNames DEF LtrCalls
    <3>2. QED
      BY <2>1, <3>1 DEF InCall
  <2>3. KeepsMode'
    BY Zenon, <1>1, <1>2, <1>8, StepKeepsMode, TaskNames
  <2>4. QED
    BY Zenon, <1>7, <1>8, <2>1, <2>2, <2>3 DEF Toggling, Returned, Idle
<1>9. CASE Write(Sensor)
  <2>1. InCall(Sensor) /\ Transferring(Sensor) /\ Transfer(Sensor)[1] = "write"
    BY Zenon, <1>9 DEF Write, Transferring
  <2>2. /\ chip'.ctrl.mode = chip.ctrl.mode /\ KeepsMode' /\ st' = st
        /\ call'[Sensor].fn = call[Sensor].fn
    <3>1. call[Sensor].fn # "ltr390_set_mode" /\ call[Sensor].fn \notin Enabling
      BY Zenon, <1>6, <2>1, CtrlNames
    <3>2. QED
      BY Zenon, <1>1, <1>2, <1>6, <1>9, <2>1, <3>1, WriteMode, TaskNames
  <2>3. call[Sensor].fn # "ltr390_read"
    <3>1. CASE call[Sensor].fn = "ltr390_read"
      <4>1. Transfers["ltr390_read"] = <<Rd("status"), Rd("data")>>
        BY Zenon, LtrTable
      <4>2. /\ Len(Transfers["ltr390_read"]) = 2
            /\ \A k \in 1 .. 2 : ~(Transfers["ltr390_read"][k][1] = "write")
        BY <4>1, TwoReads
      <4>3. QED
        BY Zenon, <1>1, <2>1, <3>1, <4>2, AtPlace, TaskNames
    <3>2. QED
      BY Zenon, <3>1
  <2>4. InCall(Sensor)'
    BY Zenon, <2>1, <2>2 DEF InCall
  <2>5. call'[Sensor].fn # "ltr390_set_mode"
    BY Zenon, <1>6, <2>1, <2>2, CtrlNames
  <2>6. QED
    BY Zenon, <1>7, <2>2, <2>3, <2>4, <2>5 DEF Returned, Idle
<1>10. CASE Read(Sensor)
  <2>1. InCall(Sensor)
    BY Zenon, <1>1, <1>10, ReadEffect, TaskNames DEF Transferring
  <2>2. /\ Ends(Sensor) \/ Advances(Sensor)
        /\ Ends(Sensor) => Return(Sensor, "error")
        /\ chip'.ctrl = chip.ctrl /\ st' = st
        /\ call[Sensor].fn = "ltr390_read" /\ call[Sensor].at = 2 => sen'.taken = chip.ctrl.mode
    BY Zenon, <1>1, <1>6, <1>10, <2>1, ReadEffect, TaskNames
  <2>3. KeepsMode'
    BY Zenon, <1>1, <1>2, <1>10, ReadKeepsMode, TaskNames
  <2>4. CASE Ends(Sensor)
    <3>1. call'[Sensor] = NoCall("error")
      BY Zenon, <1>1, <2>2, <2>4, NewCallEffect, TaskNames DEF Return
    <3>2. call'[Sensor].fn = "none" /\ call'[Sensor].result = "error"
      BY Zenon, <3>1, NoCallTyped
    <3>3. "error" # "ok" /\ "none" # "ltr390_read" /\ "none" # "ltr390_set_mode"
      OBVIOUS
    <3>4. QED
      BY Zenon, <1>7, <2>2, <2>3, <3>2, <3>3 DEF Returned
  <2>5. CASE Advances(Sensor)
    <3>1. call'[Sensor].fn = call[Sensor].fn /\ call'[Sensor].at = call[Sensor].at + 1
      BY Zenon, <1>1, <2>5, AdvancesEffect, TaskNames
    <3>2. call'[Sensor].at = 3 => call[Sensor].at = 2
      BY <1>6, <2>1, <3>1
    <3>3. call'[Sensor].fn = "ltr390_read" /\ call'[Sensor].at = 3 => sen'.taken = st.mode
      BY Zenon, <1>2, <2>2, <3>1, <3>2 DEF ReadingsAgree
    <3>4. InCall(Sensor)' /\ call'[Sensor].fn # "ltr390_set_mode"
      BY Zenon, <1>6, <2>1, <3>1, CtrlNames DEF InCall
    <3>5. QED
      BY Zenon, <1>7, <2>2, <2>3, <3>3, <3>4 DEF Returned, Idle
  <2>6. QED
    BY Zenon, <2>2, <2>4, <2>5
<1>11. CASE GiveMutex(Sensor)
  <2>1. /\ InCall(Sensor) /\ call[Sensor].at = Len(Transfers[call[Sensor].fn]) + 1
        /\ chip' = chip /\ st' = st /\ sen' = sen
    BY Zenon, <1>11 DEF GiveMutex, ram, chips
  <2>2. Ends(Sensor)
    BY Zenon, <1>1, <1>6, <1>11, <2>1, GiveMutexBus, TaskNames DEF Gives
  <2>3. call'[Sensor].fn = "none" /\ "none" # "ltr390_read" /\ "none" # "ltr390_set_mode"
    BY Zenon, <1>1, <2>2, EndsEffect, TaskNames
  <2>4. KeepsMode'
    BY Zenon, <1>1, <1>2, <2>1, <2>2, StepKeepsMode, TaskNames
  <2>5. sen.at = "convert" => sen.taken = st.mode
    <3>1. sen.at = "convert" => call[Sensor].fn = "ltr390_read"
      <4>1. JobFn(Sensor) = call[Sensor].fn /\ ~Idle(Sensor)
        BY Zenon, <2>1 DEF JobFn, Idle
      <4>2. "convert" # "thermo" /\ "convert" # "reset"
        OBVIOUS
      <4>3. QED
        BY Zenon, <1>1, <4>1, <4>2 DEF SensorInv
    <3>2. call[Sensor].fn = "ltr390_read" => call[Sensor].at = 3
      <4>1. Len(Transfers["ltr390_read"]) = 2
        BY Zenon, CallNames, PlacesOf DEF Lengths, LtrCalls
      <4>2. call[Sensor].fn = "ltr390_read" => call[Sensor].at = 2 + 1
        BY Zenon, <2>1, <4>1
      <4>3. QED
        BY <4>2
    <3>3. QED
      BY Zenon, <1>2, <3>1, <3>2 DEF ReadingsAgree
  <2>6. QED
    BY Zenon, <1>7, <2>1, <2>3, <2>4, <2>5
<1>12. CASE Finish(Sensor)
  BY Zenon, <1>1, <1>6, <1>12, FinishEffect, TaskNames DEF Finish
<1>13. QED
  BY Zenon, <1>2, <1>8, <1>9, <1>10, <1>11, <1>12

(* The sensor task labels a reading, selects its data and toggles the mode. *)
LEMMA WrongSensor ==
  ASSUME BaseInv, WrongInv, SensorTask
  PROVE  WrongInv'
<1>1. TypeOK /\ SensorInv /\ st' = st /\ chip' = chip /\ call' = call /\ Idle(Sensor)
  BY Zenon, SensorKeeps DEF BaseInv
<1>2. ~InCall(Sensor) /\ ~InCall(Sensor)' /\ call'[Sensor].fn = "none" /\ JobFn(Sensor) = "none"
  BY Zenon, <1>1 DEF Idle, InCall, JobFn
<1>3. ~Toggling /\ "none" # "ltr390_read" /\ "none" # "ltr390_set_mode" /\ "ltr390_read" # "ltr390_set_mode"
  BY <1>2 DEF Toggling
<1>4. wrong > 0 => wrong = 1 /\ KeepsMode /\ KeepsMode' /\ ReadingsAgree
  BY Zenon, <1>1, <1>3 DEF WrongInv, KeepsMode
<1>5. wrong \in Nat
  BY Zenon, <1>1 DEF TypeOK
<1>6. todo' = todo => ~Toggling'
  BY Zenon, <1>1, <1>2, <1>3 DEF Toggling, JobFn, Idle
<1>7. ASSUME NEW fn, NEW n, todo' = [todo EXCEPT ![Sensor] = << <<fn, n>> >>]
      PROVE  JobFn(Sensor)' = fn /\ ~Returned(Sensor, "ok")'
  <2>1. todo'[Sensor] = << <<fn, n>> >>
    BY Zenon, <1>1, <1>7, NewTodoEffect, TaskNames
  <2>2. << <<fn, n>> >> # <<>> /\ Head(<< <<fn, n>> >>) = <<fn, n>>
    BY Zenon, OneStepList
  <2>3. todo'[Sensor] # <<>> /\ Head(todo'[Sensor]) = <<fn, n>>
    BY Zenon, <2>1, <2>2
  <2>4. Head(todo'[Sensor])[1] = fn
    BY Zenon, <2>3, PairParts
  <2>5. JobFn(Sensor)' = Head(todo'[Sensor])[1]
    BY Zenon, <1>2, <2>3 DEF JobFn
  <2>6. QED
    BY Zenon, <2>3, <2>4, <2>5 DEF Returned, Idle
<1>sen. sen \in SenRec /\ NewSen \in SenRec
  BY Zenon, <1>1, NewData DEF TypeOK, SenRec
<1>8. \A p : /\ [NewSen EXCEPT !.at = p].at = p /\ [sen EXCEPT !.at = p].at = p
             /\ [sen EXCEPT !.at = p].label = sen.label /\ [sen EXCEPT !.at = p].source = sen.source
  BY Zenon, <1>sen DEF SenRec
<1>9. ASSUME wrong' = wrong, ~Toggling',
             ReadingsAgree => /\ sen'.at \in {"select", "recheck", "convert"} => sen'.label = st.mode
                              /\ sen'.at \in {"recheck", "convert"} => sen'.source = st.mode,
             ~(sen'.at = "convert" /\ Returned(Sensor, "ok")')
      PROVE  WrongInv'
  <2>1. wrong > 0 => ReadingsAgree'
    BY Zenon, <1>1, <1>2, <1>3, <1>4, <1>9 DEF ReadingsAgree
  <2>2. QED
    BY Zenon, <1>4, <1>9, <2>1 DEF WrongInv
<1>10. ASSUME wrong' = wrong, ~Toggling', NEW p, p \notin {"select", "recheck", "convert"}, sen'.at = p
       PROVE  WrongInv'
  <2>1. p # "convert" /\ p \notin {"recheck", "convert"}
    BY <1>10
  <2>2. QED
    BY Zenon, <1>9, <1>10, <2>1
<1>11. /\ "thermo" \notin {"select", "recheck", "convert"} /\ "ltr390" \notin {"select", "recheck", "convert"}
       /\ "mode" \notin {"select", "recheck", "convert"}
       /\ "reset" \notin {"select", "recheck", "convert"} /\ "heater" \notin {"select", "recheck", "convert"}
       /\ "select" \notin {"recheck", "convert"} /\ "recheck" # "convert" /\ "select" # "convert"
  OBVIOUS
<1>12. CASE LtrLabel
  <2>1. wrong' = wrong /\ todo' = todo
    BY Zenon, <1>12 DEF LtrLabel, bus, history
  <2>2. CASE sen' = [sen EXCEPT !.at = "select", !.label = st.mode]
    <3>1. sen'.at = "select" /\ sen'.label = st.mode
      BY Zenon, <1>sen, <2>2 DEF SenRec
    <3>2. QED
      BY Zenon, <1>6, <1>9, <1>11, <2>1, <3>1
  <2>3. CASE sen' = [sen EXCEPT !.at = "thermo"]
    BY Zenon, <1>6, <1>8, <1>10, <1>11, <2>1, <2>3
  <2>4. QED
    BY Zenon, <1>12, <2>2, <2>3 DEF LtrLabel
<1>13. CASE LtrSelect
  <2>1. /\ wrong' = wrong /\ todo' = todo /\ sen.at = "select"
        /\ sen' = [sen EXCEPT !.at = "recheck", !.source = st.mode]
    BY Zenon, <1>13 DEF LtrSelect, SensorAt, bus, history
  <2>2. sen'.at = "recheck" /\ sen'.source = st.mode /\ sen'.label = sen.label
    BY Zenon, <1>sen, <2>1 DEF SenRec
  <2>3. ReadingsAgree => sen.label = st.mode
    BY Zenon, <2>1 DEF ReadingsAgree
  <2>4. QED
    BY Zenon, <1>6, <1>9, <1>11, <2>1, <2>2, <2>3
<1>14. CASE LtrRead
  <2>1. wrong' = wrong /\ sen.at = "recheck"
    BY Zenon, <1>14 DEF LtrRead, SensorAt, history
  <2>2. CASE sen' = [sen EXCEPT !.at = "convert"] /\ todo' = [todo EXCEPT ![Sensor] = << <<"ltr390_read", 0>> >>]
    <3>1. sen'.at = "convert" /\ sen'.label = sen.label /\ sen'.source = sen.source
      BY Zenon, <1>8, <2>2
    <3>2. ReadingsAgree => sen.label = st.mode /\ sen.source = st.mode
      BY Zenon, <2>1 DEF ReadingsAgree
    <3>3. ~Toggling' /\ ~Returned(Sensor, "ok")'
      BY Zenon, <1>3, <1>7, <2>2 DEF Toggling
    <3>4. QED
      BY Zenon, <1>9, <2>1, <3>1, <3>2, <3>3
  <2>3. CASE sen' = [NewSen EXCEPT !.at = "thermo"] /\ todo' = todo
    BY Zenon, <1>6, <1>8, <1>10, <1>11, <2>1, <2>3
  <2>4. QED
    BY Zenon, <1>14, <2>2, <2>3 DEF LtrRead, Go, Leave, Calls
<1>15. CASE LtrReading
  <2>1. /\ sen.at = "convert" /\ Returned(Sensor, "ok")
        /\ todo' = [todo EXCEPT ![Sensor] = << <<"ltr390_set_mode", 1 - sen.label>> >>]
        /\ wrong' = IF Right THEN 0 ELSE wrong + 1
    BY Zenon, <1>15 DEF LtrReading, SensorAt, Calls
  <2>2. wrong > 0 => Right
    BY Zenon, <1>4, <2>1 DEF ReadingsAgree, Right
  <2>3. Toggling' /\ ~InCall(Sensor)'
    BY Zenon, <1>2, <1>7, <2>1 DEF Toggling
  <2>4. wrong' > 0 => wrong' = 1
    BY <1>5, <2>1, <2>2
  <2>5. QED
    BY Zenon, <2>3, <2>4 DEF WrongInv
<1>16. CASE LtrNoReading
  <2>1. wrong' = wrong /\ todo' = todo /\ sen' = [NewSen EXCEPT !.at = "thermo"]
    BY Zenon, <1>16 DEF LtrNoReading, bus, history, Leave
  <2>2. QED
    BY Zenon, <1>6, <1>8, <1>10, <1>11, <2>1
<1>17. CASE ThermoMeasure
  <2>1. /\ wrong' = wrong /\ sen' = [sen EXCEPT !.at = "reset"]
        /\ todo' = [todo EXCEPT ![Sensor] = << <<MeasureCall, thermo.mode>> >>]
    BY Zenon, <1>17 DEF ThermoMeasure, history, Go, Calls
  <2>2. MeasureCall # "ltr390_set_mode"
    BY DEF MeasureCall
  <2>3. ~Toggling'
    BY Zenon, <1>7, <2>1, <2>2 DEF Toggling
  <2>4. QED
    BY Zenon, <1>8, <1>10, <1>11, <2>1, <2>3
<1>18. CASE ThermoEnabled \/ ThermoSwitch \/ ThermoReset
  <2>1. /\ wrong' = wrong /\ todo' = todo
        /\ \/ sen' = [NewSen EXCEPT !.at = "ltr390"] \/ sen' = [sen EXCEPT !.at = "heater"]
           \/ sen' = [sen EXCEPT !.at = "mode"]
    BY Zenon, <1>18 DEF ThermoEnabled, ThermoSwitch, ThermoReset, bus, history, Go, Leave
  <2>2. QED
    BY Zenon, <1>6, <1>8, <1>10, <1>11, <2>1
<1>19. QED
  BY Zenon, <1>12, <1>13, <1>14, <1>15, <1>16, <1>17, <1>18 DEF SensorTask

LEMMA WrongKept ==
  ASSUME BaseInv, WrongInv, [Next]_vars
  PROVE  WrongInv'
<1>1. TypeOK /\ BootInv
  BY Zenon DEF BaseInv
<1>2. CASE DriverStep(Main)
  BY Zenon, <1>2, NotWrong, WrongSteps, TaskNames
<1>3. CASE DriverStep(Sensor)
  BY Zenon, <1>3, NotWrong, WrongToggle, WrongRead
<1>4. CASE DriverStep(Mqtt)
  BY Zenon, <1>4, WrongMqtt
<1>5. CASE SensorTask
  BY Zenon, <1>5, WrongSensor
<1>6. CASE BootFails \/ ConversionAborts
  BY Zenon, <1>6, NotWrong DEF BootFails, ConversionAborts, Error
<1>7. ASSUME call' = call, st' = st, chip'.ctrl = chip.ctrl, sen' = sen, wrong' = wrong, todo'[Sensor] = todo[Sensor]
      PROVE  WrongInv'
  <2>1. KeepsMode => KeepsMode'
    BY Zenon, <1>7 DEF KeepsMode
  <2>2. QED
    BY Zenon, <1>7, <2>1, WrongFrame
<1>8. CASE MqttTask
  <2>1. /\ call' = call /\ st' = st /\ chip' = chip /\ sen' = sen /\ wrong' = wrong
        /\ \E l : todo' = [todo EXCEPT ![Mqtt] = l]
    BY Zenon, <1>1, <1>8, MqttKeeps
  <2>2. todo'[Sensor] = todo[Sensor]
    BY Zenon, <1>1, <2>1, NewTodoEffect, TaskNames
  <2>3. QED
    BY Zenon, <1>7, <2>1, <2>2
<1>9. CASE ChipMeasures
  <2>1. chip'.ctrl = chip.ctrl
    <3>1. chip' = [chip EXCEPT !.ready = TRUE] /\ chip \in ChipRec
      BY Zenon, <1>1, <1>9 DEF ChipMeasures, TypeOK, ChipRec
    <3>2. QED
      BY Zenon, <3>1 DEF ChipRec
  <2>2. QED
    BY Zenon, <1>7, <1>9, <2>1 DEF ChipMeasures, bus, ram, history
<1>10. CASE UNCHANGED vars
  BY Zenon, <1>7, <1>10 DEF vars, bus, ram, chips, history
<1>11. QED
  BY Zenon, <1>2, <1>3, <1>4, <1>5, <1>6, <1>8, <1>9, <1>10, TaskNames DEF Next, Driver, DriverStep

(* The toggle and a command may write and store the mode in different orders: one   *)
(* reading is wrong then, never two in a row, as the toggle that follows it writes  *)
(* and stores the same mode.                                                        *)
THEOREM ToggleHeals == Spec => []WrongReadingsHeal
<1>1. Init => WrongInv
  <2>1. SUFFICES ASSUME Init PROVE WrongInv
    OBVIOUS
  <2>2. ~(wrong > 0)
    BY <2>1 DEF Init
  <2>3. QED
    BY Zenon, <2>2 DEF WrongInv
<1>2. BaseInv /\ WrongInv /\ [Next]_vars => WrongInv'
  BY Zenon, WrongKept
<1>3. BaseInv /\ WrongInv => WrongReadingsHeal
  BY DEF BaseInv, TypeOK, WrongInv, WrongReadingsHeal
<1>4. QED
  BY <1>1, <1>2, <1>3, BaseAlways, PTL DEF Spec
=============================================================================
