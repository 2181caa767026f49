----------------------------- MODULE DeviceProofs -----------------------------
(***************************************************************************)
(* The device, for any commands, animations and ring buffer: one update at *)
(* a time holds the partition, the light that is left on is one that was   *)
(* asked for, and a device that goes to sleep offline has written what it  *)
(* had in memory.                                                          *)
(***************************************************************************)
EXTENDS Device, SequenceTheorems, TLAPS

--------------------------------------------------------------------------------
(* The steps of the device, as its parts see them *)

LEMMA OtaPart ==
  ASSUME Next
  PROVE  otaVars' = otaVars \/ \E t \in OtaTasks : OtaCreate(t) \/ OtaTask(t)
<1>1. CASE Connection
  BY Zenon, <1>1 DEF Connection, Connects, CannotConnect, Disconnects, ClientMoves,
     Watchdog, WatchdogCounts, WatchdogStops, WatchdogClears, WatchdogStarts, WatchdogSets, WatchdogCall
<1>2. CASE CommandArrives \/ Click \/ Led
  BY Zenon, <1>2 DEF CommandArrives, Click, Led
<1>3. CASE Dispatch
  BY Zenon, <1>3 DEF Dispatch, OtaHandler, LedHandler, OtherHandler, Respond, OtaBusy, OtaCreateFails
<1>4. CASE Pipeline
  BY Zenon, <1>4 DEF Pipeline, Measure, SendTakes, SendQueues, SendDrained, Writer, WriterWakes, WriterPauses,
     WriterResumes, WriterWrites, WriterEmpty, WriterClearsHigh, WriterDone, PipeRest
<1>5. CASE Button
  BY Zenon, <1>5 DEF Button, BtnFirst, BtnSecond, BtnTimeout, BtnRest, WifiWake, SleepPlays, BtnPlays,
     MqttStopClears, MqttStopClient, MqttStopSuspends, SensorStopPolling, SensorStopReader, SensorStopSender,
     SensorStopHigh, SensorStopWriter, StopStep, DeepSleep
<1>6. CASE Ota
  BY Zenon, <1>6 DEF Ota
<1>7. CASE Restart
  BY Zenon, <1>7 DEF Restart
<1>8. QED
  BY Zenon, <1>1, <1>2, <1>3, <1>4, <1>5, <1>6, <1>7 DEF Next

(* What blinky_play queues: what a command asks for, and what the button plays *)
Played == LedAnimations \cup {SleepAnimation, WakeAnimation}

LEMMA LedPart ==
  ASSUME Next
  PROVE  blinkyVars' = blinkyVars \/ LedTask \/ \E a \in Played : blinky_play(a)
<1>1. CASE Connection
  BY Zenon, <1>1 DEF Connection, Connects, CannotConnect, Disconnects, ClientMoves,
     Watchdog, WatchdogCounts, WatchdogStops, WatchdogClears, WatchdogStarts, WatchdogSets, WatchdogCall
<1>2. CASE CommandArrives \/ Click \/ Led
  BY Zenon, <1>2 DEF CommandArrives, Click, Led
<1>3. CASE Dispatch
  BY Zenon, <1>3 DEF Dispatch, OtaHandler, LedHandler, OtherHandler, Respond, QueueTimesOut, Played
<1>4. CASE Pipeline
  BY Zenon, <1>4 DEF Pipeline, Measure, SendTakes, SendQueues, SendDrained, Writer, WriterWakes, WriterPauses,
     WriterResumes, WriterWrites, WriterEmpty, WriterClearsHigh, WriterDone, PipeRest
<1>5. CASE Button
  BY Zenon, <1>5 DEF Button, BtnFirst, BtnSecond, BtnTimeout, BtnRest, WifiWake, SleepPlays, BtnPlays,
     MqttStopClears, MqttStopClient, MqttStopSuspends, SensorStopPolling, SensorStopReader, SensorStopSender,
     SensorStopHigh, SensorStopWriter, StopStep, DeepSleep, Played
<1>6. CASE Ota
  BY Zenon, <1>6 DEF Ota
<1>7. CASE Restart
  BY Zenon, <1>7 DEF Restart
<1>8. QED
  BY Zenon, <1>1, <1>2, <1>3, <1>4, <1>5, <1>6, <1>7 DEF Next

--------------------------------------------------------------------------------
(* The update: the tasks before the clear are the one that the handle names. *)

OtaRec == [pc : {"none", "begin", "desc", "validate", "perform", "complete",
                 "finish", "restart", "abort", "clear", "delete"},
           handle : {"null", "open", "closed"}]

OtaInv ==
  /\ OtaTypeOK
  /\ \A t \in OtaTasks :
       /\ ota[t].pc \notin {"none", "delete"} => update_task_handle = t
       /\ ota[t].handle = "open" => ota[t].pc \in {"desc", "validate", "perform", "complete", "finish", "abort"}

LEMMA OtaStepKeeps ==
  ASSUME OtaInv, NEW t \in OtaTasks, NEW from, NEW to, NEW before, NEW after, OtaStep(t, from, to, before, after),
         [pc |-> to, handle |-> after] \in OtaRec, from \notin {"none", "delete"},
         after = "open" => to \in {"desc", "validate", "perform", "complete", "finish", "abort"}
  PROVE  OtaInv'
<1>1. ota \in [OtaTasks -> OtaRec] /\ update_task_handle \in OtaTasks \cup {NoTask}
  BY Zenon DEF OtaInv, OtaTypeOK, OtaRec
<1>2. /\ ota' = [ota EXCEPT ![t] = [pc |-> to, handle |-> after]] /\ ota[t].pc = from
      /\ update_task_handle' = update_task_handle
  BY Zenon DEF OtaStep
<1>3. /\ ota' \in [OtaTasks -> OtaRec] /\ ota'[t].pc = to /\ ota'[t].handle = after
      /\ \A u \in OtaTasks : u # t => ota'[u] = ota[u]
  BY Zenon, <1>1, <1>2
<1>4. update_task_handle = t
  BY Zenon, <1>2 DEF OtaInv
<1>5. OtaTypeOK'
  BY Zenon, <1>1, <1>2, <1>3 DEF OtaTypeOK, OtaRec
<1>6. QED
  BY Zenon, <1>2, <1>3, <1>4, <1>5 DEF OtaInv

LEMMA OtaKept ==
  ASSUME OtaInv, [Next]_vars
  PROVE  OtaInv'
<1>1. ota \in [OtaTasks -> OtaRec] /\ update_task_handle \in OtaTasks \cup {NoTask}
  BY Zenon DEF OtaInv, OtaTypeOK, OtaRec
<1>2. CASE otaVars' = otaVars
  BY Zenon, <1>2 DEF otaVars, OtaInv, OtaTypeOK
<1>3. ASSUME NEW t \in OtaTasks, OtaCreate(t)
      PROVE  OtaInv'
  <2>1. /\ update_task_handle = NoTask /\ update_task_handle' = t
        /\ ota' = [ota EXCEPT ![t] = [pc |-> "begin", handle |-> "null"]]
    BY Zenon, <1>3 DEF OtaCreate
  <2>2. [pc |-> "begin", handle |-> "null"] \in OtaRec
    BY Zenon DEF OtaRec
  <2>3. /\ ota' \in [OtaTasks -> OtaRec] /\ ota'[t] = [pc |-> "begin", handle |-> "null"]
        /\ \A u \in OtaTasks : u # t => ota'[u] = ota[u]
    BY Zenon, <1>1, <2>1, <2>2
  <2>4. \A u \in OtaTasks : ota[u].pc \in {"none", "delete"}
    BY Zenon, <2>1, OtaMgrAssumption DEF OtaInv
  <2>5. OtaTypeOK'
    BY Zenon, <2>1, <2>3 DEF OtaTypeOK, OtaRec
  <2>6. QED
    BY Zenon, <2>1, <2>3, <2>4, <2>5 DEF OtaInv
<1>4. ASSUME NEW t \in OtaTasks, OtaClear(t)
      PROVE  OtaInv'
  <2>1. /\ ota[t].pc = "clear" /\ update_task_handle' = NoTask /\ ota' = [ota EXCEPT ![t].pc = "delete"]
    BY Zenon, <1>4 DEF OtaClear
  <2>2. /\ ota' \in [OtaTasks -> OtaRec] /\ ota'[t].pc = "delete" /\ ota'[t].handle = ota[t].handle
        /\ \A u \in OtaTasks : u # t => ota'[u] = ota[u]
    BY Zenon, <1>1, <2>1 DEF OtaRec
  <2>3. update_task_handle = t /\ ota[t].handle # "open"
    BY Zenon, <2>1 DEF OtaInv
  <2>4. \A u \in OtaTasks : u # t => ota[u].pc \in {"none", "delete"}
    BY Zenon, <2>3 DEF OtaInv
  <2>5. OtaTypeOK'
    BY Zenon, <2>1, <2>2 DEF OtaTypeOK, OtaRec
  <2>6. QED
    BY Zenon, <2>1, <2>2, <2>3, <2>4, <2>5 DEF OtaInv
<1>5. ASSUME NEW t \in OtaTasks, OtaDelete(t)
      PROVE  OtaInv'
  <2>1. /\ ota' = [ota EXCEPT ![t] = [pc |-> "none", handle |-> "null"]]
        /\ update_task_handle' = update_task_handle
    BY Zenon, <1>5 DEF OtaDelete
  <2>2. [pc |-> "none", handle |-> "null"] \in OtaRec
    BY Zenon DEF OtaRec
  <2>3. /\ ota' \in [OtaTasks -> OtaRec] /\ ota'[t] = [pc |-> "none", handle |-> "null"]
        /\ \A u \in OtaTasks : u # t => ota'[u] = ota[u]
    BY Zenon, <1>1, <2>1, <2>2
  <2>4. OtaTypeOK'
    BY Zenon, <1>1, <2>1, <2>3 DEF OtaTypeOK, OtaRec
  <2>5. QED
    BY Zenon, <2>1, <2>3, <2>4 DEF OtaInv
<1>6. ASSUME NEW t \in OtaTasks, OtaTask(t)
      PROVE  OtaInv'
  <2>1. CASE OtaBegin(t) \/ OtaBeginFails(t)
    <3>1. "begin" \notin {"none", "delete"}
      OBVIOUS
    <3>2. "desc" \in {"desc", "validate", "perform", "complete", "finish", "abort"} /\ "null" # "open"
      OBVIOUS
    <3>3. [pc |-> "desc", handle |-> "open"] \in OtaRec /\ [pc |-> "abort", handle |-> "null"] \in OtaRec
      BY Zenon DEF OtaRec
    <3>4. CASE OtaStep(t, "begin", "desc", {"null"}, "open")
      BY Zenon, <3>1, <3>2, <3>3, <3>4, OtaStepKeeps
    <3>5. CASE OtaStep(t, "begin", "abort", {"null"}, "null")
      BY Zenon, <3>1, <3>2, <3>3, <3>5, OtaStepKeeps
    <3>6. QED
      BY Zenon, <2>1, <3>4, <3>5 DEF OtaBegin, OtaBeginFails
  <2>2. ASSUME NEW from \in {"desc", "validate", "perform", "complete"},
               NEW to \in {"validate", "perform", "complete", "finish", "abort"},
               OtaStep(t, from, to, {"open"}, "open")
        PROVE  OtaInv'
    <3>1. from \notin {"none", "delete"}
      OBVIOUS
    <3>2. to \in {"desc", "validate", "perform", "complete", "finish", "abort"}
      OBVIOUS
    <3>3. [pc |-> to, handle |-> "open"] \in OtaRec
      BY Zenon, <3>2 DEF OtaRec
    <3>4. QED
      BY Zenon, <2>2, <3>1, <3>2, <3>3, OtaStepKeeps
  <2>3. CASE OtaDesc(t) \/ OtaValidate(t) \/ OtaPerform(t) \/ OtaComplete(t) \/ OtaGivesUp(t)
    BY Zenon, <2>2, <2>3 DEF OtaDesc, OtaValidate, OtaPerform, OtaComplete, OtaGivesUp
  <2>4. ASSUME NEW from \in {"finish", "abort"}, NEW to \in {"restart", "abort", "clear"},
               NEW before, NEW after \in {"null", "closed"}, OtaStep(t, from, to, before, after)
        PROVE  OtaInv'
    <3>1. from \notin {"none", "delete"} /\ after # "open"
      OBVIOUS
    <3>2. [pc |-> to, handle |-> after] \in OtaRec
      BY Zenon DEF OtaRec
    <3>3. QED
      BY Zenon, <2>4, <3>1, <3>2, OtaStepKeeps
  <2>5. CASE OtaFinish(t) \/ OtaFinishFails(t) \/ OtaAbort(t) \/ OtaAbortClosed(t)
    BY Zenon, <2>4, <2>5 DEF OtaFinish, OtaFinishFails, OtaAbort, OtaAbortClosed
  <2>6. QED
    BY Zenon, <1>4, <1>5, <1>6, <2>1, <2>3, <2>5 DEF OtaTask
<1>7. CASE Next
  BY Zenon, <1>2, <1>3, <1>6, <1>7, OtaPart
<1>8. CASE UNCHANGED vars
  BY Zenon, <1>2, <1>8 DEF vars
<1>9. QED
  BY Zenon, <1>7, <1>8

LEMMA OtaAlways == Spec => []OtaInv
<1>1. Init => OtaInv
  <2>1. SUFFICES ASSUME Init PROVE OtaInv
    OBVIOUS
  <2>2. [pc |-> "none", handle |-> "null"] \in OtaRec
    BY Zenon DEF OtaRec
  <2>3. update_task_handle = NoTask /\ ota = [t \in OtaTasks |-> [pc |-> "none", handle |-> "null"]]
    BY Zenon, <2>1 DEF Init, OtaInit
  <2>4. QED
    BY Zenon, <2>2, <2>3 DEF OtaInv, OtaTypeOK, OtaRec
<1>2. OtaInv /\ [Next]_vars => OtaInv'
  BY Zenon, OtaKept
<1>3. QED
  BY <1>1, <1>2, PTL DEF Spec

(* At most one update task has the partition open, the one whose handle keeps the *)
(* next command out (otamgr_cmd_update_request), and none is deleted with it.     *)
THEOREM OneUpdateRuns == Spec => []OneUpdate
<1>1. OtaInv => OneUpdate
  BY Zenon DEF OtaInv, OneUpdate
<1>2. QED
  BY <1>1, OtaAlways, PTL

--------------------------------------------------------------------------------
(* The light: a LED that is lit is one that was left on, or the one that the     *)
(* animation being played draws on.                                              *)

(* The targets the protocol names. Any other LED number is drawn on the red LED, *)
(* and off_at_end then leaves it as it is (blinky.c, after the loop).            *)
KnownTargets == \A a \in LedAnimations : a.target \in Leds

LedInv ==
  /\ \A i \in 1 .. Len(blinky_queue) : blinky_queue[i].target \in Leds
  /\ led.anim.target \in Leds
  /\ \A l \in Leds : lit[l] => l \in leftOn \/ (led.pc # "receive" /\ l = Drawn(led.anim))

LedRec == [pc : {"receive", "play", "end"}, anim : Animations, idx : 0 .. IdxRange - 1, shown : BOOLEAN]

LEMMA PlayedTyped == Played \subseteq Animations
<1>1. /\ 3 \in 0 .. Forever /\ Forever \in 0 .. Forever
  BY SMT, BlinkyAssumption
<1>2. SleepAnimation \in Animations /\ WakeAnimation \in Animations
  BY Zenon, <1>1 DEF SleepAnimation, WakeAnimation, Animation, Animations, Patterns, Leds
<1>3. QED
  BY Zenon, <1>2, DeviceAssumption DEF Played

LEMMA LedQueueTyped ==
  ASSUME BlinkyTypeOK, blinky_queue # <<>>
  PROVE  /\ Head(blinky_queue) \in Animations /\ Head(blinky_queue) = blinky_queue[1]
         /\ Tail(blinky_queue) \in Seq(Animations) /\ Len(Tail(blinky_queue)) = Len(blinky_queue) - 1
         /\ \A i \in 1 .. Len(Tail(blinky_queue)) : Tail(blinky_queue)[i] = blinky_queue[i + 1]
         /\ Len(blinky_queue) \in Nat \ {0}
<1>1. blinky_queue \in Seq(Animations)
  BY Zenon DEF BlinkyTypeOK
<1>2. QED
  BY SMT, <1>1

(* blinky_play: the animation is the last of the queue *)
LEMMA PlayTyped ==
  ASSUME BlinkyTypeOK, NEW a \in Animations, blinky_play(a)
  PROVE  /\ BlinkyTypeOK'
         /\ \A i \in 1 .. Len(blinky_queue') : blinky_queue'[i] = a \/ (i \in 1 .. Len(blinky_queue) /\ blinky_queue'[i] = blinky_queue[i])
<1>1. blinky_queue \in Seq(Animations) /\ Len(blinky_queue) < 2 /\ blinky_queue' = Append(blinky_queue, a)
  BY Zenon DEF BlinkyTypeOK, blinky_play, QueueLength
<1>2. blinky_queue' \in Seq(Animations) /\ Len(blinky_queue') <= 2
  BY SMT, <1>1
<1>3. \A i \in 1 .. Len(blinky_queue') : blinky_queue'[i] = a \/ (i \in 1 .. Len(blinky_queue) /\ blinky_queue'[i] = blinky_queue[i])
  BY SMT, <1>1
<1>4. led' = led /\ lit' = lit /\ leftOn' = leftOn
  BY Zenon DEF blinky_play
<1>5. QED
  BY Zenon, <1>2, <1>3, <1>4 DEF BlinkyTypeOK, QueueLength

LEMMA DrawnLed == \A a : Drawn(a) \in Leds
BY Zenon DEF Drawn, Leds

(* off_at_end is for the LED that was drawn on *)
LEMMA DrawnTarget == ASSUME NEW a, a.target \in Leds PROVE Drawn(a) = a.target
BY DEF Drawn, Drawing, Leds

(* One frame: the LED of the animation is lit or dark, and only the repeat count *)
(* of the animation changes.                                                     *)
LEMMA FrameTyped ==
  ASSUME BlinkyTypeOK, LedFrame
  PROVE  /\ led' \in LedRec /\ lit' \in [Leds -> BOOLEAN]
         /\ led'.pc # "receive"
         /\ led'.anim.target = led.anim.target /\ led'.anim.pattern = led.anim.pattern
         /\ \A l \in Leds : l # Drawn(led.anim) => lit'[l] = lit[l]
         /\ UNCHANGED <<blinky_queue, leftOn>>
<1>. DEFINE rainbow == Drawing(led.anim) = "rainbow"
            over    == IF rainbow THEN led.idx > Lights ELSE led.idx % 2 = 1
            on      == rainbow \/ over
            repeat  == IF over THEN decr_repeat_count(led.anim.repeat) ELSE led.anim.repeat
            idx     == (IF rainbow /\ over THEN 1 ELSE led.idx + 1) % IdxRange
            anim    == [led.anim EXCEPT !.repeat = repeat]
<1>1. led \in LedRec /\ lit \in [Leds -> BOOLEAN]
  BY Zenon DEF BlinkyTypeOK, LedRec
<1>2. /\ lit' = [lit EXCEPT ![Drawn(led.anim)] = on]
      /\ led' = [led EXCEPT !.anim = anim, !.idx = idx, !.shown = led.shown \/ on,
                            !.pc = IF repeat # 0 THEN "play" ELSE "end"]
      /\ UNCHANGED <<blinky_queue, leftOn>>
  BY DEF LedFrame
<1>3. repeat \in 0 .. Forever
  <2>1. led.anim.repeat \in 0 .. Forever
    BY Zenon, <1>1 DEF LedRec, Animations
  <2>2. decr_repeat_count(led.anim.repeat) \in 0 .. Forever
    BY SMT, <2>1, BlinkyAssumption DEF decr_repeat_count
  <2>3. QED
    BY Zenon, <2>1, <2>2
<1>4. idx \in 0 .. IdxRange - 1
  <2>1. led.idx \in 0 .. IdxRange - 1
    BY Zenon, <1>1 DEF LedRec
  <2>2. IdxRange \in Nat \ {0}
    BY SMT, BlinkyAssumption
  <2>3. \A n \in Nat : n % IdxRange \in 0 .. IdxRange - 1
    BY SMT, <2>2
  <2>4. (IF rainbow /\ over THEN 1 ELSE led.idx + 1) \in Nat
    BY SMT, <2>1, <2>2
  <2>5. QED
    BY Zenon, <2>3, <2>4
<1>5. /\ anim \in Animations /\ anim.target = led.anim.target /\ anim.pattern = led.anim.pattern
  <2>1. led.anim \in Animations
    BY Zenon, <1>1 DEF LedRec
  <2>. HIDE DEF repeat
  <2>2. QED
    BY <1>3, <2>1 DEF Animations
<1>6. on \in BOOLEAN /\ led.shown \in BOOLEAN
  BY Zenon, <1>1 DEF LedRec
<1>7. (IF repeat # 0 THEN "play" ELSE "end") \in {"play", "end"}
  OBVIOUS
<1>. HIDE DEF rainbow, over, on, repeat, idx, anim
<1>8. led' \in LedRec /\ led'.pc \in {"play", "end"} /\ led'.anim = anim
  BY <1>1, <1>2, <1>4, <1>5, <1>6, <1>7 DEF LedRec
<1>9. lit' \in [Leds -> BOOLEAN] /\ \A l \in Leds : l # Drawn(led.anim) => lit'[l] = lit[l]
  BY Zenon, <1>1, <1>2, <1>6, DrawnLed
<1>10. QED
  BY Zenon, <1>2, <1>5, <1>8, <1>9

LEMMA LedTaskTyped ==
  ASSUME BlinkyTypeOK, LedTask
  PROVE  BlinkyTypeOK'
<1>1. led \in LedRec /\ lit \in [Leds -> BOOLEAN] /\ leftOn \subseteq Leds
  BY Zenon DEF BlinkyTypeOK, LedRec
<1>2. blinky_queue \in Seq(Animations) /\ Len(blinky_queue) <= 2
  BY Zenon DEF BlinkyTypeOK, QueueLength
<1>3. CASE LedReceive
  <2>1. blinky_queue # <<>> /\ blinky_queue' = Tail(blinky_queue) /\ lit' = lit /\ leftOn' = leftOn
    BY Zenon, <1>3 DEF LedReceive
  <2>2. led' \in LedRec
    BY <1>1, <1>3, <2>1, LedQueueTyped DEF LedReceive, LedRec
  <2>3. blinky_queue' \in Seq(Animations) /\ Len(blinky_queue') <= 2
    BY SMT, <1>2, <2>1
  <2>4. QED
    BY Zenon, <1>1, <2>1, <2>2, <2>3 DEF BlinkyTypeOK, LedRec, QueueLength
<1>4. CASE LedInterrupted
  <2>1. 0 \in 0 .. IdxRange - 1
    BY SMT, BlinkyAssumption
  <2>2. led' = [led EXCEPT !.idx = 0, !.pc = "end"] /\ UNCHANGED <<blinky_queue, lit, leftOn>>
    BY Zenon, <1>4 DEF LedInterrupted
  <2>3. led' \in LedRec
    BY <1>1, <2>1, <2>2 DEF LedRec
  <2>4. QED
    BY Zenon, <1>1, <1>2, <2>2, <2>3 DEF BlinkyTypeOK, LedRec, QueueLength
<1>5. CASE LedFrame
  BY Zenon, <1>1, <1>2, <1>5, FrameTyped DEF BlinkyTypeOK, LedRec, QueueLength
<1>6. CASE LedEnd
  <2>1. /\ lit' = [l \in Leds |-> lit[l] /\ ~(led.anim.off_at_end /\ led.anim.target = l)]
        /\ leftOn' = IF led.anim.off_at_end THEN leftOn \ {Drawn(led.anim)} ELSE leftOn \cup {Drawn(led.anim)}
        /\ led' = [led EXCEPT !.pc = "receive"]
        /\ blinky_queue' = blinky_queue
    BY Zenon, <1>6 DEF LedEnd
  <2>2. led' \in LedRec
    BY <1>1, <2>1 DEF LedRec
  <2>3. lit' \in [Leds -> BOOLEAN]
    BY Zenon, <1>1, <2>1
  <2>4. leftOn' \subseteq Leds
    BY Zenon, <1>1, <2>1, DrawnLed
  <2>5. QED
    BY Zenon, <1>2, <2>1, <2>2, <2>3, <2>4 DEF BlinkyTypeOK, LedRec, QueueLength
<1>7. QED
  BY Zenon, <1>3, <1>4, <1>5, <1>6 DEF LedTask

LEMMA BlinkyTyped ==
  ASSUME BlinkyTypeOK, [Next]_vars
  PROVE  BlinkyTypeOK'
<1>1. CASE blinkyVars' = blinkyVars
  BY Zenon, <1>1 DEF BlinkyTypeOK, blinkyVars
<1>2. CASE Next
  BY Zenon, <1>1, <1>2, LedPart, LedTaskTyped, PlayTyped, PlayedTyped
<1>3. QED
  BY Zenon, <1>1, <1>2 DEF vars

LEMMA InitialTyped == InitialAnimation \in Animations /\ InitialAnimation.target \in Leds
<1>1. 2 \in 0 .. Forever
  BY SMT, BlinkyAssumption
<1>2. QED
  BY Zenon, <1>1 DEF InitialAnimation, Animation, Animations, Patterns, Leds

LEMMA BlinkyStarts == Init => BlinkyTypeOK
<1>1. SUFFICES ASSUME Init PROVE BlinkyTypeOK
  OBVIOUS
<1>2. 0 \in 0 .. IdxRange - 1
  BY SMT, BlinkyAssumption
<1>3. blinky_queue = <<InitialAnimation>> /\ led = [pc |-> "receive", anim |-> InitialAnimation, idx |-> 0, shown |-> FALSE]
  BY Zenon, <1>1 DEF Init, BlinkyInit
<1>4. blinky_queue \in Seq(Animations) /\ Len(blinky_queue) <= 2
  BY SMT, <1>3, InitialTyped
<1>5. led \in LedRec
  BY <1>2, <1>3, InitialTyped DEF LedRec
<1>6. QED
  BY Zenon, <1>1, <1>4, <1>5 DEF Init, BlinkyInit, BlinkyTypeOK, LedRec, QueueLength

LEMMA LedKept ==
  ASSUME KnownTargets, BlinkyTypeOK, LedInv, [Next]_vars
  PROVE  LedInv'
<1>1. CASE blinkyVars' = blinkyVars
  BY Zenon, <1>1 DEF LedInv, blinkyVars
<1>2. ASSUME NEW a \in Played, blinky_play(a)
      PROVE  LedInv'
  <2>1. a \in Animations /\ a.target \in Leds
    <3>1. SleepAnimation.target \in Leds /\ WakeAnimation.target \in Leds
      BY Zenon DEF SleepAnimation, WakeAnimation, Animation, Leds
    <3>2. a \in LedAnimations \/ a = SleepAnimation \/ a = WakeAnimation
      BY Zenon DEF Played
    <3>3. QED
      BY Zenon, <3>1, <3>2, PlayedTyped DEF KnownTargets
  <2>2. \A i \in 1 .. Len(blinky_queue') : blinky_queue'[i].target \in Leds
    BY Zenon, <1>2, <2>1, PlayTyped DEF LedInv
  <2>3. led' = led /\ lit' = lit /\ leftOn' = leftOn
    BY Zenon, <1>2 DEF blinky_play
  <2>4. QED
    BY Zenon, <2>2, <2>3 DEF LedInv
<1>3. led \in LedRec /\ lit \in [Leds -> BOOLEAN] /\ leftOn \subseteq Leds
  BY Zenon DEF BlinkyTypeOK, LedRec
<1>4. CASE LedReceive
  <2>1. blinky_queue # <<>> /\ blinky_queue' = Tail(blinky_queue) /\ lit' = lit /\ leftOn' = leftOn /\ led.pc = "receive"
    BY Zenon, <1>4 DEF LedReceive
  <2>2. led'.anim = blinky_queue[1]
    BY Zenon, <1>3, <1>4, <2>1, LedQueueTyped DEF LedReceive, LedRec
  <2>3. 1 \in 1 .. Len(blinky_queue)
    BY SMT, <2>1, LedQueueTyped
  <2>4. \A i \in 1 .. Len(blinky_queue') : i + 1 \in 1 .. Len(blinky_queue)
    BY SMT, <2>1, LedQueueTyped
  <2>5. \A i \in 1 .. Len(blinky_queue') : blinky_queue'[i].target \in Leds
    BY Zenon, <2>1, <2>4, LedQueueTyped DEF LedInv
  <2>6. QED
    BY Zenon, <2>1, <2>2, <2>3, <2>5 DEF LedInv
<1>5. CASE LedInterrupted
  <2>1. led' = [led EXCEPT !.idx = 0, !.pc = "end"] /\ UNCHANGED <<blinky_queue, lit, leftOn>> /\ led.pc = "play"
    BY Zenon, <1>5 DEF LedInterrupted
  <2>2. led'.anim = led.anim /\ led'.pc = "end"
    BY Zenon, <1>3, <2>1 DEF LedRec
  <2>3. QED
    BY Zenon, <2>1, <2>2 DEF LedInv
<1>6. CASE LedFrame
  <2>1. Drawn(led'.anim) = Drawn(led.anim)
    BY Zenon, <1>6, FrameTyped DEF Drawn, Drawing
  <2>2. led.pc = "play"
    BY Zenon, <1>6 DEF LedFrame
  <2>3. \A l \in Leds : lit'[l] => l \in leftOn' \/ (led'.pc # "receive" /\ l = Drawn(led'.anim))
    BY Zenon, <1>6, <2>1, FrameTyped DEF LedInv
  <2>4. QED
    BY Zenon, <1>6, <2>3, FrameTyped DEF LedInv
<1>7. CASE LedEnd
  <2>1. /\ lit' = [l \in Leds |-> lit[l] /\ ~(led.anim.off_at_end /\ led.anim.target = l)]
        /\ leftOn' = IF led.anim.off_at_end THEN leftOn \ {Drawn(led.anim)} ELSE leftOn \cup {Drawn(led.anim)}
        /\ led' = [led EXCEPT !.pc = "receive"]
        /\ blinky_queue' = blinky_queue
    BY Zenon, <1>7 DEF LedEnd
  <2>2. led'.anim = led.anim
    BY Zenon, <1>3, <2>1 DEF LedRec
  <2>3. Drawn(led.anim) = led.anim.target
    BY Zenon, DrawnTarget DEF LedInv
  <2>4. \A l \in Leds : lit'[l] => l \in leftOn'
    <3>1. SUFFICES ASSUME NEW l \in Leds, lit'[l] PROVE l \in leftOn'
      OBVIOUS
    <3>2. lit[l] /\ ~(led.anim.off_at_end /\ led.anim.target = l)
      BY Zenon, <2>1, <3>1
    <3>3. l \in leftOn \/ l = Drawn(led.anim)
      BY Zenon, <3>2 DEF LedInv
    <3>4. QED
      BY Zenon, <2>1, <2>3, <3>2, <3>3
  <2>5. QED
    BY Zenon, <2>1, <2>2, <2>4 DEF LedInv
<1>8. CASE Next
  BY Zenon, <1>1, <1>2, <1>4, <1>5, <1>6, <1>7, <1>8, LedPart DEF LedTask
<1>9. QED
  BY Zenon, <1>1, <1>8 DEF vars

(* Neither the end of an animation nor its interruption leaves a light behind    *)
(* that the last animation drawn there did not ask for (blinky_rainbow_task),    *)
(* for every queue of animations that name one of the two LEDs.                  *)
THEOREM LeftOnWasAsked == ASSUME KnownTargets PROVE Spec => []LedsLeftOn
<1>1. Init => BlinkyTypeOK /\ LedInv
  <2>1. SUFFICES ASSUME Init PROVE LedInv
    BY Zenon, BlinkyStarts
  <2>2. /\ blinky_queue = <<InitialAnimation>> /\ led = [pc |-> "receive", anim |-> InitialAnimation, idx |-> 0, shown |-> FALSE]
        /\ lit = [l \in Leds |-> FALSE]
    BY Zenon, <2>1 DEF Init, BlinkyInit
  <2>3. \A i \in 1 .. Len(blinky_queue) : blinky_queue[i] = InitialAnimation
    BY SMT, <2>2
  <2>4. QED
    BY Zenon, <2>2, <2>3, InitialTyped DEF LedInv
<1>2. (BlinkyTypeOK /\ LedInv) /\ [Next]_vars => (BlinkyTypeOK /\ LedInv)'
  BY Zenon, BlinkyTyped, LedKept
<1>3. LedInv => LedsLeftOn
  BY Zenon DEF LedInv, LedsLeftOn
<1>4. QED
  BY <1>1, <1>2, <1>3, PTL DEF Spec

--------------------------------------------------------------------------------
(* The type invariant: what the parts other than the light and the update keep.  *)

Places == {"wait", "second", "wake", "sleep", "clear", "stop", "suspend", "poll", "tasks",
           "sender", "high", "delay", "deep", "asleep"}

Cmds == [pc : {"idle", "handle", "respond"}, for : Commands \cup {"none"},
         by : ToSet(Handlers) \cup {"none"}, ret : {"HANDLED", "ERR", "NOTMINE"}]

ClientOK  == /\ events \subseteq EventBits /\ client \in {"stopped", "down", "up"}
             /\ watchdog \in {"wait", "stop", "clear", "sleep", "set"}
CmdOK     == cmd \in Cmds
ButtonOK  == /\ power \in {"on", "asleep", "restarted"}
             /\ suspended \subseteq {"watchdog", "reader", "sender", "writer"}
             /\ btn \in Places /\ clicks \in 0 .. ClickSlots
PipeOK    == /\ ring \in 0 .. RingSlots /\ batch \in BOOLEAN
             /\ writer \in {"wait", "drain", "empty", "close", "paused"}
             /\ limit \in 0 .. DiskRoom /\ behind \in {"nothing", "limit", "late"}
BudgetOK  == left \in [{"commands", "clicks", "readings", "changes"} -> Nat]

LEMMA TypeParts == TypeOK <=> BlinkyTypeOK /\ OtaTypeOK /\ ClientOK /\ CmdOK /\ ButtonOK /\ PipeOK /\ BudgetOK
BY Zenon DEF TypeOK, ClientOK, CmdOK, Cmds, ButtonOK, Places, PipeOK, BudgetOK

LEMMA BudgetKept == ASSUME BudgetOK, [Next]_vars PROVE BudgetOK'
<1>1. CASE left' = left
  BY Zenon, <1>1 DEF BudgetOK
<1>2. ASSUME NEW kind \in {"commands", "clicks", "readings", "changes"}, Spend(kind) PROVE BudgetOK'
  <2>1. left[kind] \in Nat /\ left[kind] > 0 /\ left' = [left EXCEPT ![kind] = left[kind] - 1]
    BY <1>2 DEF Spend, BudgetOK
  <2>2. left[kind] - 1 \in Nat
    BY SMT, <2>1
  <2>3. QED
    BY Zenon, <2>1, <2>2 DEF BudgetOK
<1>3. CASE Connection
  <2>1. CASE Connects \/ CannotConnect \/ Disconnects
    BY Zenon, <1>2, <2>1 DEF Connects, CannotConnect, Disconnects, ClientMoves
  <2>2. CASE Watchdog
    BY Zenon, <1>1, <1>2, <2>2 DEF Watchdog, WatchdogCounts, WatchdogStops, WatchdogClears, WatchdogStarts,
       WatchdogSets, WatchdogCall
  <2>3. QED
    BY Zenon, <1>3, <2>1, <2>2 DEF Connection
<1>4. CASE CommandArrives \/ Click
  BY Zenon, <1>2, <1>4 DEF CommandArrives, Click
<1>5. CASE Dispatch
  BY Zenon, <1>1, <1>5 DEF Dispatch, OtaHandler, LedHandler, OtherHandler, Respond, DispatchRest
<1>6. CASE Measure \/ SendTakes \/ SendQueues \/ SendDrained \/ Writer
  BY Zenon, <1>1, <1>6 DEF Measure, SendTakes, SendQueues, SendDrained, Writer, WriterWakes, WriterPauses, WriterResumes,
     WriterWrites, WriterEmpty, WriterClearsHigh, WriterDone, PipeRest
<1>7. CASE Button
  BY Zenon, <1>1, <1>7 DEF Button, BtnFirst, BtnSecond, BtnTimeout, BtnRest, WifiWake, SleepPlays, BtnPlays,
     MqttStopClears, MqttStopClient, MqttStopSuspends, SensorStopPolling, SensorStopReader, SensorStopSender,
     SensorStopHigh, SensorStopWriter, StopStep, DeepSleep
<1>8. CASE Led \/ Ota \/ Restart
  BY Zenon, <1>1, <1>8 DEF Led, Ota, Restart
<1>9. CASE UNCHANGED vars
  BY Zenon, <1>1, <1>9 DEF vars
<1>10. QED
  BY Zenon, <1>3, <1>4, <1>5, <1>6, <1>7, <1>8, <1>9 DEF Next, Pipeline

(* What offers a command to one handler after the other finds one of them *)
LEMMA ClaimantHandles ==
  ASSUME NEW c
  PROVE  Claimant(c) = 0 \/ Handlers[Claimant(c)] \in ToSet(Handlers)
<1>. DEFINE I == {j \in 1 .. Len(Handlers) : Claims(Handlers[j]) = c}
<1>1. Claimant(c) = IF I # {} THEN Min(I) ELSE 0
  BY DEF Claimant, SelectInSeq
<1>2. Len(Handlers) = 7 /\ DOMAIN Handlers = 1 .. Len(Handlers)
  BY DEF Handlers
<1>3. ASSUME I # {} PROVE Min(I) \in 1 .. 7
  BY SMT, <1>2, <1>3 DEF Min
<1>4. QED
  BY Zenon, <1>1, <1>2, <1>3 DEF ToSet

LEMMA CmdKept == ASSUME CmdOK, [Next]_vars PROVE CmdOK'
<1>1. CASE cmd' = cmd
  BY Zenon, <1>1 DEF CmdOK
<1>2. Idle \in Cmds
  BY Zenon DEF Idle, Cmds
<1>3. ASSUME NEW ret \in {"HANDLED", "ERR"}, Answer(ret) PROVE CmdOK'
  BY Zenon, <1>3 DEF Answer, CmdOK, Cmds
<1>4. CASE CommandArrives
  <2>1. PICK c \in Commands :
          cmd' = [Idle EXCEPT !.pc = IF Claimant(c) = 0 THEN "respond" ELSE "handle",
                              !.for = c, !.by = IF Claimant(c) = 0 THEN "none" ELSE Handlers[Claimant(c)]]
    BY Zenon, <1>4 DEF CommandArrives
  <2>2. (IF Claimant(c) = 0 THEN "none" ELSE Handlers[Claimant(c)]) \in ToSet(Handlers) \cup {"none"}
    BY Zenon, ClaimantHandles
  <2>3. QED
    BY Zenon, <1>2, <2>1, <2>2 DEF CmdOK, Cmds
<1>5. CASE Dispatch
  BY Zenon, <1>1, <1>2, <1>3, <1>5 DEF Dispatch, OtaHandler, LedHandler, OtherHandler, Respond, CmdOK
<1>6. CASE Connection
  BY Zenon, <1>1, <1>6 DEF Connection, Connects, CannotConnect, Disconnects, ClientMoves,
     Watchdog, WatchdogCounts, WatchdogStops, WatchdogClears, WatchdogStarts, WatchdogSets, WatchdogCall
<1>7. CASE Pipeline
  BY Zenon, <1>1, <1>7 DEF Pipeline, Measure, SendTakes, SendQueues, SendDrained, Writer, WriterWakes, WriterPauses,
     WriterResumes, WriterWrites, WriterEmpty, WriterClearsHigh, WriterDone, PipeRest
<1>8. CASE Button
  BY Zenon, <1>1, <1>8 DEF Button, BtnFirst, BtnSecond, BtnTimeout, BtnRest, WifiWake, SleepPlays, BtnPlays,
     MqttStopClears, MqttStopClient, MqttStopSuspends, SensorStopPolling, SensorStopReader, SensorStopSender,
     SensorStopHigh, SensorStopWriter, StopStep, DeepSleep
<1>9. CASE Click \/ Led \/ Ota \/ Restart
  BY Zenon, <1>1, <1>9 DEF Click, Led, Ota, Restart
<1>10. CASE UNCHANGED vars
  BY Zenon, <1>1, <1>10 DEF vars
<1>11. QED
  BY Zenon, <1>4, <1>5, <1>6, <1>7, <1>8, <1>9, <1>10 DEF Next

LEMMA ClientKept == ASSUME ClientOK, [Next]_vars PROVE ClientOK'
<1>1. CASE clientVars' = clientVars /\ watchdog' = watchdog
  BY Zenon, <1>1 DEF ClientOK, clientVars
<1>2. ASSUME NEW before, NEW after \in {"stopped", "down", "up"}, NEW set \in SUBSET EventBits, NEW clear,
             ClientMoves(before, after, set, clear)
      PROVE  ClientOK'
  BY Zenon, <1>2 DEF ClientMoves, ClientOK
<1>3. CASE Connects \/ CannotConnect \/ Disconnects
  BY <1>2, <1>3 DEF Connects, CannotConnect, Disconnects, EventBits
<1>4. ASSUME events' \subseteq events \cup EventBits, client' = client, watchdog' = watchdog
      PROVE  ClientOK'
  BY Zenon, <1>4 DEF ClientOK
<1>5. CASE Pipeline
  <2>1. client' = client /\ watchdog' = watchdog
    BY Zenon, <1>5 DEF Pipeline, Measure, SendTakes, SendQueues, SendDrained, Writer, WriterWakes, WriterPauses,
       WriterResumes, WriterWrites, WriterEmpty, WriterClearsHigh, WriterDone, PipeRest, clientVars
  <2>2. CASE Measure
    BY <1>4, <2>1, <2>2 DEF Measure, EventBits
  <2>3. CASE SendTakes \/ SendQueues \/ SendDrained
    BY <1>4, <2>1, <2>3 DEF SendTakes, SendQueues, SendDrained, MayClearHigh, EventBits, clientVars
  <2>4. CASE WriterWakes \/ WriterPauses \/ WriterResumes \/ WriterWrites
    BY <1>4, <2>1, <2>4 DEF WriterWakes, WriterPauses, WriterResumes, WriterWrites, MayClearHigh, EventBits, clientVars
  <2>5. CASE WriterEmpty \/ WriterClearsHigh \/ WriterDone
    BY <1>4, <2>1, <2>5 DEF WriterEmpty, WriterClearsHigh, WriterDone, EventBits, clientVars
  <2>6. QED
    BY Zenon, <1>5, <2>2, <2>3, <2>4, <2>5 DEF Pipeline, Writer
<1>10. CASE Watchdog
  BY <1>10 DEF Watchdog, WatchdogCounts, WatchdogStops, WatchdogClears, WatchdogStarts, WatchdogSets, WatchdogCall,
     ClientOK, EventBits, clientVars
<1>6. CASE Button
  <2>1. CASE BtnFirst \/ BtnSecond \/ BtnTimeout \/ WifiWake \/ SleepPlays \/ DeepSleep
    BY Zenon, <1>1, <2>1 DEF BtnFirst, BtnSecond, BtnTimeout, BtnRest, WifiWake, SleepPlays, BtnPlays, DeepSleep
  <2>2. CASE MqttStopClears
    BY Zenon, <1>4, <2>2 DEF MqttStopClears, StopStep
  <2>3. CASE MqttStopClient
    BY Zenon, <2>3 DEF MqttStopClient, StopStep, ClientOK
  <2>4. CASE SensorStopHigh
    BY <1>4, <2>4 DEF SensorStopHigh, StopStep, EventBits
  <2>5. CASE MqttStopSuspends \/ SensorStopPolling \/ SensorStopReader \/ SensorStopSender \/ SensorStopWriter
    BY Zenon, <1>4, <2>5 DEF MqttStopSuspends, SensorStopPolling, SensorStopReader, SensorStopSender, SensorStopWriter,
       StopStep
  <2>6. QED
    BY Zenon, <1>6, <2>1, <2>2, <2>3, <2>4, <2>5 DEF Button
<1>7. CASE CommandArrives \/ Dispatch \/ Click \/ Led \/ Ota \/ Restart
  BY Zenon, <1>1, <1>7 DEF CommandArrives, Dispatch, OtaHandler, LedHandler, OtherHandler, Respond, DispatchRest, Click,
     Led, Ota, Restart
<1>8. CASE UNCHANGED vars
  BY Zenon, <1>1, <1>8 DEF vars
<1>9. QED
  BY Zenon, <1>3, <1>5, <1>6, <1>7, <1>8, <1>10 DEF Next, Connection

LEMMA ButtonKept == ASSUME ButtonOK, [Next]_vars PROVE ButtonOK'
<1>1. CASE power' = power /\ suspended' = suspended /\ btnVars' = btnVars
  BY Zenon, <1>1 DEF ButtonOK, btnVars
<1>2. ASSUME NEW at, NEW next \in Places, NEW evs, NEW susp \in SUBSET {"watchdog", "reader", "sender", "writer"},
             StopStep(at, next, evs, susp)
      PROVE  ButtonOK'
  BY Zenon, <1>2 DEF StopStep, ButtonOK
<1>3. CASE Button
  <2>1. CASE BtnFirst \/ BtnSecond \/ BtnTimeout
    <3>1. clicks' \in 0 .. ClickSlots
      BY SMT, <2>1 DEF BtnFirst, BtnSecond, BtnTimeout, ButtonOK, ClickSlots
    <3>2. btn' \in Places /\ power' = power /\ suspended' = suspended
      BY Zenon, <2>1 DEF BtnFirst, BtnSecond, BtnTimeout, BtnRest, Places
    <3>3. QED
      BY Zenon, <3>1, <3>2 DEF ButtonOK
  <2>2. CASE WifiWake \/ SleepPlays \/ DeepSleep
    BY Zenon, <2>2 DEF WifiWake, SleepPlays, DeepSleep, BtnPlays, ButtonOK, Places
  <2>3. CASE MqttStopClears \/ MqttStopClient \/ MqttStopSuspends
    BY <1>2, <2>3 DEF MqttStopClears, MqttStopClient, MqttStopSuspends, Places
  <2>4. CASE SensorStopPolling \/ SensorStopReader \/ SensorStopSender \/ SensorStopHigh \/ SensorStopWriter
    BY <1>2, <2>4 DEF SensorStopPolling, SensorStopReader, SensorStopSender, SensorStopHigh, SensorStopWriter, Places
  <2>5. QED
    BY Zenon, <1>3, <2>1, <2>2, <2>3, <2>4 DEF Button
<1>4. CASE Click
  BY <1>4 DEF Click, ButtonOK, ClickSlots
<1>5. CASE Restart
  BY Zenon, <1>5 DEF Restart, ButtonOK, btnVars
<1>6. CASE Connection
  BY Zenon, <1>1, <1>6 DEF Connection, Connects, CannotConnect, Disconnects, ClientMoves,
     Watchdog, WatchdogCounts, WatchdogStops, WatchdogClears, WatchdogStarts, WatchdogSets, WatchdogCall
<1>7. CASE CommandArrives \/ Dispatch \/ Led \/ Ota
  BY Zenon, <1>1, <1>7 DEF CommandArrives, Dispatch, OtaHandler, LedHandler, OtherHandler, Respond, DispatchRest, Led, Ota
<1>8. CASE Pipeline
  BY Zenon, <1>1, <1>8 DEF Pipeline, Measure, SendTakes, SendQueues, SendDrained, Writer, WriterWakes, WriterPauses,
     WriterResumes, WriterWrites, WriterEmpty, WriterClearsHigh, WriterDone, PipeRest
<1>9. CASE UNCHANGED vars
  BY Zenon, <1>1, <1>9 DEF vars
<1>10. QED
  BY Zenon, <1>3, <1>4, <1>5, <1>6, <1>7, <1>8, <1>9 DEF Next

LEMMA PipeKept == ASSUME PipeOK, [Next]_vars PROVE PipeOK'
<1>1. CASE pipeVars' = pipeVars
  BY Zenon, <1>1 DEF PipeOK, pipeVars, drainVars
<1>2. CASE Pipeline
  <2>1. RingSlots \in Nat \ {0} /\ DiskRoom \in Nat
    BY Zenon, DeviceAssumption
  <2>2. CASE Measure
    BY SMT, <2>1, <2>2 DEF Measure, PipeOK
  <2>3. ASSUME ring' = ring - 1, ring > 0
        PROVE  ring' \in 0 .. RingSlots
    BY SMT, <2>1, <2>3 DEF PipeOK
  <2>4. CASE SendTakes
    BY Zenon, <2>3, <2>4 DEF SendTakes, drainVars, PipeOK
  <2>5. CASE WriterWrites
    <3>1. ring' \in 0 .. RingSlots /\ batch' \in BOOLEAN
      BY Zenon, <2>3, <2>5 DEF WriterWrites, PipeOK
    <3>2. limit' \in 0 .. DiskRoom
      BY SMT, <2>1, <2>5 DEF WriterWrites, PipeOK
    <3>3. QED
      BY Zenon, <2>5, <3>1, <3>2 DEF WriterWrites, PipeOK
  <2>6. CASE SendQueues \/ SendDrained \/ WriterWakes \/ WriterPauses
    BY Zenon, <2>6 DEF SendQueues, SendDrained, WriterWakes, WriterPauses, PipeOK, pipeVars, drainVars
  <2>7. CASE WriterResumes \/ WriterEmpty \/ WriterClearsHigh \/ WriterDone
    BY Zenon, <2>7 DEF WriterResumes, WriterEmpty, WriterClearsHigh, WriterDone, PipeOK
  <2>8. QED
    BY Zenon, <1>2, <2>2, <2>4, <2>5, <2>6, <2>7 DEF Pipeline, Writer
<1>3. CASE Connection
  BY Zenon, <1>1, <1>3 DEF Connection, Connects, CannotConnect, Disconnects, ClientMoves,
     Watchdog, WatchdogCounts, WatchdogStops, WatchdogClears, WatchdogStarts, WatchdogSets, WatchdogCall
<1>4. CASE CommandArrives \/ Dispatch \/ Click \/ Led \/ Ota \/ Restart
  BY Zenon, <1>1, <1>4 DEF CommandArrives, Dispatch, OtaHandler, LedHandler, OtherHandler, Respond, DispatchRest, Click,
     Led, Ota, Restart
<1>5. CASE Button
  BY Zenon, <1>1, <1>5 DEF Button, BtnFirst, BtnSecond, BtnTimeout, BtnRest, WifiWake, SleepPlays, BtnPlays,
     MqttStopClears, MqttStopClient, MqttStopSuspends, SensorStopPolling, SensorStopReader, SensorStopSender,
     SensorStopHigh, SensorStopWriter, StopStep, DeepSleep
<1>6. CASE UNCHANGED vars
  BY Zenon, <1>1, <1>6 DEF vars
<1>7. QED
  BY Zenon, <1>2, <1>3, <1>4, <1>5, <1>6 DEF Next

(* Every variable of the device keeps its type.                                  *)
THEOREM TypeCorrect == Spec => []TypeOK
<1>1. Init => BlinkyTypeOK /\ ClientOK /\ CmdOK /\ ButtonOK /\ PipeOK /\ BudgetOK
  <2>1. SUFFICES ASSUME Init PROVE ClientOK /\ CmdOK /\ ButtonOK /\ PipeOK /\ BudgetOK
    BY Zenon, BlinkyStarts
  <2>2. ClientOK
    BY <2>1 DEF Init, ClientOK, EventBits
  <2>3. CmdOK
    BY Zenon, <2>1 DEF Init, CmdOK, Cmds, Idle
  <2>4. ButtonOK
    BY <2>1 DEF Init, ButtonOK, Places, ClickSlots
  <2>5. PipeOK
    <3>1. 0 \in 0 .. RingSlots /\ 0 \in 0 .. DiskRoom
      BY SMT, DeviceAssumption
    <3>2. QED
      BY Zenon, <2>1, <3>1 DEF Init, PipeOK
  <2>6. BudgetOK
    BY Zenon, <2>1, DeviceAssumption DEF Init, BudgetOK
  <2>7. QED
    BY Zenon, <2>2, <2>3, <2>4, <2>5, <2>6
<1>2. (BlinkyTypeOK /\ ClientOK /\ CmdOK /\ ButtonOK /\ PipeOK /\ BudgetOK) /\ [Next]_vars
        => (BlinkyTypeOK /\ ClientOK /\ CmdOK /\ ButtonOK /\ PipeOK /\ BudgetOK)'
  BY Zenon, BlinkyTyped, ClientKept, CmdKept, ButtonKept, PipeKept, BudgetKept
<1>3. OtaInv /\ BlinkyTypeOK /\ ClientOK /\ CmdOK /\ ButtonOK /\ PipeOK /\ BudgetOK => TypeOK
  BY Zenon, TypeParts DEF OtaInv
<1>4. QED
  BY <1>1, <1>2, <1>3, OtaAlways, PTL DEF Spec

--------------------------------------------------------------------------------
(* Going to sleep: what the button task has suspended at each place, ...         *)
SuspendedAt ==
  /\ btn \in {"poll", "tasks", "sender", "high", "delay", "deep", "asleep"} => "watchdog" \in suspended
  /\ btn \in {"sender", "high", "delay", "deep", "asleep"} => "reader" \in suspended
  /\ btn \in {"high", "delay", "deep", "asleep"} => "sender" \in suspended
  /\ btn \in {"deep", "asleep"} <=> "writer" \in suspended
  /\ power = "asleep" => btn = "asleep"

(* ... and what the file writer still has to write. A drain that found nothing   *)
(* left nothing, but for what came late; a writer that is not at a drain has     *)
(* been woken, or its last drain says what it left.                              *)
AtDrain == writer \in {"drain", "empty", "close"}

LeftByDrain ==
  /\ DONEWRITING \in events => ~AtDrain
  /\ writer = "empty" => ring = 0 \/ behind = "late"
  /\ btn = "delay" /\ writer \in {"wait", "close", "paused"}
       => HIGHWATER \in events \/ ring = 0 \/ behind # "nothing"
  /\ btn \in {"deep", "asleep"} /\ client = "stopped" /\ NOTCONNECTED \in events
       => ring = 0 \/ writer = "paused" \/ behind # "nothing"

SleepInv == SuspendedAt /\ LeftByDrain

LEMMA SuspendedKept ==
  ASSUME SuspendedAt, [Next]_vars
  PROVE  SuspendedAt'
<1>1. CASE power' = power /\ btn' = btn /\ suspended' = suspended
  BY Zenon, <1>1 DEF SuspendedAt
<1>2. ASSUME Next, Button
      PROVE  SuspendedAt'
  <2>1. power = "on"
    BY Zenon, <1>2 DEF Next
  <2>2. CASE BtnFirst \/ BtnSecond \/ BtnTimeout
    <3>1. btn \in {"wait", "second"} /\ btn' \in {"second", "sleep", "wake"} /\ suspended' = suspended /\ power' = "on"
      BY Zenon, <2>1, <2>2 DEF BtnFirst, BtnSecond, BtnTimeout, BtnRest
    <3>2. QED
      BY <3>1 DEF SuspendedAt
  <2>3. CASE WifiWake \/ SleepPlays
    <3>1. btn \in {"wake", "sleep"} /\ btn' \in {"wait", "clear"} /\ suspended' = suspended /\ power' = "on"
      BY Zenon, <2>1, <2>3 DEF WifiWake, SleepPlays, BtnPlays
    <3>2. QED
      BY <3>1 DEF SuspendedAt
  <2>4. CASE MqttStopClears \/ MqttStopClient
    <3>. \A S : S \cup {} = S
      BY Zenon
    <3>1. btn \in {"clear", "stop"} /\ btn' \in {"stop", "suspend"} /\ suspended' = suspended /\ power' = "on"
      BY Zenon, <2>1, <2>4 DEF MqttStopClears, MqttStopClient, StopStep
    <3>2. QED
      BY <3>1 DEF SuspendedAt
  <2>5. ASSUME power' = power,
               \/ btn = "suspend" /\ btn' = "poll" /\ suspended' = suspended \cup {"watchdog"}
               \/ btn = "poll" /\ btn' = "tasks" /\ suspended' = suspended
               \/ btn = "tasks" /\ btn' = "sender" /\ suspended' = suspended \cup {"reader"}
               \/ btn = "sender" /\ btn' = "high" /\ suspended' = suspended \cup {"sender"}
               \/ btn = "high" /\ btn' = "delay" /\ suspended' = suspended
               \/ btn = "delay" /\ btn' = "deep" /\ suspended' = suspended \cup {"writer"}
        PROVE  SuspendedAt'
    BY <2>1, <2>5 DEF SuspendedAt
  <2>6. CASE MqttStopSuspends \/ SensorStopPolling \/ SensorStopReader
    <3>1. \A S : S \cup {} = S
      BY Zenon
    <3>2. QED
      BY Zenon, <2>5, <2>6, <3>1 DEF MqttStopSuspends, SensorStopPolling, SensorStopReader, StopStep
  <2>7. CASE SensorStopSender \/ SensorStopHigh \/ SensorStopWriter
    <3>1. \A S : S \cup {} = S
      BY Zenon
    <3>2. QED
      BY Zenon, <2>5, <2>7, <3>1 DEF SensorStopSender, SensorStopHigh, SensorStopWriter, StopStep
  <2>8. CASE DeepSleep
    <3>1. btn = "deep" /\ btn' = "asleep" /\ suspended' = suspended
      BY Zenon, <2>8 DEF DeepSleep
    <3>2. QED
      BY <3>1 DEF SuspendedAt
  <2>9. QED
    BY Zenon, <1>2, <2>2, <2>3, <2>4, <2>6, <2>7, <2>8 DEF Button
<1>3. CASE Restart
  <2>1. power' = "restarted" /\ btn' = btn /\ suspended' = suspended
    BY Zenon, <1>3 DEF Restart, btnVars
  <2>2. QED
    BY <2>1 DEF SuspendedAt
<1>4. CASE Connection
  BY Zenon, <1>1, <1>4 DEF Connection, Connects, CannotConnect, Disconnects, ClientMoves,
     Watchdog, WatchdogCounts, WatchdogStops, WatchdogClears, WatchdogStarts, WatchdogSets, WatchdogCall, btnVars
<1>5. CASE CommandArrives \/ Dispatch \/ Click \/ Led \/ Ota
  BY Zenon, <1>1, <1>5 DEF CommandArrives, Dispatch, OtaHandler, LedHandler, OtherHandler, Respond, DispatchRest, Click,
     Led, Ota, btnVars
<1>6. CASE Pipeline
  BY Zenon, <1>1, <1>6 DEF Pipeline, Measure, SendTakes, SendQueues, SendDrained, Writer, WriterWakes, WriterPauses,
     WriterResumes, WriterWrites, WriterEmpty, WriterClearsHigh, WriterDone, PipeRest, btnVars
<1>7. CASE UNCHANGED vars
  BY Zenon, <1>1, <1>7 DEF vars, btnVars
<1>8. QED
  BY Zenon, <1>2, <1>3, <1>4, <1>5, <1>6, <1>7 DEF Next

LEMMA SleepKept ==
  ASSUME PipeOK, SleepInv, [Next]_vars
  PROVE  SleepInv'
<1>1. SuspendedAt'
  BY Zenon, SuspendedKept DEF SleepInv
<1>2. SUFFICES LeftByDrain'
  BY Zenon, <1>1 DEF SleepInv
<1>3. SuspendedAt /\ LeftByDrain
  BY Zenon DEF SleepInv
<1>4. CASE clientVars' = clientVars /\ pipeVars' = pipeVars /\ btn' = btn
  BY Zenon, <1>3, <1>4 DEF clientVars, pipeVars, drainVars, LeftByDrain, AtDrain
<1>5. CASE Connection
  <2>1. "watchdog" \in suspended /\ client' = "stopped" => client = "stopped" /\ events' = events
    <3>1. CASE Connects \/ CannotConnect \/ Disconnects
      BY <3>1 DEF Connects, CannotConnect, Disconnects, ClientMoves
    <3>2. CASE Watchdog
      BY Zenon, <3>2 DEF Watchdog, WatchdogCounts, WatchdogStops, WatchdogClears, WatchdogStarts, WatchdogSets,
         WatchdogCall, clientVars
    <3>3. QED
      BY Zenon, <1>5, <3>1, <3>2 DEF Connection
  <2>2. pipeVars' = pipeVars /\ btn' = btn
    BY Zenon, <1>5 DEF Connection, Connects, CannotConnect, Disconnects, ClientMoves,
       Watchdog, WatchdogCounts, WatchdogStops, WatchdogClears, WatchdogStarts, WatchdogSets, WatchdogCall, btnVars
  <2>3. /\ DONEWRITING \in events' <=> DONEWRITING \in events
        /\ HIGHWATER \in events' <=> HIGHWATER \in events
    BY <1>5 DEF Connection, Connects, CannotConnect, Disconnects, ClientMoves,
       Watchdog, WatchdogCounts, WatchdogStops, WatchdogClears, WatchdogStarts, WatchdogSets, WatchdogCall,
       clientVars, DONEWRITING, HIGHWATER, CONNECTED, NOTCONNECTED, STARTED
  <2>4. btn \in {"deep", "asleep"} => "watchdog" \in suspended
    BY <1>3 DEF SuspendedAt
  <2>5. QED
    BY Zenon, <1>3, <2>1, <2>2, <2>3, <2>4 DEF pipeVars, drainVars, LeftByDrain, AtDrain
<1>6. CASE Pipeline
  <2>1. btn' = btn /\ client' = client
    BY Zenon, <1>6 DEF Pipeline, Measure, SendTakes, SendQueues, SendDrained, Writer, WriterWakes, WriterPauses,
       WriterResumes, WriterWrites, WriterEmpty, WriterClearsHigh, WriterDone, PipeRest, btnVars, clientVars
  <2>2. /\ "reader" \notin suspended => btn \notin {"delay", "deep", "asleep"}
        /\ "sender" \notin suspended => btn \notin {"delay", "deep", "asleep"}
        /\ "writer" \notin suspended => btn \notin {"deep", "asleep"}
    BY <1>3 DEF SuspendedAt
  <2>3. CASE Measure \/ SendTakes \/ SendQueues \/ SendDrained
    <3>1. btn' \notin {"delay", "deep", "asleep"}
      BY Zenon, <2>1, <2>2, <2>3 DEF Measure, SendTakes, SendQueues, SendDrained, Runs
    <3>2. writer' = writer
      BY Zenon, <2>3 DEF Measure, SendTakes, SendQueues, SendDrained, pipeVars, drainVars
    <3>3. DONEWRITING \in events' => DONEWRITING \in events
      BY <2>3 DEF Measure, SendTakes, SendQueues, SendDrained, MayClearHigh, DONEWRITING, HIGHWATER, POLLSENSORS, clientVars
    <3>4. ASSUME writer = "empty" PROVE ring' = 0 \/ behind' = "late"
      <4>1. CASE Measure
        BY Zenon, <3>4, <4>1 DEF Measure
      <4>2. CASE SendTakes \/ SendQueues \/ SendDrained
        <5>1. behind' = behind /\ (ring = 0 => ring' = 0)
          BY SMT, <4>2 DEF SendTakes, SendQueues, SendDrained, pipeVars, drainVars
        <5>2. QED
          BY Zenon, <1>3, <3>4, <5>1 DEF LeftByDrain
      <4>3. QED
        BY Zenon, <2>3, <4>1, <4>2
    <3>5. QED
      BY Zenon, <1>3, <3>1, <3>2, <3>3, <3>4 DEF LeftByDrain, AtDrain
  <2>4. ASSUME Writer PROVE btn' \notin {"deep", "asleep"}
    BY Zenon, <2>1, <2>2, <2>4 DEF Writer, WriterReady, WriterWakes, WriterPauses, WriterResumes, WriterWrites, WriterEmpty,
       WriterClearsHigh, WriterDone, Runs
  <2>5. CASE WriterWakes
    BY <2>4, <2>5 DEF WriterWakes, Writer, DONEWRITING, LeftByDrain, AtDrain
  <2>6. CASE WriterPauses
    BY <1>3, <2>1, <2>4, <2>6 DEF WriterPauses, WriterReady, Writer, DONEWRITING, HIGHWATER, POLLSENSORS, LeftByDrain, AtDrain
  <2>7. CASE WriterResumes
    BY <1>3, <2>1, <2>4, <2>7 DEF WriterResumes, Writer, clientVars, LeftByDrain, AtDrain
  <2>8. CASE WriterWrites
    <3>1. /\ writer = "drain"
          /\ writer' = "drain" \/ (writer' = "close" /\ behind' = "limit")
      BY Zenon, <2>8 DEF WriterWrites
    <3>2. DONEWRITING \in events' => DONEWRITING \in events
      BY Zenon, <2>8 DEF WriterWrites, MayClearHigh
    <3>3. QED
      BY <1>3, <2>4, <2>8, <3>1, <3>2 DEF Writer, LeftByDrain, AtDrain
  <2>9. CASE WriterEmpty
    BY <1>3, <2>1, <2>4, <2>9 DEF WriterEmpty, Writer, clientVars, LeftByDrain, AtDrain
  <2>10. CASE WriterClearsHigh
    <3>1. writer = "empty" /\ writer' = "close" /\ ring' = ring /\ behind' = behind
      BY Zenon, <2>10 DEF WriterClearsHigh
    <3>2. DONEWRITING \in events' => DONEWRITING \in events
      BY <2>10 DEF WriterClearsHigh, DONEWRITING, POLLSENSORS
    <3>3. QED
      BY <1>3, <2>4, <2>10, <3>1, <3>2 DEF Writer, LeftByDrain, AtDrain
  <2>11. CASE WriterDone
    BY <1>3, <2>1, <2>4, <2>11 DEF WriterDone, Writer, DONEWRITING, HIGHWATER, LeftByDrain, AtDrain
  <2>12. QED
    BY Zenon, <1>6, <2>3, <2>5, <2>6, <2>7, <2>8, <2>9, <2>10, <2>11 DEF Pipeline, Writer
<1>7. CASE Button
  <2>1. CASE BtnFirst \/ BtnSecond \/ BtnTimeout \/ WifiWake \/ SleepPlays
    <3>1. btn' \in {"second", "sleep", "wake", "wait", "clear"}
      BY Zenon, <2>1 DEF BtnFirst, BtnSecond, BtnTimeout, WifiWake, SleepPlays, BtnPlays
    <3>2. clientVars' = clientVars /\ pipeVars' = pipeVars
      BY Zenon, <2>1 DEF BtnFirst, BtnSecond, BtnTimeout, BtnRest, WifiWake, SleepPlays, BtnPlays
    <3>3. QED
      BY <1>3, <3>1, <3>2 DEF clientVars, pipeVars, drainVars, LeftByDrain, AtDrain
  <2>2. ASSUME pipeVars' = pipeVars, btn' \notin {"delay", "deep", "asleep"}, DONEWRITING \in events' => DONEWRITING \in events
        PROVE  LeftByDrain'
    BY Zenon, <1>3, <2>2 DEF pipeVars, drainVars, LeftByDrain, AtDrain
  <2>3. CASE MqttStopClears
    BY <2>2, <2>3 DEF MqttStopClears, StopStep
  <2>4. CASE MqttStopClient \/ MqttStopSuspends
    BY Zenon, <2>2, <2>4 DEF MqttStopClient, MqttStopSuspends, StopStep
  <2>5. CASE SensorStopPolling \/ SensorStopReader \/ SensorStopSender
    BY Zenon, <2>2, <2>5 DEF SensorStopPolling, SensorStopReader, SensorStopSender, StopStep
  <2>6. CASE SensorStopHigh
    BY <1>3, <2>6 DEF SensorStopHigh, StopStep, pipeVars, drainVars, DONEWRITING, HIGHWATER, LeftByDrain, AtDrain
  <2>7. CASE SensorStopWriter
    <3>1. /\ ~(WriterReady /\ ring > 0) /\ DONEWRITING \in events /\ btn = "delay" /\ btn' = "deep"
          /\ events' = events /\ client' = client /\ pipeVars' = pipeVars
      BY Zenon, <2>7 DEF SensorStopWriter, StopStep
    <3>2. ASSUME NOTCONNECTED \in events, writer # "paused", behind = "nothing" PROVE ring = 0
      <4>1. writer = "wait" /\ (HIGHWATER \in events \/ ring = 0)
        BY <1>3, <3>1, <3>2 DEF PipeOK, LeftByDrain, AtDrain
      <4>2. CASE "writer" \in suspended
        BY <1>3, <3>1, <4>2 DEF SuspendedAt
      <4>3. CASE "writer" \notin suspended /\ HIGHWATER \in events
        <5>1. ~(ring > 0)
          BY Zenon, <3>1, <3>2, <4>1, <4>3 DEF WriterReady, Runs
        <5>2. QED
          BY SMT, <5>1 DEF PipeOK
      <4>4. QED
        BY Zenon, <4>1, <4>2, <4>3
    <3>3. QED
      BY Zenon, <1>3, <3>1, <3>2 DEF pipeVars, drainVars, LeftByDrain, AtDrain
  <2>8. CASE DeepSleep
    <3>1. btn = "deep" /\ btn' = "asleep" /\ clientVars' = clientVars /\ pipeVars' = pipeVars
      BY Zenon, <2>8 DEF DeepSleep
    <3>2. QED
      BY <1>3, <3>1 DEF clientVars, pipeVars, drainVars, LeftByDrain, AtDrain
  <2>9. QED
    BY Zenon, <1>7, <2>1, <2>3, <2>4, <2>5, <2>6, <2>7, <2>8 DEF Button
<1>8. CASE CommandArrives \/ Dispatch \/ Click \/ Led \/ Ota \/ Restart
  BY Zenon, <1>4, <1>8 DEF CommandArrives, Dispatch, OtaHandler, LedHandler, OtherHandler, Respond, DispatchRest, Click,
     Led, Ota, Restart, btnVars
<1>9. CASE UNCHANGED vars
  BY Zenon, <1>4, <1>9 DEF vars, btnVars
<1>10. QED
  BY Zenon, <1>5, <1>6, <1>7, <1>8, <1>9 DEF Next

(* A device that sleeps with its client stopped and recorded offline has no      *)
(* reading left in memory, but for what the disk had no room for and what came   *)
(* after the last look of a drain (sensormgr_stop, touchbtn_deepsleep).          *)
THEOREM RingIsSaved == Spec => []RingSavedAsleep
<1>1. Init => SleepInv
  <2>1. SUFFICES ASSUME Init PROVE SleepInv
    OBVIOUS
  <2>2. power = "on" /\ btn = "wait" /\ writer = "wait" /\ suspended = {}
    BY Zenon, <2>1 DEF Init
  <2>3. QED
    BY <2>2 DEF SleepInv, SuspendedAt, LeftByDrain, AtDrain
<1>2. SleepInv => RingSavedAsleep
  BY DEF SleepInv, SuspendedAt, LeftByDrain, RingSavedAsleep
<1>3. TypeOK => PipeOK
  BY Zenon, TypeParts
<1>4. PipeOK /\ SleepInv /\ [Next]_vars => SleepInv'
  BY Zenon, SleepKept
<1>5. QED
  BY <1>1, <1>2, <1>3, <1>4, TypeCorrect, PTL DEF Spec
=============================================================================
