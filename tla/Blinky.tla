-------------------------------- MODULE Blinky --------------------------------
(***************************************************************************)
(* The light of the board, blinky/blinky.c: a queue of animations that the *)
(* command handler and the touch button fill, and the task that plays one  *)
(* animation after the other on the red LED or on the RGB one. A message   *)
(* in the queue interrupts the animation being played at its next frame.   *)
(*                                                                         *)
(* Colours and delays are left out: a LED is lit or dark.                  *)
(***************************************************************************)
EXTENDS Integers, Sequences

CONSTANTS
  Lights,      (* the entries of lights[], 360 in the source              *)
  IdxRange,    (* 2^16: idx is a uint16_t                                 *)
  Forever      (* UINT32_MAX, the repeat count that is never decremented  *)

ASSUME BlinkyAssumption ==
  /\ Lights \in Nat \ {0}
  /\ Forever \in Nat /\ Forever > 3     \* above every count that the code itself asks for
  /\ IdxRange \in Nat /\ IdxRange > Lights + 1 /\ IdxRange % 2 = 0

VARIABLES
  blinky_queue,  (* state.blinky_queue                                        *)
  led,           (* blinky_rainbow_task: pc, animation, idx, and whether the  *)
                 (* animation has had a lit frame yet                         *)
  lit,           (* the two LEDs                                              *)
  leftOn         (* history: the LEDs whose last animation may stay lit       *)

blinkyVars == <<blinky_queue, led, lit, leftOn>>

Leds     == {"LED_0", "RGB_0"}
Patterns == {"BLINK", "RAINBOW"}   (* BREATH, FADE_IN and FADE_OUT are played as RAINBOW *)

(* "other" is a number that the protocol does not name *)
Animations ==
  [pattern : Patterns \cup {"other"}, target : Leds \cup {"other"}, repeat : 0 .. Forever, off_at_end : BOOLEAN]

Animation(pattern, target, repeat, off) ==
  [pattern |-> pattern, target |-> target, repeat |-> repeat, off_at_end |-> off]

InitialAnimation == Animation("RAINBOW", "RGB_0", 2, TRUE)
QueueLength      == 2

--------------------------------------------------------------------------------
(* blinky_play, which waits for room in the queue for as long as it takes *)
blinky_play(a) ==
  /\ Len(blinky_queue) < QueueLength
  /\ blinky_queue' = Append(blinky_queue, a)
  /\ UNCHANGED <<led, lit, leftOn>>

(* The xQueueSend of the command handler gives up after 500 ms of a full queue *)
QueueTimesOut == Len(blinky_queue) = QueueLength /\ UNCHANGED blinkyVars

(* Only rainbow needs the RGB target: any other LED number is the red one *)
Drawing(a) ==
  IF a.target # "RGB_0" THEN "blink_led"
  ELSE IF a.pattern = "BLINK" THEN "blink_rgb" ELSE "rainbow"

Drawn(a) == IF Drawing(a) = "blink_led" THEN "LED_0" ELSE "RGB_0"

decr_repeat_count(n) == IF n # Forever /\ n > 0 THEN n - 1 ELSE n

(* An unknown pattern is reported and skipped *)
LedReceive ==
  /\ led.pc = "receive"
  /\ blinky_queue # <<>>
  /\ LET a == Head(blinky_queue)
     IN led' = [led EXCEPT !.pc = IF a.pattern \in Patterns THEN "play" ELSE "receive",
                           !.anim = a, !.shown = FALSE]
  /\ blinky_queue' = Tail(blinky_queue)
  /\ UNCHANGED <<lit, leftOn>>

(* A mutation: an interrupted animation leaves its LED as it is *)
LedInterruptedAsIs ==
  /\ led.pc = "play"
  /\ blinky_queue # <<>>
  /\ led' = [led EXCEPT !.idx = 0, !.pc = "receive"]
  /\ UNCHANGED <<blinky_queue, lit, leftOn>>

(* Another animation waits: stop this one, which then starts at frame 0 *)
LedInterrupted ==
  /\ led.pc = "play"
  /\ blinky_queue # <<>>
  /\ led' = [led EXCEPT !.idx = 0, !.pc = "end"]
  /\ UNCHANGED <<blinky_queue, lit, leftOn>>

(* One frame, and the delay after it. The blinks count their odd frames; the    *)
(* rainbow counts when idx is past the table, and only after it was looked up.  *)
LedFrame ==
  /\ led.pc = "play"
  /\ blinky_queue = <<>>
  /\ LET rainbow == Drawing(led.anim) = "rainbow"
         over    == IF rainbow THEN led.idx > Lights ELSE led.idx % 2 = 1
         on      == rainbow \/ over
         repeat  == IF over THEN decr_repeat_count(led.anim.repeat) ELSE led.anim.repeat
     IN /\ lit' = [lit EXCEPT ![Drawn(led.anim)] = on]
        /\ led' = [led EXCEPT
             !.anim.repeat = repeat,
             !.idx = (IF rainbow /\ over THEN 1 ELSE @ + 1) % IdxRange,
             !.shown = @ \/ on,
             !.pc = IF repeat # 0 THEN "play" ELSE "end"]
  /\ UNCHANGED <<blinky_queue, leftOn>>

(* off_at_end, for a target that is one of the two *)
LedEnd ==
  /\ led.pc = "end"
  /\ LET a == led.anim
     IN /\ lit' = [l \in Leds |-> lit[l] /\ ~(a.off_at_end /\ a.target = l)]
        /\ leftOn' = IF a.off_at_end THEN leftOn \ {Drawn(a)} ELSE leftOn \cup {Drawn(a)}
  /\ led' = [led EXCEPT !.pc = "receive"]
  /\ UNCHANGED blinky_queue

LedTask == LedReceive \/ LedInterrupted \/ LedFrame \/ LedEnd

(* blinky_init *)
BlinkyInit ==
  /\ blinky_queue = <<InitialAnimation>>
  /\ led = [pc |-> "receive", anim |-> InitialAnimation, idx |-> 0, shown |-> FALSE]
  /\ lit = [l \in Leds |-> FALSE]
  /\ leftOn = {}

--------------------------------------------------------------------------------
BlinkyTypeOK ==
  /\ blinky_queue \in Seq(Animations) /\ Len(blinky_queue) <= QueueLength
  /\ led \in [pc : {"receive", "play", "end"}, anim : Animations, idx : 0 .. IdxRange - 1, shown : BOOLEAN]
  /\ lit \in [Leds -> BOOLEAN]
  /\ leftOn \subseteq Leds

(* A LED that is lit while the task has nothing to play was left so by the last *)
(* animation drawn on it, which did not ask for off_at_end: neither the end of  *)
(* an animation nor its interruption at any frame leaves a light behind.        *)
LedsLeftOn == led.pc = "receive" => \A l \in Leds : lit[l] => l \in leftOn

(* An animation that ended by itself was shown, also one with repeat count 0    *)
(* (blinky.h:15, "0xFF for infinite repeat, 0 for run once").                   *)
EndedWasShown == [][led.pc = "play" /\ led'.pc = "end" /\ blinky_queue = <<>> => led'.shown]_blinkyVars

(* lights[] is read inside its bounds (blinky.c:25).                            *)
InsideLights ==
  led.pc = "play" /\ Drawing(led.anim) = "rainbow" => led.idx < Lights
================================================================================
