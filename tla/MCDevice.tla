------------------------------- MODULE MCDevice -------------------------------
(* Values for TLC: the animations that the commands ask for, and the bounds *)
EXTENDS Device

LedRequests == {Animation("BLINK", "LED_0", Forever, TRUE), Animation("RAINBOW", "RGB_0", 1, FALSE)}

ZeroRequests == {Animation("BLINK", "RGB_0", 0, TRUE)}

Budget(c, k, r, n) == [commands |-> c, clicks |-> k, readings |-> r, changes |-> n]

LightBudget == {Budget(2, 0, 0, 1)}

SleepBudget == {Budget(0, 2, 1, 1)}

(* Commands only; the button while readings come in; both *)
SmallBudgets ==
  {Budget(3, 0, 0, 1), Budget(0, 2, 1, 1), Budget(1, 2, 0, 1), Budget(0, 2, 0, 2),
   Budget(0, 0, 1, 2)}
================================================================================
