SPECIFICATION Spec
CHECK_DEADLOCK FALSE
CONSTANTS
  Lights = 1
  IdxRange = 4
  Forever = 4
  OtaTasks = {1, 2}
  Commands = {"otamgr", "blinky", "alarm"}
  LedAnimations <- LedRequests
  RingSlots = 2
  DiskRoom = 1
  Budgets <- LightBudget
INVARIANT ClosedOnce
\* The other counterexample, with this line in the place of the last:
\* INVARIANT InsideLights
