SPECIFICATION Spec
CHECK_DEADLOCK FALSE
CONSTANTS
  Lights = 1
  IdxRange = 4
  Forever = 4
  OtaTasks = {1, 2}
  Commands = {"otamgr", "blinky", "alarm"}
  LedAnimations <- LedRequests
  RingSlots = 2
  DiskRoom = 1
  Budgets <- SleepBudget
INVARIANT DownKeepsReadings
\* The race of a late reading with the last look of a drain, with this line in
\* the place of the last:
\* INVARIANT SleepsWithoutRoomOnly
