SPECIFICATION FairSpec
CHECK_DEADLOCK FALSE
CONSTANTS
  Lights = 1
  IdxRange = 4
  Forever = 4
  OtaTasks = {1, 2}
  Commands = {"otamgr", "blinky", "alarm"}
  LedAnimations <- LedRequests
  RingSlots = 2
  DiskRoom = 1
  Budgets <- SmallBudgets
INVARIANT OneUpdate
INVARIANT LedsLeftOn
INVARIANT RingSavedAsleep
PROPERTY UpdateEnds
PROPERTY CommandsEnd
PROPERTY WritingEnds
