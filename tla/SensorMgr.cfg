SPECIFICATION Spec
CONSTANTS
  RingSlots = 2
  LowFree = 1
  HighFree = 1
  LowCount = 1
  BatchMax = 2
  DiskUnits = 1
  DiskReserve = 1
  UintRange = 4194304
  QueueSlots = 1
  SensorCount = 1
  MaxReading = 3
  MaxOld = 0
  MaxTime = 1
INVARIANT CountAccurate
INVARIANT Conservation
INVARIANT PausedAsksForDrain
INVARIANT ReserveKept
INVARIANT NoSecondDelivery
