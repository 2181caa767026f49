SPECIFICATION Spec
CONSTANTS
  RingSlots = 2
  LowFree = 1
  HighFree = 2
  LowCount = 1
  BatchMax = 1
  DiskUnits = 1
  DiskReserve = 1
  UintRange = 4194304
  QueueSlots = 1
  SensorCount = 1
  MaxReading = 3
  MaxOld = 1
  MaxTime = 0
INVARIANT DrainIsWanted
