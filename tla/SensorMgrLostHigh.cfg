SPECIFICATION Spec
CONSTANTS
  RingSlots = 2
  LowFree = 1
  HighFree = 1
  LowCount = 1
  BatchMax = 1
  DiskUnits = 4
  DiskReserve = 1
  UintRange = 4194304
  QueueSlots = 1
  SensorCount = 1
  MaxReading = 4
  MaxOld = 0
  MaxTime = 0
INVARIANT FullOfflineIsBuffered
