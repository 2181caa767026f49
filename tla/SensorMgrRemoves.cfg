SPECIFICATION Spec
CONSTANTS
  RingSlots = 2
  LowFree = 1
  HighFree = 2
  LowCount = 0
  BatchMax = 2
  DiskUnits = 3
  DiskReserve = 1
  UintRange = 4194304
  QueueSlots = 1
  SensorCount = 1
  MaxReading = 3
  MaxOld = 0
  MaxTime = 1
PROPERTY RemovesOnlyPublished
