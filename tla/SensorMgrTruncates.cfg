SPECIFICATION Spec
CONSTANTS
  RingSlots = 3
  LowFree = 2
  HighFree = 1
  LowCount = 2
  BatchMax = 2
  DiskUnits = 4
  DiskReserve = 1
  UintRange = 4194304
  QueueSlots = 1
  SensorCount = 1
  MaxReading = 4
  MaxOld = 0
  MaxTime = 1
PROPERTY TruncatesNothing
