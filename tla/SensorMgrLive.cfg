SPECIFICATION FairSpec
CONSTANTS
  RingSlots = 2
  LowFree = 1
  HighFree = 1
  LowCount = 0
  BatchMax = 2
  DiskUnits = 2
  DiskReserve = 1
  UintRange = 4194304
  QueueSlots = 1
  SensorCount = 1
  MaxReading = 2
  MaxOld = 1
  MaxTime = 0
PROPERTY PollingResumes
PROPERTY StoresAndForwards
