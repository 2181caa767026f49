SPECIFICATION FairSpec
CONSTANTS
  RingSlots = 1
  LowFree = 1
  HighFree = 1
  LowCount = 0
  BatchMax = 1
  DiskUnits = 1
  DiskReserve = 1
  UintRange = 4194304
  QueueSlots = 1
  SensorCount = 1
  MaxReading = 2
  MaxOld = 0
  MaxTime = 0
PROPERTY BlockedReaderResumes
