SPECIFICATION FairSpec
CONSTANTS
  Loggers = {l1, l2}
  l1 = l1
  l2 = l2
  LogSlots = 2
  QueueSlots = 1
  MaxMsg = 5
  TooLong = {1}
INVARIANT Accounted
INVARIANT NoLostWakeup
PROPERTY Drains
