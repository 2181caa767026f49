SPECIFICATION Spec
CONSTANTS
  Loggers = {l1}
  l1 = l1
  LogSlots = 2
  QueueSlots = 1
  MaxMsg = 5
  TooLong = {1}
INVARIANT DropsReported
\* The other counterexample, with this line in the place of the last:
\* INVARIANT DropMakesRoom
