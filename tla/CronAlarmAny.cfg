SPECIFICATION FairSpec
CONSTANTS
  Slots = 2
  Crontabs = {1, 2}
  BadCrontabs = {2}
  NeverCrontabs = {}
  Prompt = FALSE
  MaxJob = 3
  MaxTime = 2
INVARIANT NoLeak
INVARIANT StartIsAccepted
PROPERTY CommandsEnd
