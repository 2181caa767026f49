SPECIFICATION Spec
CONSTANTS
  Slots = 2
  Crontabs = {1, 2}
  BadCrontabs = {2}
  NeverCrontabs = {}
  Prompt = TRUE
  MaxJob = 2
  MaxTime = 2
INVARIANT AlarmsAreScheduled
