SPECIFICATION Spec
CONSTANTS
  Slots = 2
  Crontabs = {1, 2}
  BadCrontabs = {}
  NeverCrontabs = {1}
  Prompt = TRUE
  MaxJob = 2
  MaxTime = 2
PROPERTY FiresOnce
