SPECIFICATION FairSpec
CONSTANTS
  Slots = 2
  Crontabs = {1, 2, 3}
  BadCrontabs = {}
  NeverCrontabs = {}
  Prompt = TRUE
  MaxJob = 2
  MaxTime = 2
INVARIANT ListFollowsAlarms
INVARIANT AlarmsAreScheduled
PROPERTY FiresOnce
PROPERTY DueFires
