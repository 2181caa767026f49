SPECIFICATION Spec
CONSTANTS
  Slots = 1
  Crontabs = {1}
  BadCrontabs = {}
  NeverCrontabs = {}
  Prompt = FALSE
  MaxJob = 2
  MaxTime = 2
INVARIANT GivesBeforeDeletion
\* The other counterexample, with this line in the place of the last:
\* INVARIANT NoLauncherOfDestroyed
