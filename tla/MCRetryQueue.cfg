\* One object whose passes fail; a delay of three ticks.
CONSTANTS
  requeueAfterTransient = 3
  MaxTime = 7
  MaxRetries = 3
SPECIFICATION Spec
CHECK_DEADLOCK FALSE
INVARIANT NoHotLoop
