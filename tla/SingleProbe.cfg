SPECIFICATION Spec
CONSTANTS
  c1 = c1
  c2 = c2
  Caller = {c1, c2}
  max_attempts <- MCMaxAttempts
  Weight = {2}
  Capacity = 8
  Refill = 2
  Threshold = 2
  Cooldown = 2
  U32Max = 1000000
  BaseDelay = 2
  MaxDelay = 5
  MaxTime = 4
  MaxSettings = 0
  MaxCalls = 5
INVARIANT SingleProbe
CHECK_DEADLOCK FALSE
