SPECIFICATION SettableSpec
CONSTANTS
  c1 = c1
  c2 = c2
  Caller = {c1, c2}
  max_attempts <- MCMaxAttempts
  Weight = {2}
  Capacity = 4
  Refill = 1
  Threshold = 2
  Cooldown = 2
  U32Max = 1000000
  BaseDelay = 2
  MaxDelay = 5
  MaxTime = 3
  MaxSettings = 1
  MaxCalls = 4
INVARIANT RateBounded
CHECK_DEADLOCK FALSE
