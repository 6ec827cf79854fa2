SPECIFICATION FairSpec
CONSTANTS
  c1 = c1
  c2 = c2
  Caller = {c1, c2}
  max_attempts <- MCMaxAttempts
  Weight = {2}
  Capacity = 4
  Refill = 1
  Threshold = 2
  Cooldown = 2
  U32Max = 1000000
  BaseDelay = 2
  MaxDelay = 5
  MaxTime = 5
  MaxSettings = 0
  MaxCalls = 4
INVARIANTS
  TypeOK
  BreakerSound
  RateBounded
PROPERTIES
  ImplementsGate
  
  CallsReturn
CHECK_DEADLOCK FALSE
