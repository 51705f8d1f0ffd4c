SPECIFICATION RateSpec
CONSTANTS
  bob = bob
  ip = ip
  Calls = {c1, c2}
  Requests <- MCOneMachine
  NoEmail = NoEmail
  NoPeer = NoPeer
  Limiters = {l1, l2, l3}
  NoLimiter = NoLimiter
  Minute = 2
  LimitPerMinute = 2
  Burst = 2
  CleanupInterval = 2
  IdleTime = 3
  MaxDelay = 1
  MaxWatch = 0
INVARIANTS
  CountedByIP
CHECK_DEADLOCK FALSE
