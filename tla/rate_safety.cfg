SPECIFICATION RateFairSpec
CONSTANTS
  bob = bob
  ip = ip
  Calls = {c1, c2}
  Requests <- MCMixed
  NoEmail = NoEmail
  NoPeer = NoPeer
  Limiters = {l1, l2}
  NoLimiter = NoLimiter
  Minute = 2
  LimitPerMinute = 1
  Burst = 1
  CleanupInterval = 2
  IdleTime = 3
  MaxDelay = 1
  MaxWatch = 3
INVARIANTS
  RateInv
  WindowBound
PROPERTIES
  BucketSpec
  StaleEntriesDropped
CHECK_DEADLOCK FALSE
