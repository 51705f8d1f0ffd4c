SPECIFICATION ProcessFairSpec
CONSTANTS
  Calls = {c1, c2}
  Envs <- MCEnvs
  MaxStarts = 2

INVARIANTS
  ProcessInv
  ServesAsConfigured
  OneAccount
  CallsHaveStores
  NoUncheckedHandler

PROPERTIES
  
  ShutdownEnds

CHECK_DEADLOCK FALSE
