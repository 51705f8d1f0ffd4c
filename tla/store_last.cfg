SPECIFICATION StoreSpec
CONSTANTS
  ann = ann
  bob = bob
  Bob = Bob
  cat = cat
  Addrs <- MCAddrs
  Email <- MCEmail
  Messages = {m1, m2}
  Talks <- MCPair
  Readers = {r1}
  MaxClock = 2
  HistoryLimit = 2
  DefaultLimit = 2
  Limits <- MCLimits
INVARIANTS
  LastMessageIsNewest
CHECK_DEADLOCK FALSE
