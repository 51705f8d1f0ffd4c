SPECIFICATION StoreSpec
CONSTANTS
  ann = ann
  bob = bob
  Bob = Bob
  cat = cat
  Addrs <- MCAddrs
  Email <- MCEmail
  Messages = {m1, m2, m3}
  Talks <- MCTalks
  Readers = {r1}
  MaxClock = 2
  HistoryLimit = 2
  DefaultLimit = 2
  Limits <- MCLimits
INVARIANTS
  StoreTypeOK
  StoreInv
  HistoryIsNewest
  PartnersOnce
SYMMETRY MCSymmetry
CHECK_DEADLOCK FALSE
