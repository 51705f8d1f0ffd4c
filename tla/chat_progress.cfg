SPECIFICATION ChatFairSpec
CONSTANTS
  alice = alice
  bob = bob
  bobUpper = bobUpper
  a1 = a1
  b1 = b1
  b2 = b2
  Addrs = {bob}
  Email <- MCEmail
  Sessions = {b1, b2}
  Owner <- MCOwnerBoth
  MaxMsgs = 2
  Resps <- MCResps
  MaxConns = 2
  Window = 1
  NoSession = NoSession
  NoReq = NoReq
  NoDoc = NoDoc

INVARIANTS
  NoMissedPush
PROPERTIES
  SendToUserBounded
  GoneClientsAreReaped
  SendToUserReturns

CHECK_DEADLOCK FALSE
