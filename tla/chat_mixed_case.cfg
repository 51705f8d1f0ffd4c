SPECIFICATION ChatFairSpec
CONSTANTS
  alice = alice
  bob = bob
  bobUpper = bobUpper
  a1 = a1
  b1 = b1
  b2 = b2
  Addrs = {alice, bob, bobUpper}
  Email <- MCEmail
  Sessions = {a1, b1}
  Owner <- MCOwnerTwo
  MaxMsgs = 1
  Resps <- MCResps
  MaxConns = 2
  Window = 1
  NoSession = NoSession
  NoReq = NoReq
  NoDoc = NoDoc

INVARIANTS
  NoMissedPushAnyCase

CHECK_DEADLOCK FALSE
