SPECIFICATION ChatCrashSpec
CONSTANTS
  alice = alice
  bob = bob
  bobUpper = bobUpper
  a1 = a1
  b1 = b1
  b2 = b2
  Addrs = {alice, bob, bobUpper}
  Email <- MCEmail
  Sessions = {a1, b1}
  Owner <- MCOwnerTwo
  MaxMsgs = 2
  Resps <- MCResps
  MaxConns = 2
  Window = 4
  NoSession = NoSession
  NoReq = NoReq
  NoDoc = NoDoc

INVARIANTS
  ChatTypeOK
  ChatInv
  InOrder
PROPERTIES
  MailboxSpec
  PresenceCrashSpec

CHECK_DEADLOCK FALSE
