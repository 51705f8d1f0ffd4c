SPECIFICATION HubSpec
CONSTANTS
  alice = alice
  bob = bob
  a1 = a1
  b1 = b1
  b2 = b2
  r1 = r1
  r2 = r2
  Addrs = {alice, bob}
  Sessions = {a1, b1, b2}
  Owner <- MCOwnerThree
  MaxConns = 3
  NoSession = NoSession
  Resps = {r1, r2}
  Window = 2
SYMMETRY MCSymmetry
INVARIANTS
  HubInv
  OnlyOpenRegistered
  HealthyRegistered
  SendsToAddressee
PROPERTIES
  EveryEndpointServed
  PresenceSpec
CHECK_DEADLOCK FALSE
