SPECIFICATION AccountsSpec
CONSTANTS
  ann = ann
  Ann = Ann
  bob = bob
  Bob = Bob
  old = old
  p1 = p1
  p2 = p2
  k1 = k1
  k2 = k2
  sa = sa
  sb = sb
  Addrs = {ann, Ann, bob, Bob}
  Email <- MCEmail
  Calls = {c1}
  Holders <- MCHolders
  Old = {old}
  OldToken <- MCOldToken
  NoConfig = NoConfig
  NoToken = NoToken
  Kids = {k1, k2}
  One = k1
  NoKid = NoKid
  Secrets = {sa, sb}
  NoSecret = NoSecret
  Configs <- MCUnnamed
  Duration = 1
  Passwords = {p1, p2}
  TooLong = {p2}
  OldPassword <- MCOldPassword
PROPERTIES
  SameConfigSameKid
CHECK_DEADLOCK FALSE
