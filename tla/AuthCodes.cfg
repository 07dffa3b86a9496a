CONSTANTS
  Codes = {c1, c2, c3}
  Threads = {h1, h2}
  Loop = loop
  TTL = 1
  MaxTime = 3
  Nobody = Nobody
SPECIFICATION FairSpec
INVARIANT
  CodesInv
PROPERTIES
  LockIsFreed
  SingleUse
  ExpiredIsRefused
