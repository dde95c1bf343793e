SPECIFICATION FairSpec
CONSTANTS
  r1 = r1
  r2 = r2
  r3 = r3
  getKmc = getKmc
  k1 = k1
  k2 = k2
  Req = {r1, r2, r3}
  Event = {getKmc}
  Key = {k1, k2}
  EventOf <- MCEventOf
  KeyOf <- MCKeyOf
  Servers <- MCServers
  Checked = {getKmc}
  Numbered = {getKmc}
  Identified = {r1, r2}
  MaxCopies = 2
INVARIANT Registry
INVARIANT ConsumedOnce
INVARIANT FifoPairing
INVARIANT TaggedPairing
INVARIANT KeyIdentity
PROPERTY ImplementsContract
PROPERTY RequestSettles
CHECK_DEADLOCK FALSE
