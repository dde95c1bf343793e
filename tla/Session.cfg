SPECIFICATION Spec
CONSTANTS
  alice = alice
  bob = bob
  s1 = s1
  s2 = s2
  a1 = a1
  v1 = v1
  Client = {alice, bob}
  Sign = {s1, s2}
  Authorize = {a1}
  Verify = {v1}
  ClientOf <- MCClientOf
  Home = home
  Nobody = nobody
  Pooled = TRUE
  MaxConcurrent = 3
  MaxThrows = 1
INVARIANT RestoredIfSerial
INVARIANT OwnIfSerial
INVARIANT RestoredIfNested
CHECK_DEADLOCK FALSE
