SPECIFICATION Spec
CONSTANTS
  c1 = c1
  c2 = c2
  c3 = c3
  Call = {c1, c2, c3}
  KindsOf <- MCKinds
  Key = {k1, k2}
  Stored = {k1}
  Old = old
  MaxConcurrent = 2
INVARIANT PopRestored
INVARIANT OwnerOpens
INVARIANT StoredCoherent
INVARIANT NoEarlyCall
INVARIANT DisposedIsQuiet
SYMMETRY MCSymmetry
CHECK_DEADLOCK FALSE
