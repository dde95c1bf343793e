SPECIFICATION AccessSpec
CONSTANTS
  k1 = k1
  k2 = k2
  p0 = p0
  p1 = p1
  p2 = p2
  p3 = p3
  g1 = g1
  g2 = g2
  v0 = v0
  v1 = v1
  b = b
  Key = {k1, k2}
  Principal = {p0, p1, p2, p3}
  Holders = {p0}
  Grant = {}
  Revoke = {}
  Rebind = {b}
  KeysOf <- MCKeysOf
  SubjectOf <- MCSubjectOf
  PreviousOf <- MCPreviousOf
  Guarded = {}
  MaxConcurrent = 1
INVARIANT RebindLeavesWorking
CHECK_DEADLOCK FALSE
