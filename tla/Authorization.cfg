SPECIFICATION Spec
CONSTANTS
  Calls = {c1, c2}
  Networks = {"main", "sig"}
  KeyNetwork = "main"
  Options <- MCOptions
  OptionsOf <- MCOptionsOf
  Subjects <- MCSubjects
  Sessions = {s1, s2}
  Salt = "salt"
  Credential <- MCCredential
  Pin <- MCPin
  MaxLifetime = 2
  MaxRotations = 1
  MaxTime = 1
INVARIANT CacheHolds
INVARIANT ArtifactExact
INVARIANT ActionKeyFinds
INVARIANT BurnLostOnlyToRotation
PROPERTY ResultVerifies
SYMMETRY MCSymmetry
CHECK_DEADLOCK FALSE
