SPECIFICATION Spec
CONSTANTS
  Xpub <- MCXpub
  RootOf <- MCRootOf
  NetOf <- MCNetOf
  Probe <- MCProbe
  Origin = {"ledger"}
  MaxSigners = 255
  MaxSets = 255
  MaxDecay = 65534
  MaxIndex = 1
  Sources <- MCSources
  Reservation = {r1}
INVARIANT ReservationSound
INVARIANT ReportedIsDone
INVARIANT TemplateRoundTrip
INVARIANT TreeSound
CHECK_DEADLOCK FALSE
