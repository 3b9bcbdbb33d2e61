SPECIFICATION FairSpec
CONSTANTS
  Callers = {c1, c2, c3}
  Threshold = 2
  BaseCooldown = 4
  MaxCooldown = 7
  ProbeTimeout = 3
  MaxFlight = 2
  MaxTrips = 2
INVARIANTS
  SingleProbe
PROPERTIES
  OnlyProbesExtend
  RecoversWhenHealthy
