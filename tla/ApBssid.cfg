SPECIFICATION Spec
CONSTANTS
  k1 = k1
  k2 = k2
  Keys = {k1, k2}
  SsidLengths = {14}
  PassLengths = {14, 64}
  SsidSize = 32
  PassSize = 64
  Reread = 2
  ResendMax = 2
  ProvisionMax = 2
  Ops = {"set", "reset", "clear", "pair"}
  MayFail = {}
  MaxFailures = 1
  MaxRuns = 1
  MaxIncidents = 0
INVARIANT SendsStoredBssid
CHECK_DEADLOCK FALSE
