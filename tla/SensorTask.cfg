SPECIFICATION FairSpec
CONSTANTS
  p0 = p0
  p90 = p90
  flat = flat
  invalid = invalid
  Pose = {p0, p90}
  Flat = flat
  Invalid = invalid
  MovesEarly = FALSE
  MayFail = {"init", "arm", "status", "sample"}
  MaxFailures = 2
  MaxTurns = 2
  MaxReadings = 2
INVARIANTS
  TypeOK
  LineIsHeard
  WaitsForOneDetector
  DeathIsKnown
PROPERTIES
  TurnedPoseIsReported
CHECK_DEADLOCK FALSE
