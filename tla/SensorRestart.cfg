SPECIFICATION FairSpec
CONSTANTS
  p0 = p0
  p90 = p90
  flat = flat
  invalid = invalid
  Pose = {p0, p90}
  Flat = flat
  Invalid = invalid
  MovesEarly = FALSE
  MayFail = {"arm"}
  MaxFailures = 1
  MaxTurns = 1
  MaxReadings = 0
PROPERTIES
  SensorRestarts
CHECK_DEADLOCK FALSE
