SPECIFICATION FairSpec
CONSTANTS
  o0 = o0
  o90 = o90
  Orient = {o0, o90}
  QueueLen = 2
  SendMax = 1
  MaxStamps = 5
  MaxMoves = 1
  MaxIncidents = 2
  MayFail = {"samples"}
INVARIANTS
  TypeOK
  RestMeansDelivered
PROPERTIES
  CommandResolves
  ScreenComesRight
CHECK_DEADLOCK FALSE
