SPECIFICATION Spec
CONSTANTS
  c1 = c1
  c2 = c2
  Creds = {c1}
  NumSock = 3
  QueueLen = 4
  UdpCreateMax = 1
  TcpCreateMax = 1
  AcceptMax = 1
  NoApMax = 1
  RouterGoneMax = 1
  MaxEvents = 1
  MaxCmds = 0
  MaxIncidents = 2
  MayFail = {}
INVARIANT DisconnectsAreActedOn
CHECK_DEADLOCK FALSE
