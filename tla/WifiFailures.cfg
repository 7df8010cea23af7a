SPECIFICATION Spec
CONSTANTS
  c1 = c1
  c2 = c2
  Creds = {c1, c2}
  NumSock = 3
  QueueLen = 4
  UdpCreateMax = 1
  TcpCreateMax = 1
  AcceptMax = 1
  NoApMax = 1
  RouterGoneMax = 1
  MaxEvents = 2
  MaxCmds = 1
  MaxIncidents = 1
  MayFail = {"esp_wifi", "lwip", "nvs", "sensor"}
SYMMETRY CredsSymmetry
INVARIANTS
  TypeOK
  NeverStranded
  RoleMatchesSockets
  OnlyAckedCredsPersist
CHECK_DEADLOCK FALSE
