SPECIFICATION FairSpec
CONSTANTS
  k1 = k1
  k2 = k2
  Keys = {k1, k2}
  SsidLengths = {0, 14}
  PassLengths = {14}
  SsidSize = 32
  PassSize = 64
  Reread = 2
  ResendMax = 2
  ProvisionMax = 2
  Ops = {"set", "reset", "clear", "pair"}
  MayFail = {"tty", "input", "file", "crypto", "nmcli", "socket", "wire"}
  MaxFailures = 1
  MaxRuns = 2
  MaxIncidents = 1
INVARIANTS
  TypeOK
  EchoComesBack
  FinishedStoreIsReadable
  SendsWhatWasStored
  SuccessMeansDelivered
  SuccessRestores
  RestoredAfterSession
PROPERTY AttemptsEnd
CHECK_DEADLOCK FALSE
