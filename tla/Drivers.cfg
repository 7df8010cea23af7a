SPECIFICATION DriversSpec
CONSTANTS
  Cols = 2
  Ram = 4
  MaxCalls = 2
  MaxLcdFailures = 1
  MaxChipFailures = 2
  MaxReboots = 2
  RawValues = {0, 1, 2047, 2048, 4095}
  SettleCount = 3
  ImmediateCount = 2
  MaxPayload = 3
  Bytes = {0, 1, 255}
INVARIANTS ScreenIsRight RunsAsConfigured GenConfReadsBack UnanimousBatch OneChangeIsNoticed
PROPERTIES CursorIsKnown ImplementsDetectors
CHECK_DEADLOCK FALSE
