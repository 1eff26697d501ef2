\* One handle that is sent more reports than it keeps.
SPECIFICATION FairSpec
CONSTANTS
  d1 = d1
  Devices <- OneDevice
  MaxReports = 5
  Reached = 1
INVARIANTS
  NoReaderLeftAsleep
  RunLoopThere
PROPERTIES
  ImplementsHandle
  CloseReturns
  DisconnectNoticed
CHECK_DEADLOCK FALSE
