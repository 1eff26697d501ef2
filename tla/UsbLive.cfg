\* One handle and more reports than it keeps; its device stays plugged while it is being opened.
SPECIFICATION FairSpec
CONSTANTS
  d1 = d1
  d2 = d2
  Devices <- OneDevice
  MaxReports = 5
  Reached = 1
  Idle = Idle
  UnplugWhileOpening = FALSE
  EventErrors = FALSE
PROPERTIES
  ImplementsHandle
  CloseReturns
  DisconnectNoticed
CHECK_DEADLOCK FALSE
