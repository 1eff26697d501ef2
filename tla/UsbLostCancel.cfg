\* Two handles: both cancellations of one miss its transfer.
SPECIFICATION FairSpec
CONSTANTS
  d1 = d1
  d2 = d2
  Devices <- TwoDevices
  MaxReports = 1
  Reached = 1
  Idle = Idle
  UnplugWhileOpening = FALSE
  EventErrors = FALSE
PROPERTY
  CloseReturns
CHECK_DEADLOCK FALSE
