\* Two handles whose threads run each other's callbacks, and every error of libusb.
SPECIFICATION Spec
CONSTANTS
  d1 = d1
  d2 = d2
  Devices <- TwoDevices
  MaxReports = 2
  Reached = 1
  Idle = Idle
  UnplugWhileOpening = TRUE
  EventErrors = TRUE
INVARIANTS
  NoReaderLeftAsleep
  FreedWhenDone
PROPERTY
  ImplementsHandle
CHECK_DEADLOCK FALSE
