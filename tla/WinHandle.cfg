\* Two handles that are sent more reports than the driver keeps.
SPECIFICATION FairSpec
CONSTANTS
  d1 = d1
  d2 = d2
  Devices <- TwoDevices
  MaxReports = 4
  RingSize = 2
INVARIANTS
  ReadRemembered
  ToldWhenOver
PROPERTIES
  ImplementsHandle
  CallsReturn
CHECK_DEADLOCK FALSE
