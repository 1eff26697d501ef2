\* Four units that come and go while they are listed, on every platform.
SPECIFICATION Spec
CONSTANTS
  t1 = t1
  t2 = t2
  keyboard = keyboard
  forbidden = forbidden
  Unset = Unset
  Platforms = {"linux", "mac", "windows"}
  Units <- AllUnits
  Interfaces <- TestInterfaces
  Vendor <- TestVendors
  Product <- TestProducts
  Serial <- TestSerials
  Forbidden <- OneForbidden
  Orders <- TestOrders
  KnownDevices <- TestKnown
INVARIANTS
  OwnIdentity
  FoundOnce
  DuplicitMeansTwins
