\* Two devices with equal serial numbers, which come and go; a call and a close.
SPECIFICATION PluginSpec
CONSTANTS
  p1 = p1
  p2 = p2
  t1 = t1
  t2 = t2
  c1 = c1
  config1 = config1
  wire1 = wire1
  serial1 = serial1
  serial2 = serial2
  MainThread = MainThread
  NoConfiguration = NoConfiguration
  NoWire = NoWire
  NoJob = NoJob
  Nobody = Nobody
  Paths <- TwoPaths
  TimedCalls <- OneTimed
  UntimedCalls <- NoJobs
  OpenJobs <- NoJobs
  CloseJobs <- OneClose
  Others <- JustMain
  HostMayReject = FALSE
  HastyErrors = FALSE
  Configurations <- OneConfig
  Allowed <- OneConfig
  KnownPaths <- AllPaths
  WireOf <- SamePool
  SerialOf <- Equal
INVARIANTS
  RegisteredOnce
  UsedWhileThere
  ShutdownReleases
CHECK_DEADLOCK FALSE
