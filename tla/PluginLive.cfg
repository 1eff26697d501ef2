\* Every devices(), call and shutdown() comes to its end: calls with use_timeout, serial numbers distinct.
SPECIFICATION SteadyPluginSpec
CONSTANTS
  p1 = p1
  p2 = p2
  t1 = t1
  t2 = t2
  c1 = c1
  config1 = config1
  wire1 = wire1
  serial1 = serial1
  serial2 = serial2
  MainThread = MainThread
  NoConfiguration = NoConfiguration
  NoWire = NoWire
  NoJob = NoJob
  Nobody = Nobody
  Paths <- TwoPaths
  TimedCalls <- TwoTimed
  UntimedCalls <- NoJobs
  OpenJobs <- NoJobs
  CloseJobs <- NoJobs
  Others <- JustMain
  HostMayReject = FALSE
  HastyErrors = FALSE
  Configurations <- OneConfig
  Allowed <- OneConfig
  KnownPaths <- AllPaths
  WireOf <- SamePool
  SerialOf <- Distinct
PROPERTIES
  DevicesReturns
  ShutdownEnds
  CallsGetDone
CHECK_DEADLOCK FALSE
