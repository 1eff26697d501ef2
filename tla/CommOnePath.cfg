\* One communicator and its device, every kind of job, and the main thread at the mutex.
SPECIFICATION Spec
CONSTANTS
  p1 = p1
  t1 = t1
  t2 = t2
  u1 = u1
  o1 = o1
  c1 = c1
  main = main
  Paths <- OnePath
  TimedCalls <- OneTimed
  UntimedCalls <- OneUntimed
  OpenJobs <- OneOpen
  CloseJobs <- OneClose
  Others <- MainThread
  NoJob = NoJob
  Nobody = Nobody
  HostMayReject = TRUE
  HastyErrors = TRUE
INVARIANTS
  TypeOK
  NoLostWakeup
  InStepUntilGivenUp
  RepliedOnce
  HandleOwned
  MutexOnlyAroundHid
PROPERTY
  ImplementsService
CHECK_DEADLOCK FALSE
