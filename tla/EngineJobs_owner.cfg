\* the main loop thread is the only client; driver changes, RT calls, shutdown
CONSTANTS
  Owner = main
  Clients = {main}
  Jobs = {j1, j2}
  Drivers = {null, pcm}
  NullDriver = null
  NoDriver = none
  NoJob = nojob
  BlockLength <- MCBlockLength
  MAX_BUFFER_SIZE = 3
  MaxRtJobs = 1
  ShutdownCalls = {"stop", "atquit"}
SPECIFICATION Spec
CHECK_DEADLOCK FALSE
INVARIANTS
  StampsInSync
  OwnerNotified
  ConstSeesModifications
  DriverSettled
PROPERTIES
  JobsComplete
