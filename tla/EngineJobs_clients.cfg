\* two client threads push jobs concurrently
CONSTANTS
  Owner = main
  Clients = {main, worker}
  Jobs = {j1, j2, j3}
  Drivers = {null}
  NullDriver = null
  NoDriver = none
  NoJob = nojob
  BlockLength <- MCBlockLength
  MAX_BUFFER_SIZE = 3
  MaxRtJobs = 0
  ShutdownCalls = {}
SPECIFICATION Spec
CHECK_DEADLOCK FALSE
SYMMETRY JobPermutations
INVARIANTS
  TypeOK
  NoLostJobWakeup
  AsyncFIFO
  JobsOwnedByEngine
  BlockingCallDone
