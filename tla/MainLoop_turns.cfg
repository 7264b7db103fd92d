\* sources of the same priority take turns
CONSTANTS
  Sources = {"io", "timer", "gui"}
  Fds = {"io"}
  NLoops = 2
  LoopOf <- MCLoopOf
  Priority <- SamePriority
  Initial <- MCInitial
  MayQuit = TRUE
SPECIFICATION LoopSpec
CHECK_DEADLOCK FALSE
PROPERTIES
  LoopProgress
