CONSTANTS
  Threads = {t1, t2, t3}
  Nodes = {n1, n2, n3}
  NULL = null
  MpmcThreads = {t1, t2}
  MpmcNodes = {n1, n2, n3}
  MpmcNull = null
  TAIL = tail
  MaxPops = 3
  EngineThread = "engine"
  Notifiers = {"engine", "other"}
  Procs = {"p1", "p2"}
  NoProc = "null"
  QueueTail = "tail"
  BusFlags = {"BUSCONNECT"}
  ParamCount = 3
  BlockBits = 2
  LiveProps = {}
  Sources = {"io", "timer", "gui"}
  Fds = {"io"}
  NLoops = 2
  LoopOf <- MCLoopOf
  Priority <- TimerHigher
  Initial <- MCInitial
  MayQuit = FALSE
SPECIFICATION ThreadsSpec
SYMMETRY Symmetry
CHECK_DEADLOCK FALSE
INVARIANTS
  NodesAccounted
  MpmcAccounted
  NotifySound
  LoopSound
PROPERTIES
  OperationsAtomic
  DispatchSound
