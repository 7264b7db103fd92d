\* the last parameter of a full block of bits
CONSTANTS
  EngineThread = engine
  Notifiers = {engine}
  Procs = {p1}
  NoProc = null
  QueueTail = tail
  BusFlags = {"BUSCONNECT"}
  ParamCount = 3
  BlockBits = 2
  LiveProps = {0, 1, 2}
SPECIFICATION NotifySpec
CHECK_DEADLOCK FALSE
PROPERTIES
  AllParamsReported
