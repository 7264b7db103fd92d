CONSTANTS
  BlockLength = 2
  Periods = {1, 3}
  UserFrames = 0
  AlsaPeriod = 2
  AlsaBuffers <- MCAlsaBuffers
  PcmNames = {"null", "alsa", "auto"}
  MidiPrefs <- MCMidiPrefs
  EngineThread = "engine"
  Notifiers = {"engine", "other"}
  Procs = {"p1"}
  NoProc = "null"
  QueueTail = "tail"
  BusFlags = {"BUSCONNECT"}
  ParamCount = 3
  BlockBits = 2
  LiveProps = {2}
  NProcParams = 2
  SentValues = {1, 2}
  MaxParamValue = 1
  MaxParamSets = 2
  Instruments = {1, 2}
  MaxSelects = 4
  MaxPosts = 3
SPECIFICATION DriversSpec
CHECK_DEADLOCK FALSE
INVARIANTS
  
  ParamsSound

  
