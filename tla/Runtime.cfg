CONSTANTS
  LoftThreads = {"t1", "t2"}
  LoftSizes = {2000000}
  MaxSpans = 2
  MaxSpanSize = 8388608
  MaxBlocks = 3
  MemThreads = {"t1", "t2"}
  AllocLengths = {1, 2}
  MINIMUM_ARENA_SIZE = 4
  MaxArenas = 2
  MaxHeld = 2
  MaxHandlers = 3
  Details = {"a"}
  MaxDepth = 2
  MSEC = 2
  DelayMs = 1
  IntervalMs = 2
  OnceMs = 1
  MaxTime = 3
  MaxOnce = 2
  MaxRaises = 1
  RacingRemoval = FALSE
  dev1 = dev1
  dev2 = dev2
  dev3 = dev3
  Devices = {dev1, dev2, dev3}
  Kind <- MCKind
  MaxJobs = 2
  Caps <- MCCaps
  Delays <- MCDelays
  MaxSent = 2
  NVoices = 2
  NoteKeys <- MCNotes
  KEY_C <- MCKey
  FULL = 2
  P = 16
  OscSettings <- MCSettings
  Increments = {6, 14}
  WIDTH = 3
  WSHIFT = 1
SPECIFICATION RuntimeSpec
CHECK_DEADLOCK FALSE
INVARIANTS
  MemorySound
  
  ChainSound
  VoicesSound
