CONSTANTS
  Clips = {"c1", "c2"}
  Ticks = {0, 1}
  MaxId = 2
  MaxUndo = 4
  MaxGroups = 1
  Batches <- MixedBatches
  k1 = k1
  k2 = k2
  ClipKeys = {k1, k2}
  Feeds <- MCFeeds
  NoFeed = nofeed
  TickNum = 5
  TickDen = 2
  BarTicks = 4
  BlockSizes = {1, 2, 4}
  ClipTicks = 20
  Commands = {"invert", "down", "cut", "paste"}
  Spots <- MCSpots
  MaxKey = 1
  Quant = 2
  MinLength = 1
  StartNotes <- MCStartNotes
  MaxRequests = 3
  MaxOther = 1
  MaxDrags = 1
  GridTicks = 8
  Contents = {"h1", "h2"}
  MaxVersion = 2
  MaxClock = 2
  MaxCopies = 2
  bmax = 2
  Processes = {"p1", "p2"}
  MaxDirs = 2
  Projects = {"p", "q"}
  SEMIQUAVER_TICKS = 2
  MIN_BPM = 3
  MAX_BPM = 7
  BLOCKS_PER_MINUTE = 4
  Bpms = {1, 5, 9}
  Numerators = {3, 70}
  Denominators = {3, 8}
  DefaultBpm = 5
  MaxTick = 33
  MaxCalls = 4
  Top = 1
  MaxGestures = 2
  MaxOutside = 1
SPECIFICATION ProjectSpec
CHECK_DEADLOCK FALSE
INVARIANTS
  ClipSound
  PlaybackSound
  
  FilesSound
PROPERTIES
  HistoryRestores
  SamplesKept
