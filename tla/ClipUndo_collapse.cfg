\* three notes at the same tick
CONSTANTS
  Clips = {c1}
  Ticks = {0, 1}
  MaxId = 4
  MaxUndo = 8
  MaxGroups = 0
  Batches <- MixedBatches
SPECIFICATION ClipSpec
CHECK_DEADLOCK FALSE
PROPERTIES
  CollapsePreservesNewest
