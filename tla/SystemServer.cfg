CONSTANTS
  fs = fs
  f = f
  d = d
  g = g
  MaxTicks = 3
  MaxFds = 3
  Root = fs
  Entries <- MCEntries
  Folders = {d}
  within <- MCWithin
  QueueMax = 1
SPECIFICATION Spec
INVARIANTS
  TicksCounted
  SizesAddUp
PROPERTIES
  CameraQueueDrains
CHECK_DEADLOCK FALSE
