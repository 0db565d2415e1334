SPECIFICATION Spec
CONSTANTS
  t1 = t1
  t2 = t2
  t3 = t3
  t4 = t4
  Own = Own
  Other = Other
  None = None
  Empty = Empty
  Tests <- SmallTests
  Folder <- SmallFolder
  Fates <- SmallFates
  MAX_ROWS = 3
  NOTE_BYTES = 9
  MaxSweeps = 1
  MaxOwn = 1
  MaxResets = 0
  MaxFaults = 0

PROPERTY OwnRunKept
CHECK_DEADLOCK FALSE
