SPECIFICATION FairSpec
CHECK_DEADLOCK FALSE
CONSTANTS
  t1 = t1
  t2 = t2
  a = a
  b = b
  nl = nl
  MAX_OPS = 2
  Ptr = {p1, p2, p3}
  NULL = NULL
  Thread = {t1, t2}
  Writer = {t1}
  Reader = {}
  Seeker = {t2}
  NoThread = NoThread
  Byte <- Bytes
  Newline = nl
  Freed = Freed
  Garbage = Garbage
  Chunk <- Whole
  Counts = {}
  SeekTo <- SeekTwo
  Offsets = {}
  SizeMod = 16
  MaxPending = 3
  Faults = {}
PROPERTIES
  CallsReturn
