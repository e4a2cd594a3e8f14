SPECIFICATION Spec
CHECK_DEADLOCK FALSE
CONSTANTS
  t1 = t1
  t2 = t2
  a = a
  b = b
  nl = nl
  MAX_OPS = 2
  Ptr = {p1, p2, p3}
  NULL = NULL
  Thread = {t1, t2}
  Writer = {t1, t2}
  Reader = {t2}
  Seeker = {t1}
  NoThread = NoThread
  Byte <- Bytes
  Newline = nl
  Freed = Freed
  Garbage = Garbage
  Chunk <- Whole
  Counts = {0, 2, 9}
  SeekTo <- SeekAny
  Offsets <- Moves
  SizeMod = 16
  MaxPending = 3
  Faults = {"signal", "copy_from", "alloc"}
SYMMETRY SamePtr
INVARIANTS
  QuietReadIsExact
  SeekReturnsRest
  OneOwner
  MutualExclusion
