SPECIFICATION Spec
CHECK_DEADLOCK FALSE
CONSTANTS
  t1 = t1
  t2 = t2
  a = a
  b = b
  nl = nl
  MAX_OPS = 2
  Ptr = {p1, p2, p3, p4}
  NULL = NULL
  Thread = {t1, t2}
  Writer = {t1, t2}
  Reader = {}
  Seeker = {t1, t2}
  NoThread = NoThread
  Byte <- Bytes
  Newline = nl
  Freed = Freed
  Garbage = Garbage
  Chunk <- Parts
  Counts = {}
  SeekTo <- Seek
  Offsets = {}
  SizeMod = 32
  MaxPending = 2
  Faults = {"signal", "copy_from", "copy_to", "register"}
SYMMETRY Same
INVARIANTS
  TypeOK
  LeaksOnlyStructs
  CleanupFreesCommands
PROPERTIES
  RefinesDevice
