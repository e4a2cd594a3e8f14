SPECIFICATION Spec
CHECK_DEADLOCK FALSE
CONSTANTS
  Conn = {c1, c2}
  Main = Main
  Free = Free
  ReadSize = 2
  MaxPackets = 1
  MaxAlarms = 0
  MaxQuits = 1
  Faults = {}
INVARIANTS
  PacketIsInFile
