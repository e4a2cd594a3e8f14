SPECIFICATION FairSpec
CHECK_DEADLOCK FALSE
CONSTANTS
  Conn = {c1, c2}
  Main = Main
  Free = Free
  ReadSize = 9
  MaxPackets = 1
  MaxAlarms = 1
  MaxQuits = 1
  Faults = {"accept", "create", "a_open"}
INVARIANTS
  HandOver
  FreedAfterJoin
  ExitLeavesOneWorker
PROPERTIES
  ShutdownCompletes
