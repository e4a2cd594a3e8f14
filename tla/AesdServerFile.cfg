SPECIFICATION FairSpec
CHECK_DEADLOCK FALSE
CONSTANTS
  Conn = {c1, c2}
  Main = Main
  Free = Free
  ReadSize = 2
  MaxPackets = 1
  MaxAlarms = 2
  MaxQuits = 0
  Faults = {"pipe"}
INVARIANTS
  TypeOK
  DescriptorsAreOwn
  FileExclusive
PROPERTIES
  RefinesStore
  ReceivedIsDumped
