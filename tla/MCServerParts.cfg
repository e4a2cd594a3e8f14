SPECIFICATION Spec
CHECK_DEADLOCK FALSE
CONSTANTS
  QHead = {h1, h2}
  Node = {e1, e2, e3}
  NULL = NULL
  BUFFER_SIZE = 3
  MaxBytes = 10
  Unread = {0, 7}
  Digit = {1, 2}
SYMMETRY Interchangeable
INVARIANTS
  TypeOK
  ListsAreLinked
  LoopsVisitAll
  DumpedInOrder
  CommandsAreRead
PROPERTIES
  FullReceivesFit
