SPECIFICATION Spec
CHECK_DEADLOCK FALSE
CONSTANTS
  Conn = {c1, c2}
  Bound = 3
  Newline = nl
  SeekText = SeekText
  Message <- Texts
  Unread = {0, 1}
  ReadSize = 3
  MaxPieces = 3
SYMMETRY Connections
INVARIANTS
  PiecesAreKept
  AnswerIsWhole
  SeeksAreOwn
