SPECIFICATION Spec
CONSTANTS
  MAX_OPS = 4
  Ptr = {p1, p2, p3, p4, p5}
  NULL = NULL
  Size = {0, 1, 3}
SYMMETRY Addresses
INVARIANTS
  TypeOK
  OffsetsAgree
  Ownership
  FindAgreesWithConcatenation
PROPERTIES
  KeepsLastCommands
