SPECIFICATION Spec
CONSTANTS
  Width = 5
  MinChunk = 4
  PhysMins = {2, 8}
INVARIANTS
  LeastBlock
  SizeRounded
PROPERTY
  ChecksEnd
