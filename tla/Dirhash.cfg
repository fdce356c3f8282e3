SPECIFICATION Spec
CONSTANTS
  Size = 3
  TableSize = 4
  Limit = 3
  Dirs = {1, 2}
  Names = {"dot", "dotdot", a, b}
  a = a
  b = b
  DotNames <- MCDotNames
  Index <- MCIndex
  Slots = 4
  MaxSeq = 3
INVARIANT
  TypeOK
  ListIntact
  ProbesEnd
  LiveNamesFound
PROPERTY
  ImplementsLru
SYMMETRY Renamings
CHECK_DEADLOCK FALSE
