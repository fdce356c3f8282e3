SPECIFICATION Spec
CONSTANTS
  Header = 2
  AreaSize = 12
  BSize = 21
  NBlocks = 3
  Byte = 16
  Names = {"dot", "dotdot", "a", "b", "c"}
  Dot = "dot"
  DotDot = "dotdot"
  Length <- MCLength
  Files = {3, 4}
  Self = 2
  Parent = 1
INVARIANT
  RecordsFit
  ListedOnce
PROPERTY
  ImplementsDir
CHECK_DEADLOCK FALSE
