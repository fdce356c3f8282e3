SPECIFICATION Spec
CONSTANTS
  BSize = 8
  InodeSize = 1
  NBlocks = 30
  Sizes <- MCSizes
  Amounts = {15}
  Writers = {2, 3}
  Behind = 1
  MaxRemoved = 1
  MaxEnds = 2
INVARIANT
  RegionsInOrder
  InodesInRegion
  BitsInBitmap
CHECK_DEADLOCK FALSE
