SPECIFICATION FairSpec
CONSTANTS
  BSize = 2
  NBlocks = 2
  Blocks = {1, 2, 3, 4}
  Bytes = {1, 2}
  Fds = {0, 1}
  StrayFds = {1}
  Buffers <- MCBuffers
  ReadCounts = {1, 2, 3}
INVARIANT
  TypeOK
  NoHoles
  OffsetsInFile
PROPERTY
  ImplementsFile
  ShortCallsReturn
CHECK_DEADLOCK FALSE
