SPECIFICATION ShFairSpec
CONSTANTS
  BSize = 4
  NBlocks = 1
  Blocks = {1, 2}
  Bytes = {1, 2}
  Fds = {0, 1}
  StrayFds = {}
  Buffers <- MCBuffers
  ReadCounts = {2}
  Lines <- MCLines
  MaxArgs = 3
  BufSize = 2
  File = "f"
  Sources <- MCSources
  FarFds = {"9"}
INVARIANT
  ArgsFresh
  CatPrintsFile
  LoadStores
PROPERTY
  CommandsReturn
CHECK_DEADLOCK FALSE
