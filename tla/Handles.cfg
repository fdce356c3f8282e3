SPECIFICATION Spec
CONSTANTS
  foo = foo
  bar = bar
  Names <- FileNames
  MaxInum = 3
  InlineSlots = 2
  MaxBlocks = 1
  DataStart = 100
  NameWords <- Spelled
  LinkWords = {97}
  BlockSlots = 15
  NlinkMod = 65536
  MaxLinks = 4
  Calls <- HandleCalls
  Args <- HandleArgs
  Pairs <- HandlePairs
  Fds = {0}
VIEW StateView
SYMMETRY NameSymmetry
PROPERTIES DescriptorKeepsFile
