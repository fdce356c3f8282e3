SPECIFICATION Spec
CONSTANTS
  foo = foo
  bar = bar
  Names <- FileNames
  MaxInum = 4
  InlineSlots = 1
  MaxBlocks = 2
  DataStart = 100
  NameWords <- Spelled
  LinkWords = {97}
  BlockSlots = 15
  NlinkMod = 65536
  MaxLinks = 4
  Calls <- LinkCalls
  Args <- LinkArgs
  Pairs <- LinkPairs
  Fds <- None
VIEW LiveView
SYMMETRY NameSymmetry
INVARIANTS NoDanglingEntry NlinkCountsNames NamesUnique ParentAgrees BlocksExclusive CountersAgree RenameMoves
PROPERTIES NamesMove
