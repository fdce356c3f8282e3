SPECIFICATION Spec
CONSTANTS
  foo = foo
  bar = bar
  Names <- FileNames
  MaxInum = 5
  InlineSlots = 1
  MaxBlocks = 3
  DataStart = 100
  NameWords <- Spelled
  LinkWords = {97}
  BlockSlots = 15
  NlinkMod = 65536
  MaxLinks = 4
  Calls <- DirCalls
  Args <- DirArgs
  Pairs <- NoPairs
  Fds <- None
VIEW LiveView
SYMMETRY NameSymmetry
INVARIANTS NoDanglingEntry ParentAgrees DirNlink
PROPERTIES NamesMove
