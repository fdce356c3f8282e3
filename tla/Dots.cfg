SPECIFICATION Spec
CONSTANTS
  foo = foo
  bar = bar
  Names <- FileNames
  MaxInum = 3
  InlineSlots = 1
  MaxBlocks = 2
  DataStart = 100
  NameWords <- Spelled
  LinkWords = {97}
  BlockSlots = 15
  NlinkMod = 65536
  MaxLinks = 3
  Calls <- DotCalls
  Args <- DotArgs
  Pairs <- DotPairs
  Fds <- None
VIEW StateView
INVARIANTS TypeOK NlinkCoversNames NamesUnique BlocksExclusive DotsResolve
