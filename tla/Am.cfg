SPECIFICATION FairSpec
CONSTANTS
  Main = Main
  KThreads = {k1}
  UThreads = {u1}
  Args = {a, b}
  NULL = NULL
  Junk = Junk
  MaxDepth = 1
  ClientSetsSp = TRUE
  Spaces = {s1, s2}
  Segments <- MCSegments
  UserSpace <- MCUserSpace
  PhysPages = {8, 9}
  Tables <- MCTables
  PageNumber <- Identity
INVARIANTS TrapTransparent ScratchTellsKernel TranslationCorrect
PROPERTIES Settles
