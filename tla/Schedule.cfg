SPECIFICATION FairSpec
CONSTANTS
  Idx = {1, 2, 3, 4, 5, 6}
  SymA <- MCSymA
  SymB <- MCSymB
  SymC <- MCSymC
  Threads = {t1, t2}
  BatchLen = 2
INVARIANTS
  GroupsIndependent
  EveryBlockMade
  BooksRight
PROPERTIES
  Builds
