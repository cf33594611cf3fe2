SPECIFICATION FairSpec
CONSTANTS
  Blocks = {1, 2, 3, 4, 5, 6, 7}
  Schedule <- MCSchedule
  Threads = {t1, t2, t3}
  MayFail = TRUE
INVARIANTS
  GroupExclusive
  ReadsPlainB
  SumComplete
PROPERTIES
  Closes
  SumSpec
