SPECIFICATION FairSpec
CONSTANTS
  t1 = t1
  t2 = t2
  t3 = t3
  r1 = r1
  r2 = r2
  n1 = n1
  Main = main
  NoWorker = noworker
  NoTask = notask
  NoSource = nosource
  Roots <- TwoRoots
  TaskSeq <- LiveTaskSeq
  Nested <- NestCall
  Cost <- UnitCost
  Workers = {w1, w2}
  NThreads = 1
  NCpus = 1
  LqLen = 1
  Task = {t1, t2, t3}
  Source = {r1, r2, n1}
  Throwing = {t2}
  Blocking = {t3}
PROPERTIES
  Termination
  WaiterGetsCpu
