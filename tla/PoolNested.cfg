SPECIFICATION Spec
CONSTANTS
  t1 = t1
  t2 = t2
  t3 = t3
  r1 = r1
  r2 = r2
  n1 = n1
  Main = main
  NoWorker = noworker
  NoTask = notask
  NoSource = nosource
  Roots <- OneRoot
  TaskSeq <- NestTaskSeq
  Nested <- NestCall
  Cost <- UnitCost
  Workers = {w1, w2, w3}
  NThreads = 2
  NCpus = 2
  LqLen = 2
  Task = {t1, t2, t3}
  Source = {r1, n1}
  Throwing = {t3}
  Blocking = {t2}
SYMMETRY Symmetric
INVARIANTS
  
  
  NoCpuWasted
  SourcesExact
PROPERTIES
  SubmitSpec
