SPECIFICATION FairSpec
CONSTANTS
  p1 = p1
  p2 = p2
  p3 = p3
  c1 = c1
  c2 = c2
  c3 = c3
  NoBlock = noblock
  Blocks = {c1, c2, c3}
  Threads = {p1, p2, p3}
  List <- ShareList
  Dep <- NestedDep
  NCpus = 2
  MayFail = {c3}
INVARIANTS
  
  CountsRequests
  SleeperHasWaker
PROPERTIES
  AllEnd
