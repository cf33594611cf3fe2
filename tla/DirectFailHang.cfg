SPECIFICATION FairSpec
CONSTANTS
  p1 = p1
  p2 = p2
  p3 = p3
  c1 = c1
  c2 = c2
  c3 = c3
  NoBlock = noblock
  Blocks = {c1, c2}
  Threads = {p1, p2}
  List <- TwiceList
  Dep <- FlatDep
  NCpus = 2
  MayFail = {c1}
CHECK_DEADLOCK FALSE
PROPERTY RequestsAnswered
