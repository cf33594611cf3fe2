SPECIFICATION UnitsSpec
CONSTANTS
  Machines = {"labels"}
  Waiters = {w1}
  Signallers = {s1, s2}
  Broadcasters = {b1}
  SpuriousWakeups = TRUE
  Calls = 3
  GrowPages = 3
  ByteBits = 4
  OffLimit = 64
  SizeLimit = 4
  MaxLive = 5
  MaxFails = 1
  Clients = {c1, c2, c3}
  InitSlots = 1
  MaxPtrs = 2
  CloseDuringWrite = FALSE
  Problems <- ProblemSet
  batch_size = 6
  Tables <- PointGroups
  Starts <- LabelledTensors
  MaxOrder = 5
  MaxCalls = 2
  AnyMerge = FALSE
  AnyReduce = TRUE
  AnyUse = FALSE
CHECK_DEADLOCK FALSE
INVARIANT NonzeroAllowed
