SPECIFICATION Spec
CONSTANTS
  Idx = {1, 2, 3, 4}
  Triples <- SwapTriples
  Machines = {"orbits", "contraction", "lists", "group", "partitions", "operations", "dense"}
  K = 2
  Dim = 2
  Symmetries <- OrderThree
  Tensors <- SomeTensors
  AnyDiagonal = FALSE
  AnyPermutation = {}
INVARIANTS
  OrbitsComplete
  ContractionExact
  ListComplete
  GroupExact
  PartitionsExact
  OperationsExact

  DenseExact
