SPECIFICATION Spec
CONSTANTS
  Idx = {1, 2, 3, 4}
  Triples <- SwapTriples
  Machines = {"operations"}
  K = 2
  Dim = 2
  Symmetries <- OrderThree
  Tensors <- Symmetric
  AnyDiagonal = TRUE
  AnyPermutation = {}
INVARIANTS
  OperationsExact
