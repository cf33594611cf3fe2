SPECIFICATION Spec
CONSTANTS
  Idx = {1, 2, 3, 4}
  Triples <- SwapTriples
  Machines = {"dense"}
  K = 2
  Dim = 2
  Symmetries <- OrderThree
  Tensors = {}
  AnyDiagonal = FALSE
  AnyPermutation = {"extract"}
INVARIANT DenseExact
