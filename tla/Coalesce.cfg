SPECIFICATION Spec
CONSTANTS
  Idx = {1, 2, 3, 4}
  Triples <- SwapTriples
  Machines = {"lists"}
  K = 3
  Dim = 3
  Symmetries <- EvenOnFour
  Tensors = {}
  AnyDiagonal = FALSE
  AnyPermutation = {}
INVARIANT ListComplete
