\* What the route says of a batch that ends in an error.
SPECIFICATION Spec
CONSTANTS
  n1 = n1
  n2 = n2
  Nodes = {n1, n2}
  Bodies <- SomeBodies
  ErrorStatus = {403, 500}
INVARIANTS
  ErrorMeansUntouched
