\* Single and batch requests against a moving cluster.
SPECIFICATION FairSpec
CONSTANTS
  n1 = n1
  n2 = n2
  Nodes = {n1, n2}
  Bodies <- SomeBodies
  ErrorStatus = {0, 403, 404, 409, 500}
INVARIANTS
  OneResultPerNode
  DeniedNeverSent
  ResultsHold
  ReadinessGate
  FailureLayers
PROPERTIES
  EveryRequestAnswers
