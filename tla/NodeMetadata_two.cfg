\* Two requests for one node, and others who edit it.
SPECIFICATION Spec
CONSTANTS
  r1 = r1
  r2 = r2
  k1 = k1
  k2 = k2
  v = v
  None = None
  Requests = {r1, r2}
  Fields = {"labels", "taints"}
  Key = {k1, k2}
  Value = {v}
  Bodies <- SomeBodies
  ErrorStatus = {0}
SYMMETRY Symmetric
INVARIANTS
  UpdatesKept
  AnswerHolds
PROPERTIES
  OthersKept
