\* Two requests for one namespace, one without an id, and others who create,
\* edit and delete it.
SPECIFICATION Spec
CONSTANTS
  r1 = r1
  r2 = r2
  k = k
  q = q
  v = v
  None = None
  Requests = {r1, r2}
  Anonymous = {r2}
  FreeKey = {k}
  KubeKey = {q}
  Value = {v}
  Bodies <- SomeBodies
  ErrorStatus = {0, 403, 500}
INVARIANTS
  ProvenanceHolds
  ConflictTrue
  ClientErrorMeansUntouched
PROPERTIES
  OnlyItsOwn
