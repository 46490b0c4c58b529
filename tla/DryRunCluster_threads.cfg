\* Three calls in three threads: of pods, of the node, and of a namespace.
SPECIFICATION Spec
CONSTANTS
  c1 = c1
  c2 = c2
  c3 = c3
  p1 = p1
  p2 = p2
  p3 = p3
  k1 = k1
  k2 = k2
  v = v
  None = None
  Calls = {c1, c2, c3}
  Pod = {p1, p2, p3}
  DefaultPods <- ThreePods
  Key = {k1, k2}
  Value = {v}
  Ops <- SomeOps
SYMMETRY Symmetry
\* The calls end.
CHECK_DEADLOCK FALSE
INVARIANTS
  EveryPodAccounted
  UnracedIsExact
  CreatedStays
  PatchesKept
