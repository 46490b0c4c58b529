\* Two drains of one node at once.
SPECIFICATION FairClusterSpec
CONSTANTS
  Drains = {d1, d2}
  Pods = {cache}
  Mirror = {}
  DaemonSet = {}
  Unmanaged = {}
  EmptyDir = {cache}
  Options <- Unlocked
  ErrorStatus = {500}
  Budget = 1
  MaxCall = 1
  MaxUid = 2
INVARIANTS
  NodeEmptied
PROPERTIES
  EveryDrainAnswers
  LeftoversGo
  StraysAreNamesakes
