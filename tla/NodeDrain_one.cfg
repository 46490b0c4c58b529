\* One drain against a moving cluster: every kind of pod, every option.
SPECIFICATION Spec
CONSTANTS
  Drains = {d1}
  Pods = {web, bare, agent}
  Mirror = {}
  DaemonSet = {agent}
  Unmanaged = {bare}
  EmptyDir = {bare, agent}
  Options <- AllOptions
  ErrorStatus = {0, 404, 429, 500}
  Budget = 3
  MaxCall = 1
  MaxUid = 1
INVARIANTS
  TypeOK
  AcceptedIsGoing
  DrainRespectsOptions
  EmptiedStaysEmpty
  WaitBudget
