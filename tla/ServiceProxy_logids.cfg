\* Two requests at once, and the request id on what one of them logs.
SPECIFICATION Spec
CONSTANTS
  Executions = {"c1"}
  Callers = {"a1", "a2"}
  Viewers = {"v1"}
  Orders <- MCOrders
  MaxPipelines = 1
  MaxFailures = 1
  MaxLines = 4
  MaxRestarts = 0
PROPERTY LogLineOwn
