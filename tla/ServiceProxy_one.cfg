\* One client and one page, beside the stand-ins and beside deploy-service.
SPECIFICATION FairSpec
CONSTANTS
  Executions = {"c1"}
  Callers = {"a1"}
  Viewers = {"v1"}
  Orders <- MCOrders
  MaxPipelines = 2
  MaxFailures = 2
  MaxLines = 4
  MaxRestarts = 1
INVARIANTS
  TypeOK
  ShowsTheLog
  DuplicateOnlyByRetry
PROPERTIES
  KeepsItsPromises
  ViewerStops
