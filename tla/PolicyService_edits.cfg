\* Policed writes while the users file is edited, replaced, broken and removed.
SPECIFICATION Spec
CONSTANTS
  r1 = r1
  r2 = r2
  Requests = {r1, r2}
  Texts <- SomeTexts
  Document <- SomeDocuments
  Ask <- SomeAsk
  Inodes = {"a", "b"}
  MaxClock = 1
  DistinctStamps = TRUE
INVARIANTS
  JudgedByOneCurrentVersion
  RefusalNamesItsRule
  InvalidMeansBroken
\* The editors stop at the bounds and no more requests come.
CHECK_DEADLOCK FALSE
