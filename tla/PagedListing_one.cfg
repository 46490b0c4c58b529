\* One listing of every kind beside two drains, on two threads.
SPECIFICATION FairSpec
CONSTANTS
  r1 = r1
  d1 = d1
  d2 = d2
  absent = absent
  none = none
  Listings = {r1}
  Others = {d1, d2}
  NumItems = 2
  States = {"Active", "Terminating"}
  Absent = absent
  None = none
  Queries <- MCQueries
  Workers = 2
  ErrorStatus = {0, 400, 410, 500}
  MaxCleanings = 1
INVARIANTS
  CAFilesHold
PROPERTIES
  Atomic
  EveryListingAnswers
