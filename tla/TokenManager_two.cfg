\* Two calls, with one token manager or two, whose tokens expire and are revoked.
SPECIFICATION FairTokensSpec
CONSTANTS
  c1 = c1
  c2 = c2
  Calls = {c1, c2}
  Lifetimes = {2}
  Buffer = 1
  MaxDelay = 1
  MaxClock = 3
INVARIANTS
  AtMostOnce
PROPERTIES
  SentUnexpired
  EveryCallReturns
\* The calls end and the clock stops at its bound.
CHECK_DEADLOCK FALSE
