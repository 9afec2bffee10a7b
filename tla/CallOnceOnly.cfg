SPECIFICATION CallSpec
CONSTANTS
  blank = blank
  k1 = k1
  k2 = k2
  Blank = blank
  Contents <- MCContents
  Cost <- MCCost
  Seconds = 2
  Tokens = 5
  OnceOnly = TRUE
  MaxNow = 3
  MaxMult = 1
  MaxUsage = 1
  MaxMade = 3
  MaxUsed = 3
  MaxCalls = 3
INVARIANT BaselinesAreFree
INVARIANT CountedOnce
INVARIANT RecordIsComplete
PROPERTY KeepsPromise
PROPERTY ProviderStopsAtDeadline
PROPERTY EveryRequestEnds
