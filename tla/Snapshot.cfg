SPECIFICATION FairSpec
CONSTANTS
  MaxPositions = 5
  Amounts <- SomeAmounts
  BatchLimit = 2
  Worker = {w1, w2, w3}
INVARIANTS
  ResultsComplete
  StoredIsSnapshot
PROPERTIES
  MainReturns
CHECK_DEADLOCK FALSE
