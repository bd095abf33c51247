CONSTANTS
  Own = own
  Other = other
  MaxExchanges = 3
  Plans <- MCPlans
SPECIFICATION FairSpec
INVARIANTS
  ShareOutlivesCalls
  FirstCause
PROPERTIES
  RunEnds
  
CHECK_DEADLOCK FALSE
