SPECIFICATION FairSpec
CONSTANTS
  c1 = c1
  c2 = c2
  h1 = h1
  h2 = h2
  Conns = {c1, c2}
  Addresses = {h1, h2}
  MaxAttempts = 1
  Plans <- MCPlans
INVARIANT  FailedStartLeavesNothing InstallOrder
PROPERTY CloseReturns
CHECK_DEADLOCK FALSE
