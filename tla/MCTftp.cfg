SPECIFICATION FairSpec
CONSTANTS
  Wrap = 3
  Life = 2
  Sizes <- MCSizes
  MinBlk = 1
  DefBlk = 2
  MaxBlk = 3
  AskedBlk <- MCAskedBlk
  Retries = 2
  FinalRetries = 1
INVARIANTS
  TypeOK
  InOrder
  CountsBracketTruth
  ResultIsTrue
PROPERTIES
  Delivery
  Termination
CHECK_DEADLOCK FALSE
