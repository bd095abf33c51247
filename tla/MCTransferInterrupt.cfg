SPECIFICATION FairSpec
CONSTANTS
  N = 2
  QueueCap = 2
  MaxLines = 3
INVARIANTS
  TypeOK
  CleanBetweenTransfers
  NoStaleCancel
  IgnoredWhileOff
  CountIsExact

  
CHECK_DEADLOCK FALSE
