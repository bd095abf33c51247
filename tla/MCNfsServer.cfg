SPECIFICATION Spec
CONSTANTS
  a = a
  b = b
  s1 = s1
  s2 = s2
  u1 = u1
  u2 = u2
  t1 = t1
  Shares = {s1, s2}
  Names = {a, b}
  Trees <- MCTrees
  Depth = 2
  Udp = {u1, u2}
  Tcp = {t1}
  Plans <- MCPlans
  DrcSize = 2
  MaxRecord = 2
  MaxFiles = 5
INVARIANTS
  
  
  LandsOnItsFile
  
CHECK_DEADLOCK FALSE
