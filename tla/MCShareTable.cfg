SPECIFICATION Spec
CONSTANTS
  Names = {a, b}
  Conns = {c1, c2}
  Depth = 2
  MaxFiles = 4
  MaxId = 4
  MaxLog = 40
  Scenes <- MCScenes
SYMMETRY Symmetry
VIEW View
INVARIANTS
  TypeOK
  MapsAgree
  
  HandleMeansItsFile
  HandleStaysGood
PROPERTY
  FreedStaysFree
CHECK_DEADLOCK FALSE
