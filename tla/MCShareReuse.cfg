SPECIFICATION Spec
CONSTANTS
  Names = {a, b}
  Conns = {c1}
  Depth = 1
  MaxFiles = 3
  MaxId = 3
  MaxLog = 40
  Scenes <- ReuseScenes
SYMMETRY Symmetry
VIEW View
INVARIANT HandleNeverMisleads
CHECK_DEADLOCK FALSE
