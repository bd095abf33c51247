SPECIFICATION Spec
CONSTANTS
  s1 = s1
  s2 = s2
  s3 = s3
  Sources = {s1, s2, s3}
  Media <- MCMedia
  Specs <- MCSpecs
  Generated <- MCGenerated
  maxSymlinks = 8
INVARIANTS
  ServesWhatIsConfigured
  SourcesOnce
PROPERTY
  InodesStable
CHECK_DEADLOCK FALSE
