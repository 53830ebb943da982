SPECIFICATION FairSpec
CONSTANTS
  SizeZ = 7
  Cpus = 3
  MaxSteps = 1
INVARIANTS SlicesInv
PROPERTIES  CallsReturn
CHECK_DEADLOCK FALSE
