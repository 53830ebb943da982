SPECIFICATION Spec
CONSTANTS
  Workloads <- AllWorkloads
  LastGroup = 2
  LooseGroups <- SecondLoose
  MaxLaunch = 2
  MaxFailures = 2
INVARIANTS TypeOK CleanLaunchTable 
PROPERTIES SingleFailureFresh
