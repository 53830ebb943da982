SPECIFICATION FairSpec
CONSTANTS
  Module = {1, 2, 3}
  None = None
  Graphs <- Shapes
  Breaks <- OneBroken
INVARIANTS NoAssertFails RunsOnceInOrder PromiseMeans
 
