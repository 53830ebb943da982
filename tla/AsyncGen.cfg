SPECIFICATION FairSpec
CONSTANTS
  MaxRequests = 6
  ThenGetter = FALSE
INVARIANTS QueueInv NoAssertFails AwaitUndisturbed
PROPERTIES FirstAnswered
