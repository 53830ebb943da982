SPECIFICATION FairSpec
CONSTANTS
  Agent = {a1, a2}
  Main = main
  Plans <- TwoRounds
PROPERTIES BroadcastReturns
CHECK_DEADLOCK FALSE
