SPECIFICATION FairSpec
CONSTANTS
  Agent = {a1, a2, a3}
  Main = main
  Plans <- AllPlans
INVARIANTS TypeOK NoObjectOutlivesTest SabHeldWhileUsed ArgsNeverStale 
PROPERTIES TakenBeforeReturn ReportsOfThisTest BarrierSpec PoliteTestsEnd
CHECK_DEADLOCK FALSE
