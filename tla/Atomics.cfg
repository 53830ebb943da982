SPECIFICATION FairSpec
CONSTANTS
  Agent = {a1, a2, a3}
  CanBlock = {a1, a2}
  Loc = {x, y}
  Value = {0, 1}
  Zero = 0
  NoAgent = none
  INT32_MAX = 3
  Spurious = {a2}
  MaxCalls = 2
INVARIANTS TypeOK ListSound NoLostWakeup
PROPERTIES  OkWasCounted SleepersWake
