SPECIFICATION Spec
CONSTANTS
  Rec = {r1, r2, r3}
  Key = {k1, k2}
  Iter = {i1, i2}
  None = None
  MaxAdds = 2
  MaxCalls = 0
INVARIANTS SafelyRemoved
CHECK_DEADLOCK FALSE
