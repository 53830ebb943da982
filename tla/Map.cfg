SPECIFICATION Spec
CONSTANTS
  Rec = {r1, r2, r3}
  Key = {k1, k2}
  Iter = {i1, i2}
  None = None
  MaxAdds = 4
  MaxCalls = 1
INVARIANTS  TableAgrees
 
CHECK_DEADLOCK FALSE
