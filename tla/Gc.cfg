SPECIFICATION Spec
CONSTANTS
  Obj = {a, b, c}
  None = None
  MaxSlots = 4
INVARIANTS HeapInv NoDangling CollectsGarbage NoZombieLeft
SYMMETRY Addresses
