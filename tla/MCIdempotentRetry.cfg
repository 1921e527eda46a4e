\* A call and its retry, in a cache with room for every key.
SPECIFICATION Spec
CONSTANTS
  Calls = {a1, a2}
  Keys = {k1}
  Customers = {c1}
  OrderIds = {o1, o2}
  MaxCache = 2
  None = None
SYMMETRY Symmetry
INVARIANTS AlwaysSameRef
CHECK_DEADLOCK FALSE
