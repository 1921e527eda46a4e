\* Every operation, one request at a time.
SPECIFICATION Spec
CONSTANTS
  Requests = {r1, r2}
  OrderIds = {o1}
  LineIds = {l1, l2}
  Products = {p1}
  Prices <- MCPrices
  Quantities <- MCQuantities
  MaxTotal = 3
  None = None
  PoolSize = 1
  Ops <- EveryOp
INVARIANTS TotalIsSumOfLines
PROPERTIES AtomicHandlers
CHECK_DEADLOCK FALSE
