\* Two overlapping POST /orders/{id}/lines.
SPECIFICATION Spec
CONSTANTS
  Requests = {r1, r2}
  OrderIds = {o1}
  LineIds = {l1, l2}
  Products = {p1}
  Prices <- MCOnePrice
  Quantities <- MCQuantities
  MaxTotal = 3
  None = None
  PoolSize = 2
  Ops <- AddLineOnly
INVARIANTS TotalIsSumOfLines
CHECK_DEADLOCK FALSE
