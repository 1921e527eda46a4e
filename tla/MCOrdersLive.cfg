\* The operations that wait for each other, under fair scheduling.
SPECIFICATION FairSpec
CONSTANTS
  Requests = {r1, r2}
  OrderIds = {o1}
  LineIds = {l1, l2}
  Products = {p1}
  Prices <- MCOnePrice
  Quantities <- MCQuantities
  MaxTotal = 3
  None = None
  PoolSize = 2
  Ops <- RowLockers
PROPERTIES RequestsEnd
CHECK_DEADLOCK FALSE
