\* Every operation, two of three requests in flight at once.
SPECIFICATION Spec
CONSTANTS
  Requests = {r1, r2, r3}
  OrderIds = {o1}
  LineIds = {l1, l2}
  Products = {p1}
  Prices <- MCPrices
  Quantities <- MCQuantities
  MaxTotal = 3
  None = None
  PoolSize = 2
  Ops <- EveryOp
SYMMETRY Symmetry
INVARIANTS Inductive RefundFollowsShipment ShipmentFollowsConfirmation LinesHaveParents TotalExactUnlessRaced
PROPERTIES SnapshotNeverChanges NeverBackToPending
CHECK_DEADLOCK FALSE
