\* Three requests, a pool of two connections, a buffer of one entry.
SPECIFICATION Spec
CONSTANTS
  N = 3
  n1 = n1  n2 = n2  e1 = e1  e2 = e2
  MaxId = 5
  Emails = {e1, e2}
  Names = {n1, n2}
  Scenarios <- MCScenarios
  PoolSize = 2
  MaxSize = 1
  PageSize = 1
  None = None
INVARIANTS Inductive Consistent Announced BufferBounded PageAgrees Degrades
PROPERTIES PutReplaces RequestsEnd
CHECK_DEADLOCK FALSE
