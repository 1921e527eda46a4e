\* Two workers forked from one process: one reply group.
SPECIFICATION Spec
CONSTANTS
  Workers = {w1, w2}
  GroupOf <- Forked
  Requests = {r1, r2}
  Ids = {k1, k2}
  MaxFaults = 0
  None = None
INVARIANTS EveryReplySeen
CHECK_DEADLOCK FALSE
