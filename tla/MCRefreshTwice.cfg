\* Two refreshes of one token that overlap.
SPECIFICATION Spec
CONSTANTS
  Tokens = {t1, t2, t3}
  Requests = {r1, r2}
  MaxFailures = 0
  None = None
SYMMETRY Symmetry
INVARIANTS OneSuccessor
CHECK_DEADLOCK FALSE
