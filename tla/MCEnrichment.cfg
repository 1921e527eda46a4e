\* Two workers, in one reply group each, one fault, four records.
SPECIFICATION Spec
CONSTANTS
  Workers = {w1, w2}
  GroupOf <- Apart
  Requests = {r1, r2}
  Ids = {k1, k2}
  MaxFaults = 1
  None = None
SYMMETRY Symmetry
CONSTRAINT FourRecords
INVARIANTS Inductive OwnReply PendingExact RepliesBounded NothingSkipped OwnGroupSeesEveryReply
CHECK_DEADLOCK FALSE
