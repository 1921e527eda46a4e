\* Two sessions, three tokens, one failure, under fair scheduling.
SPECIFICATION FairSpec
CONSTANTS
  Tokens = {t1, t2, t3}
  Requests = {r1, r2}
  MaxFailures = 1
  None = None
INVARIANTS Inductive RotationRevokes RevokedHasSuccessor LateIsRefused
PROPERTIES UsableStays RevokedIsPurged
CHECK_DEADLOCK FALSE
