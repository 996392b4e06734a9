SPECIFICATION Spec
CONSTANTS
  Tokens = {t1, t2}
  Users = {ann}
  t1 = t1
  t2 = t2
  ann = ann
  None = None
  Absent = Absent
  Bad = Bad
  MaxEdits = 4
  MaxFailures = 1
  MaxKills = 2
SYMMETRY Symmetry
INVARIANTS TypeOK RevokedStaysRevoked RemovedStaysRemoved UnsavedIsPending
