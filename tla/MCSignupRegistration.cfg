SPECIFICATION Spec
CONSTANTS
  Codes = {c1}
  Users = {ann, bob, eve}
  c1 = c1
  ann = ann
  bob = bob
  eve = eve
  None = None
  Absent = Absent
  Bad = Bad
  Limits = {0, 2}
  MaxEdits = 2
  MaxFailures = 1
  MaxKills = 2
SYMMETRY Symmetry
INVARIANTS TypeOK UsesAreSpent UsesAreReturned AnsweredUsersSurvive
