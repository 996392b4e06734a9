SPECIFICATION Spec
CONSTANTS
  Absent = Absent
  Bad = Bad
  MaxSets = 3
  MaxFailures = 2
  MaxKills = 2
  MaxDamages = 1
INVARIANTS TypeOK FlagsAgree NothingForgotten
PROPERTIES NeverBackwards
