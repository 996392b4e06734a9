SPECIFICATION FairSpec
CONSTANTS
  Absent = Absent
  Bad = Bad
  MaxSets = 3
  MaxFailures = 2
  MaxKills = 2
  MaxDamages = 0
PROPERTIES ImplementsRegister EveryStateReachesDisk
