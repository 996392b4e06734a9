SPECIFICATION Spec
CONSTANTS
  p1 = p1
  p2 = p2
  plain = plain
  tidy = tidy
  None = None
  Aborted = Aborted
  Pumps <- MCPumps
  Options <- MCOptions
  Default = plain
  Radii <- MCRadii
  TotalChunks = 2
  MaxQueue = 1
  MaxLoaded = 1
  MaxWarms = 2
  MaxSessions = 3
  MaxAborts = 2
  MaxChanges = 1
  MaxArrivals = 1
INVARIANTS
  TypeOK
  KeysMatchQueue
  CacheMatchesKey
PROPERTIES
  EveryJobIsTaken
