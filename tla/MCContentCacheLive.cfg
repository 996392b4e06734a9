CONSTANTS
  q1 = q1  q2 = q2  q3 = q3
  k1 = k1  k2 = k2
  f1 = f1  f2 = f2
  Requests = {q1, q2}
  Files = {f1}
  Keys = {k1, k2}
  FileOf <- FileOfOne
  Size <- Growing
  MaxEntries = 1
  MaxBytes = 2
  Capacity = 1
  MaxEdits = 1
  None = None
SPECIFICATION FairSpec
PROPERTIES EveryRequestEnds
