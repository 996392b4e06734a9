CONSTANTS
  q1 = q1  q2 = q2  q3 = q3
  k1 = k1  k2 = k2
  f1 = f1  f2 = f2
  Requests = {q1, q2, q3}
  Files = {f1, f2}
  Keys = {k1, k2}
  FileOf <- FileOfTwo
  Size <- Growing
  MaxEntries = 2
  MaxBytes = 2
  Capacity = 1
  MaxEdits = 2
  None = None
SPECIFICATION Spec
SYMMETRY Symmetry
INVARIANTS TypeOK Accounting HitsAreExact RepliesAreCurrent LoadsAreWanted
PROPERTIES LoadsStayJoinable
