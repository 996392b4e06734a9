CONSTANTS
  t1 = t1
  t2 = t2
  t3 = t3
  w1 = w1
  w2 = w2
  w3 = w3
  Tasks = {t1, t2, t3}
  Workers = {w1, w2, w3}
  MaxWorkers = 2
  NoTask = NoTask
  NoWorker = NoWorker
  NoReply = NoReply
SPECIFICATION Spec
SYMMETRY Symmetry
INVARIANTS
  TypeOK
  WorkConserving
  Binding
  IdleIsIdle
  NoIdleLeak
  NoTaskLost
PROPERTIES
  NoCollateralTermination
  ImplementsExecutor
