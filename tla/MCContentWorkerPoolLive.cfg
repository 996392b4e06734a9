CONSTANTS
  t1 = t1
  t2 = t2
  w1 = w1
  w2 = w2
  Tasks = {t1, t2}
  Workers = {w1, w2}
  MaxWorkers = 1
  NoTask = NoTask
  NoWorker = NoWorker
  NoReply = NoReply
SPECIFICATION FairSpec
PROPERTIES
  EveryTaskSettles
