CONSTANTS
  w1 = w1
  w2 = w2
  p1 = p1
  t1 = t1
  Workers = {w1, w2}
  Producers = {p1}
  Tasks = {t1}
  Throwing = {}
  MaxQueueSize = 1
  NoTask = NoTask
  Free = Free
SPECIFICATION FairSpec
PROPERTY StopTerminates
CHECK_DEADLOCK FALSE
