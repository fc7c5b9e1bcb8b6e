CONSTANTS
  w1 = w1
  w2 = w2
  p1 = p1
  p2 = p2
  t1 = t1
  t2 = t2
  t3 = t3
  Workers = {w1, w2}
  Producers = {p1, p2}
  Tasks = {t1, t2, t3}
  Throwing = {t3}
  MaxQueueSize = 2
  NoTask = NoTask
  Free = Free
SPECIFICATION FairSpec
INVARIANTS
  TasksConserved
  WakeupsCoverQueue
  WakeupsCoverRoom
PROPERTIES
  ImplementsTaskQueue
  QueuedIsExecuted
  RunReturns
CHECK_DEADLOCK FALSE
