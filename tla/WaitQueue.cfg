SPECIFICATION Spec
CONSTANTS
  t1 = t1
  t2 = t2
  q1 = q1
  NoQueue = NoQueue
  NoTask = NoTask
  Tasks <- MCTasks
  Queues <- MCQueues
  Capacity = 1
  MaxGeneration = 1
  Conditions = 3
  TickSpace = 11
  MaxTimeout = 1
  Timeouts <- MCTimeouts
  MaxBurst = 1
  MaxStall = 3
  MaxLate = 4
INVARIANTS WaitersAreReachable NoLostWakeup
PROPERTIES NoEarlyTimeout TimedWaitsEnd
CHECK_DEADLOCK FALSE
