SPECIFICATION Spec
CONSTANTS
  u1 = u1
  w1 = w1
  v1 = v1
  v2 = v2
  Machines <- MCMachines
  Users <- MCUsers
  Works <- MCWorks
  Volumes <- MCVolumes
  NotificationBudget = 2
  SyncBudget = 2
  QuiescenceBudget = 2
  CommitBudget = 2
  ProcessGuard = 1
  TickSpace = 19
  Start = 15
  MaxLate = 1
INVARIANTS CommitIsPrepared GatesFollowTheTransaction
PROPERTIES CommitIsIrrevocable RequestsEnd
CHECK_DEADLOCK FALSE
