SPECIFICATION SlotsSpec
CONSTANTS
  MaxImage = 3
  MaxStages = 2
  MaxFaults = 2
  MaxErrors = 1
  MaxSeq = 7
  AttemptLimit = 2
INVARIANTS ActiveIsBootable AttemptsAreBounded ActiveWasConfirmed PreflightIsHonest
CHECK_DEADLOCK FALSE
