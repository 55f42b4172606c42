CONSTANTS
  N = 4
  MaxTicks = 2
  MaxGeneration = 4
SPECIFICATION Spec
INVARIANTS
  PidsArePartitioned
  WaitersAreLinked
  CpuOnLiveProcess
  EndsAreRequested
  BoundedOvertaking
