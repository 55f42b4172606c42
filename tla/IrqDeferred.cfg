CONSTANTS
  w1 = w1
  w2 = w2
  w3 = w3
  NoWork = NoWork
  Works <- MCWorks
  Capacity = 3
  Budget = 1
SPECIFICATION Spec
INVARIANTS
  RingIsExact
  NoLostEvent
  NoStall
PROPERTIES
  ImplementsFifo
  OwedIsServed
