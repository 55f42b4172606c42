CONSTANTS
  h1 = h1
  n1 = n1
  n2 = n2
  HighWorks <- MCHigh
  NormalWorks <- MCNormal
  HighBudget = 1
  NormalBudget = 1
  MaxDelay = 3
  MaxLate = 1
SPECIFICATION Spec
INVARIANTS
  ListsMatchStates
  NoLostRequest
  
