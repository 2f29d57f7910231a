SPECIFICATION Spec
CONSTANTS
  NV = 2
  NC = 1
  Uses <- MCUses
  MaxCalls = 2
  MaxWSR = 2
  MaxFar = 1
INVARIANTS
  TypeOK
  IndependentWorkingSet
  SuccessMeansSolved
  UsableAtTheLimit
PROPERTIES
  EqualitiesStayActive
  CallReturns
