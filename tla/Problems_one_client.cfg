SPECIFICATION Spec
CONSTANTS
  c1 = c1
  Clients <- OneClient
  MaxSteps = 6
  MaxReinits = 1
INVARIANTS CurrentProblemIsNotLocked ReadersSeeSolvedProblems PublishedProblemIsTheLatest
PROPERTY ReadProblemIsStable
CHECK_DEADLOCK FALSE
