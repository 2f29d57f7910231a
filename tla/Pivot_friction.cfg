SPECIFICATION FairSpec
CONSTANTS
  Scenes <- Friction
  MaxNbPivot = 4
  MaxBlocks = 2
INVARIANTS
  StatesInMode
  CandidatesAreFound
  ConvergedForcesSolve
