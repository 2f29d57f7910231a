SPECIFICATION FairSpec
CONSTANTS
  Scenes <- Frictionless
  MaxNbPivot = 6
  MaxBlocks = 3
INVARIANTS
  TypeOK
  RowsAreAligned
  Signorini
  ReleaseDoesNotLeak
  NoReplay
  StoredForcesAreTheLastSolved
PROPERTIES
  NoImmediateRepivot
  SolveReturns
