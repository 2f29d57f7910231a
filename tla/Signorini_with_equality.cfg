SPECIFICATION FairSpec
CONSTANTS
  Scenes <- WithEquality
  MaxNbPivot = 3
  MaxBlocks = 2
INVARIANTS
  Signorini
