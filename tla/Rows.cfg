SPECIFICATION Spec
CONSTANT Scenes <- Robots
INVARIANTS
  OwnResults
  ForcesReachTheirRows
  WalksReachTheOwners
