SPECIFICATION SchurSpec
CONSTANTS
  NV = 2
  NC = 1
  NSmax = 3
  Numerics = {"singular", "fails", "inertia", "condition"}
  Solvers = {"MA27", "MA57", "NONE"}
INVARIANTS
  FactorisationMatches
  SchurComplementMatches
