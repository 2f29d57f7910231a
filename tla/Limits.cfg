SPECIFICATION SceneSpec
CONSTANTS
  Actuators <- AllKinds
  Values <- Range4
  Dt = 2
  MaxTime = 6
  Equalities <- SomeEqualities
  EqValues = {1, 2}
INVARIANTS LimitsKept HoldIsAllowed WindowIsOpen EqualityOnTime
PROPERTY VariationKept
