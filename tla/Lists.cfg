CONSTANTS
  Sizes <- SomeSizes
  Types <- SomeTypes
SPECIFICATION Spec
INVARIANTS ListsAreSorted MatricesAgree
PROPERTY ImplementsWorkingSet
