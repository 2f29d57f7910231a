SPECIFICATION YoungSpec
CONSTANTS
  MinYoung = 3
  MaxYoung = 12
  Num = 1
  Den = 2
  Initial = 5
  Moduli <- SomeModuli
INVARIANT YoungInRange
PROPERTY RatioKept
