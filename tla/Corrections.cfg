SPECIFICATION FairSpec
CONSTANTS
  b1 = b1
  b2 = b2
  b3 = b3
  Corrections <- Bodies
  Multithreading = {TRUE, FALSE}
PROPERTIES ImplementsCorrection ResolutionEnds
