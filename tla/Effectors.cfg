SPECIFICATION FairSpec
CONSTANTS
  Effs <- All
  Space <- Space3
  Goals <- Goals3
  Free <- Free1
  Residuals <- Residuals1
PROPERTIES
  ApproachesGoal
  GoalIsReached
