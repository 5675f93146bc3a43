SPECIFICATION FairSpec
CONSTANTS
  Task = {1, 2, 3}
  Ref = {1, 2, 3}
  HasPrefix <- Colliding
INVARIANT
  ReportedCycleIsReal
