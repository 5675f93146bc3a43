SPECIFICATION FairSpec
CONSTANTS
  a = a
  b = b
  Task = {a, b}
  Deps <- Chain
  RunCall = {r1, r2}
  CancelCall = {x1, x2}
  DryCall = {d1}
  ListCall = {l1}
  TheRun = TheRun
  NoCall = NoCall
INVARIANT
  StartedTellsTheTruth
