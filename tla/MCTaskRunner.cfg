SPECIFICATION FairSpec
CONSTANTS
  a = a
  b = b
  c = c
  d = d
  e = e
  Task = {a, b, c, d, e}
  Deps <- Diamond
  Retained = {b, d}
  NoError = NoError
  Canceled = Canceled
INVARIANTS
  DependencyResultsAvailable
  CountsExact
  OnlyRetainedSurvive
  FailureStopsDependents
  ResultTellsOutcome
PROPERTIES
  StableAfterStop
  RunnerStops
  ExecutionSpec
