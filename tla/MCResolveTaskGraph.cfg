SPECIFICATION SpecBoth
CONSTANTS
  Task = {1, 2, 3, 4}
  Ref = {1, 2, 3, 4, 5}
  Inputs <- SmallInputs
  HasPrefix <- Own
INVARIANTS
  ResolvedIsClosed
  NothingUnneeded
  FailureIsJustified
  PassesBounded
  ResolutionIsRight
