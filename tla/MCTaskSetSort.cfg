SPECIFICATION FairSpec
CONSTANTS
  Task = {1, 2, 3}
  Ref = {1, 2, 3, 4}
  HasPrefix <- Separate
INVARIANTS
  OrderIsTopological
  OutcomeIsExact
  SearchExplains
PROPERTY
  SortReturns
