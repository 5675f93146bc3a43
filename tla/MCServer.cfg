SPECIFICATION AnySpec
CONSTANTS
  Id = {i1, i2}
  Inspection = {n1, n2}
  Call = {c1, c2}
  None = None
  Worker = {g1, g2}
  Chunks = 4
  Workbench = {w1, w2}
  Slot = {s1, s2}
  Key = {k1, k2}
  Failing = {k2}
  Flight = {f1, f2, f3}
  NoFlight = NoFlight
  MaxEdits = 1
  Client = {p1, p2}
  MaxJobs = 2
  MaxRestarts = 1
  MaxRequests = 2
  MaxRedirects = 2
  Capacity = 2
  Char <- Chars
  Letter = {"a", "b", "n", "o"}
  Digit = {"1"}
  Escape <- Escapes
  Reserved <- ReservedTexts
  MaxHeight = 2
  Search <- Searches
CHECK_DEADLOCK FALSE
INVARIANTS
  WorkbenchManagerSafe
  WorkbenchLoadSafe
  InspectionIndexSafe
  LogSearchSafe
  CachedEstimatorSafe
  AsyncJobSafe
  OAuthPopupSafe
PROPERTIES
  ClientsAreAnswered
  UnusedGoes
