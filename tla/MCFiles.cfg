SPECIFICATION AnySpec
CONSTANTS
  Session = {u1, u2}
  Invalid = {u2}
  NoFile = NoFile
  Flight = {f1, f2}
  NoFlight = NoFlight
  TotalSize = 3
  ChunkSize = 2
  MaxConcurrency = 2
  MaxRetries = 1
  Slot = {s1, s2}
  Key = {k1, k2}
  Importer = {c1, c2}
  MaxRestarts = 1
  Worker = {1, 2}
  None = None
  Text = {"f", "v"}
  Struct = {"outer", "inner"}
  Names <- FieldNames
  Values <- FieldValues
  BatchLimit = 3
  Jobs <- WorkerJobs
  LogBatch = 1
  Path = {"p", "q", "r"}
  ChangeSets <- MapperChangeSets
  Threshold = 2
  Serializer = Serializer
CHECK_DEADLOCK FALSE
INVARIANTS
  UploadsSafe
  AsyncTaskSafe
  ImportSafe
  LogsSafe
  NoDeadlock
  TimelinesSafe
PROPERTIES
  SessionSpec
  WorkEnds
