SPECIFICATION Spec
CONSTANTS
  Worker = {1, 2, 3}
  None = None
  Text = {"name", "nginx", "started"}
  Struct = {"outer", "inner"}
  Names <- FieldNames
  Values <- FieldValues
  BatchLimit = 3
  Jobs <- WorkerJobs
  LogBatch = 1
CHECK_DEADLOCK FALSE
INVARIANT
  StoreLockNotReentered
