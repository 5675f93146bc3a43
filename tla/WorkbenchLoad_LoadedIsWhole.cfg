SPECIFICATION Spec
CONSTANTS
  Worker = {g1, g2}
  Chunks = 3
CHECK_DEADLOCK FALSE
INVARIANT
  LoadedIsWhole
