SPECIFICATION Spec
CONSTANTS
  Rows = {r1, r2, r3}
  Capacity = 2
  BatchMax = 2
  Attempts = 2
INVARIANTS
  TypeOK
  NothingVanishes
  ShutdownFlushes
PROPERTIES
  QueuedRowsSettle
CHECK_DEADLOCK FALSE
