SPECIFICATION Spec
CONSTANTS
  u1 = u1
  u2 = u2
  u3 = u3
  f1 = f1
  f2 = f2
  None = None
  Uploads = {u1, u2, u3}
  Funcs = {f1, f2}
  FuncOf <- TwoOfOne
  MaxFunctions = 1
  MaxFaults = 2
INVARIANTS
  TypeOK
  QuotaHeld
  SettledPointerMatchesRow
  RefusedNeverServed
PROPERTIES
  NextUploadRepairs
  EveryUploadEnds
CHECK_DEADLOCK FALSE
