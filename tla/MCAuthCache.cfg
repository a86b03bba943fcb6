SPECIFICATION Spec
CONSTANTS
  Requests = {r1, r2}
  TTL = 2
  MinStaleWindow = 4
  LookupTimeout = 1
  Horizon = 23
  MaxChanges = 2
  None = None
INVARIANTS
  TypeOK
  StalenessBounded
PROPERTIES
  ChangeIsSeen
