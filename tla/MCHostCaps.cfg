SPECIFICATION Spec
CONSTANTS
  c1 = c1
  c2 = c2
  t1 = t1
  m1 = m1
  m2 = m2
  tab = tab
  k1 = k1
  k2 = k2
  kLong = kLong
  Calls = {c1, c2}
  Tenants = {t1}
  TenantOf <- OneTenant
  Uses <- Imports
  Memories = {m1, m2}
  Tables = {tab}
  DeclaredMax <- Declared
  MemCap = 2
  TableCap = 1
  Keys = {k1, k2, kLong}
  KeyLen <- Lengths
  MaxKey = 1
  MaxValue = 1
  MaxPuts = 2
  MaxPutBytes = 3
  Overhead = 1
  TenantCap = 5
  MaxMsg = 2
  MaxLines = 2
  MaxLogBytes = 3
  Absent = Absent
INVARIANTS
  TypeOK
  StoreWithinCap
  KvQuotaExact
