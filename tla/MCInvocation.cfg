SPECIFICATION Spec
CONSTANTS
  c1 = c1
  c2 = c2
  c3 = c3
  t1 = t1
  t2 = t2
  Calls = {c1, c2, c3}
  Stages = {s1}
  Tenants = {t1, t2}
  TenantOf <- TwoTenants
  Weight <- MixedWeights
  GuestResults = {"Ok", "GuestTrap", "CpuBudgetExceeded", "MemoryCapExceeded", "WallClockTimeout", "OutputTooLarge"}
  MemoryBudget = 3
  MaxInFlightPerTenant = 1
  CompileConcurrency = 1
  PoolThreads = 2
INVARIANTS
  TypeOK
  SlotAccounting
  AdmissionAccounting
  PermitAccounting
  BilledOnce
PROPERTIES
  ImplementsContract
  EveryJobEnds
