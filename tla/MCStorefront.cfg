SPECIFICATION Spec
CONSTANTS
  c1 = c1
  c2 = c2
  m1 = m1
  a = a
  b = b
  Calls = {c1, c2}
  Tenants = {m1}
  Keys = {a, b}
  TenantOf <- OneShop
  KeyOf <- OneCustomer
  Values <- CountsAndJunk
  Plants <- JunkOneAndTheLast
  None = None
  junk = junk
  Cost <- Growing
  QuotaBytes = 2
  PoolSize = 2
  Weight <- Ones
  GuestResults = {"Ok", "GuestTrap"}
  MemoryBudget = 2
  MaxInFlightPerTenant = 2
  Carts <- GoodAndWrapping
  Word = 128
  MaxCents = 20
  LoyaltyFrom = 2
  LoyaltyPercent = 10
  MaxTries <- TwiceForOne
CHECK_DEADLOCK FALSE
INVARIANTS
  TypeOK
  KvWithinQuota
  CountedOnce
  ChargeJustified
PROPERTIES
  EveryCheckoutEnds
