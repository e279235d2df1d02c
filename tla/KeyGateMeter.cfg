CONSTANTS
  k1 = k1  k2 = k2  srv = srv  llm = llm
  a1 = a1  a2 = a2
  r1 = r1  r2 = r2  r3 = r3
  Keys = {k1}
  Targets = {srv, llm}
  Providers = {llm}
  Reqs = {r1, r2, r3}
  Admins = {}
  KeyOf <- OneKey
  TargetOf <- ToBoth
  Disabled = {}
  Budget = 2
  TargetBudget = 1
  LoopThreshold = 2
  RateLimitRPM = 2
  MaxMonth = 1
  Bytes <- SixBytes
  Exact <- NoReports
  BatchTokens <- FlushTokens
SPECIFICATION Spec
INVARIANTS MeteredOnce RateBound UsageAgrees
PROPERTIES LedgerSpec
SYMMETRY SameServer
CHECK_DEADLOCK FALSE
