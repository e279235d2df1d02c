CONSTANTS
  k1 = k1  k2 = k2  srv = srv  llm = llm
  a1 = a1  a2 = a2
  r1 = r1  r2 = r2  r3 = r3
  Keys = {k1}
  Targets = {srv}
  Providers = {}
  Reqs = {r1, r2}
  Admins = {a1}
  KeyOf <- OneKey
  TargetOf <- ToServer
  Disabled = {}
  Budget = 2
  TargetBudget = 1
  LoopThreshold = 1
  RateLimitRPM = 0
  MaxMonth = 0
  Bytes <- SixBytes
  Exact <- NoReports
  BatchTokens <- FlushTokens
SPECIFICATION Spec
INVARIANTS TypeOK KillAgrees LoopBound UsageAgrees
PROPERTIES KilledKeyRefused
SYMMETRY Interchangeable
CHECK_DEADLOCK FALSE
