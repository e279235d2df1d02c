CONSTANTS
  k1 = k1  k2 = k2  srv = srv  llm = llm
  a1 = a1  a2 = a2
  r1 = r1  r2 = r2  r3 = r3
  Keys = {k1}
  Targets = {srv}
  Providers = {}
  Reqs = {r1, r2}
  Admins = {}
  KeyOf <- OneKey
  TargetOf <- ToServer
  Disabled = {}
  Budget = 1
  TargetBudget = 1
  LoopThreshold = 2
  RateLimitRPM = 0
  MaxMonth = 1
  Bytes <- SixBytes
  Exact <- NoReports
  BatchTokens <- FlushTokens
SPECIFICATION Spec
PROPERTIES BudgetIsMonthly
CHECK_DEADLOCK FALSE
