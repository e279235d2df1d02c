CONSTANTS
  k1 = k1  k2 = k2  srv = srv  llm = llm
  a1 = a1  a2 = a2
  r1 = r1  r2 = r2  r3 = r3
  Keys = {k1}
  Targets = {llm}
  Providers = {llm}
  Reqs = {r1, r2, r3}
  Admins = {}
  KeyOf <- OneKey
  TargetOf <- ToProvider
  Disabled = {}
  Budget = 0
  TargetBudget = 0
  LoopThreshold = 3
  RateLimitRPM = 0
  MaxMonth = 0
  Bytes <- FortyBytes
  Exact <- R3Reports
  BatchTokens <- FlushTokens
SPECIFICATION Spec
INVARIANTS ChargedAsDocumented
CHECK_DEADLOCK FALSE
