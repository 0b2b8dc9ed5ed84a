CONSTANTS
  r1 = r1
  r2 = r2
  r3 = r3
  s1 = s1
  s2 = s2
  t1 = t1
  orders = orders
  refunds = refunds
  OrdersRead = OrdersRead
  NoValue = NoValue
  Request = {r1, r2, r3}
  Scope = {s1, s2}
  Tag = {t1}
  Tool = {orders, refunds}
  ScopeOf <- Scopes
  TagsOf <- Tags
  Ranked <- Ranking
  Auth <- Auths
  Facts <- FactsAnswers
  MaxCallers = 1
  Lifetime = 1
  ProbeTopK = 2
  MaxTime = 1
  MaxHostCalls = 2
SPECIFICATION Spec
CHECK_DEADLOCK FALSE
INVARIANTS InvalidatedGone IndexAgrees
