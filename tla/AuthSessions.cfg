CONSTANTS
  c1 = c1
  c2 = c2
  c3 = c3
  t1 = t1
  t2 = t2
  Tab = {t1, t2}
  Call <- ThreeCalls
  TabOf <- TwoTabs
  Probes = {c2}
  NoCall = NoCall
SPECIFICATION AuthSpec
INVARIANTS HealthyKept LatchTruthful RetrySucceeds
CHECK_DEADLOCK FALSE
