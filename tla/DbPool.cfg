CONSTANTS
  c1 = c1
  c2 = c2
  c3 = c3
  Call <- ThreeCalls
  MaxConnections = 1
  MaxQueueDepth = 1
  NoConn = NoConn
SPECIFICATION FairSpec
INVARIANTS NoCrossedResults LeaseExclusive OpenedAccounting NoIdleWhileWaiting GenerationBound
PROPERTY AbortedCallAnswers
