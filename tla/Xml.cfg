CONSTANTS
  c1 = c1
  c2 = c2
  p1 = p1
  p2 = p2
  Call <- TwoCalls
  Path <- TwoPaths
  StoreSize = 2
  WorkerCapacity = 1
  QueueDepth = 1
  MaxVersion = 1
  MaxFaults = 1
  Closer = closer
  NoPath = NoPath
SPECIFICATION FairSpec
INVARIANTS StoreCurrent ReplyMatches LostTwiceMeansRestart
PROPERTIES SlotImplementsLimiter InnocentNeverKilled CallAnswered WaiterResumed
