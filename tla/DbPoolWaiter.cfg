CONSTANTS
  c1 = c1
  c2 = c2
  c3 = c3
  Call <- ThreeCalls
  MaxConnections = 1
  MaxQueueDepth = 2
  NoConn = NoConn
SPECIFICATION SettlingSpec
PROPERTY WaiterServed
