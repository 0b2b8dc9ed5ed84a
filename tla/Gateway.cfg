CONSTANTS
  t1 = t1
  t2 = t2
  r1 = r1
  r2 = r2
  w = w
  g = g
  h = h
  Turn <- TwoTurns
  Call = {c1, c2, c3}
  Reader <- TwoReaders
  Owner <- TwoOwners
  Worker <- OneWorker
  Gated <- TwoGated
  Directory <- Directories
  Gate <- Gates
  Limit = 1
  NoTurn = NoTurn
  NoTool = NoTool
SPECIFICATION FairSpec
INVARIANTS AcceptedAnswerDecides ConsentBeforeRun AbortedTurnWaitsForNobody
PROPERTIES NoLateStart LaneImplementsLimiter GatewayCallAnswered
