CONSTANTS
  c1 = c1
  c2 = c2
  c3 = c3
  k1 = k1
  k2 = k2
  d1 = d1
  a1 = a1
  FirstGrant = FirstGrant
  NoToken = NoToken
  Caller <- Callers2
  Connect <- Connects
  Disconnect <- Disconnects
  Attempt = {a1}
  AttemptOf <- SameAttempt
  MaxRotations = 1
  MaxPolls = 1
SPECIFICATION Spec
SYMMETRY CallerSymmetry
INVARIANTS StoredTokenSpendable OnlyActiveHoldsTokens OneExchangePerAttempt
PROPERTIES WorkingGrantKept
