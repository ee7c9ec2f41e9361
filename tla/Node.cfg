SPECIFICATION MCSpec
CONSTANTS
  Chains = {c1, c2}
  RegChain = c1
  Requests = {e1, e2}
  MaxEpochs = 2
  MaxErrors = 1
  MaxRuns = 4
  MaxStops = 2
  MaxCallErrors = 2
  r1 = r1
  r2 = r2
  r3 = r3
  u1 = u1
  n1 = n1
  n2 = n2
  GsnOwner = GsnOwner
  Nobody = Nobody
INVARIANTS TypesOK RegisteredIsRegistered  LedgerThere NonceClashNeedsEpoch RevertNeedsOverlap
PROPERTIES KeysKept SignalEnds 
CHECK_DEADLOCK FALSE
