SPECIFICATION Spec
CONSTANTS
  n1 = n1
  n2 = n2
  n3 = n3
  n4 = n4
  Nodes = {n1, n2, n3, n4}
  Rank <- Rank4
  MinConsensusNodes = 2
  Listings <- LatePeer
  MainPeerCounts = {3}
  MaxEpoch = 1
  MaxInFlight = 0
  CanTimeout = {}
  CanFail = {}
  CanRekey = {}
  CanCrash = {}
INVARIANT MajorityWitnessed
CHECK_DEADLOCK FALSE
