SPECIFICATION Spec
CONSTANTS
  n1 = n1
  n2 = n2
  n3 = n3
  n4 = n4
  Nodes = {n1, n2, n3}
  Rank <- Rank3
  MinConsensusNodes = 2
  Listings <- AllPeers
  MainPeerCounts = {2}
  MaxEpoch = 2
  MaxInFlight = 0
  CanTimeout = {n2}
  CanFail = {n1}
  CanRekey = {n3}
  CanCrash = {n1}
INVARIANTS OwnAggregateVerifies LeakNeedsForeignKeys
PROPERTIES ImplementsRequest
CHECK_DEADLOCK FALSE
