SPECIFICATION FairSpec
CONSTANTS
  n1 = n1
  n2 = n2
  n3 = n3
  n4 = n4
  Nodes = {n1, n2, n3}
  Rank <- Rank3
  MinConsensusNodes = 2
  Listings <- AllPeers
  MainPeerCounts = {2}
  MaxEpoch = 1
  MaxInFlight = 0
  CanTimeout = {n2}
  CanFail = {}
  CanRekey = {}
  CanCrash = {n3}
PROPERTIES RequestExecuted SessionsAgree
CHECK_DEADLOCK FALSE
