SPECIFICATION Spec
CONSTANTS
  n1 = n1
  n2 = n2
  n3 = n3
  n4 = n4
  Nodes = {n1, n2, n3, n4}
  Rank <- Rank4
  MinConsensusNodes = 2
  Listings <- UnevenPeers
  MainPeerCounts = {3}
  MaxEpoch = 1
  MaxInFlight = 1
  CanTimeout = {}
  CanFail = {}
  CanRekey = {}
  CanCrash = {}
INVARIANTS WitnessedAgreement ExecutorsUnseen
CHECK_DEADLOCK FALSE
