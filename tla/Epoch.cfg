SPECIFICATION MCSpec
CONSTANTS
  Topics = {t1, t2}
  Channels = {c1, c2, c3}
  NoTopic = NoTopic
  NoChannel = NoChannel
  NodeId = 1
  n1 = n1
  n2 = n2
  n3 = n3
  Phase = Phase
  None = None
INVARIANTS TypesOK NeverPanics InexactNeedsOverlap
PROPERTIES CancelledNeverSends HandlersReleased SetupCompletes
CHECK_DEADLOCK FALSE
