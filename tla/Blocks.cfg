SPECIFICATION FairSpec
CONSTANTS
  Nodes = {n1, n2, n3}
  Events = {e1, e2}
  Capacity = 2
  MaxFailures = 1
INVARIANTS ForkNeedsTwoLeaders
PROPERTIES BlocksTaken
CHECK_DEADLOCK FALSE
