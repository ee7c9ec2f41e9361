SPECIFICATION Spec
CONSTANTS
  Nodes = {n1, n2}
  First = n1
  Calls = {1, 2}
  Phase = Phase
  None = None
  CanFail = {}
  CanLose = {}
  CanRestart = {}
  MaxRestarts = 0
INVARIANT MembershipKeyExact
CHECK_DEADLOCK FALSE
