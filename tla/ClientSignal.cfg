SPECIFICATION FairSpec
CONSTANTS
  Watchers = {w1}
  Callers = {a}
  Loop = Loop
  Close = Close
  Remove = Remove
  Closers = {}
  InitiallyUp = TRUE
  MaxLosses = 1
  MaxRefusals = 0
  MaxBadLogs = 0
  MaxSubs = 6
  None = None
PROPERTIES SignalsTaken
CHECK_DEADLOCK FALSE
