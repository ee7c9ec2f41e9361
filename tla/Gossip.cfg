SPECIFICATION MCSpec
CONSTANTS
  tx = tx
  Handlers = {h1, h2, h3}
  NameOf <- OneName
  Main = Main
  Msgs = {m1}
  Nodes = {n1, n2}
  None = None
  ReportInterval = 3
  MaxPasses = 2
  MaxRounds = 3
  MaxServers = 2
  MaxFailures = 1
  StartTime = 3
  Interval = 6
  Minute = 3
  Delay = 2
  MaxTime = 19
INVARIANTS  ForeignMessages DisturbedByNamesake ReportedWasUp SameTopic
SYMMETRY Symmetry
CHECK_DEADLOCK FALSE
