SPECIFICATION MCSpec
CONSTANTS
  Logs <- FiveLogs
  Subs = {s1, s2, s3}
  MaxLive = 2
  Replay = TRUE
  BadLogs = {4}
  w1 = w1
  w2 = w2
  a = a
  Loop = Loop
  Close = Close
  Remove = Remove
  None = None
INVARIANTS TypesOK SkippedTxSeen UnsubscribedIsRenewed
PROPERTIES RepeatOnlyBelow SingleCatchesUp AllWatched 
CHECK_DEADLOCK FALSE
