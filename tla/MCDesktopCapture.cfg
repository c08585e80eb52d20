CONSTANTS
  Clients = {}
  Tasks = {}
  NoTask = NoTask
  MaxAdds = 0
  MaxEnds = 1
  Options <- MCOptions
SPECIFICATION CaptureSpec
INVARIANTS StopAllowsOneMore TornOnlyByRestart
PROPERTY TerminateAndWaitReturns
CHECK_DEADLOCK FALSE
