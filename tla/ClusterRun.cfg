SPECIFICATION ClusterSpec
CONSTANTS
  QSize = 2
  NumHosts = 2
  Requests = {1, 3}
  CancelIds = {1}
  QueryIds = {}
  MaxJobs = 2
  MaxBacklog = 1
  MaxEmpties = 1
  Server = 1
  Handles = {h1}
  NoHandle = NoHandle
INVARIANTS BooksTrueToNode FinishedIsOver
PROPERTIES CancelAim
CHECK_DEADLOCK FALSE
