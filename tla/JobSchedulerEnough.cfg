SPECIFICATION Spec
CONSTANTS
  QSize = 3
  NumHosts = 2
  Requests = {1, 2}
  CancelIds = {}
  QueryIds = {}
  MaxJobs = 3
  MaxBacklog = 2
  MaxEmpties = 0
INVARIANTS EnoughNodesAtLaunch
CHECK_DEADLOCK FALSE
