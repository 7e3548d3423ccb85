SPECIFICATION Spec
CONSTANTS
  QSize = 3
  NumHosts = 2
  Requests = {1, 2}
  CancelIds = {}
  QueryIds = {}
  MaxJobs = 4
  MaxBacklog = 4
  MaxEmpties = 0
INVARIANTS EmptyQueueHoldsNoJob
CHECK_DEADLOCK FALSE
