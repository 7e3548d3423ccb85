SPECIFICATION Spec
CONSTANTS
  QSize = 2
  NumHosts = 2
  Requests = {0, 1, 2, 3}
  CancelIds <- MCAllIds
  QueryIds = {}
  MaxJobs = 2
  MaxBacklog = 2
  MaxEmpties = 1
INVARIANTS TypeOK NodeLedger CancelComplete FinishedAllReported
CHECK_DEADLOCK FALSE
