SPECIFICATION LiveSpec
CONSTANTS
  QSize = 3
  NumHosts = 2
  Requests = {1, 3}
  CancelIds = {}
  QueryIds <- MCQueries
  MaxJobs = 4
  MaxBacklog = 2
  MaxEmpties = 0
INVARIANTS LockDiscipline QueuedJobsReachable AnswerCurrent
PROPERTIES ImplementsFifo FifoOrder MonitorReturns EveryJobTaken
CHECK_DEADLOCK FALSE
