SPECIFICATION Spec
CONSTANTS
  conn1 = conn1
  conn2 = conn2
  conn3 = conn3
  Conns <- MCConns
  ReportOf <- MCReportOf
  WaitTimes = {"finite", "endless", "invalid"}
  Services = {"result", "status"}
  Hosts = {1, 2}
  Jobs = {1, 2}
INVARIANTS TypeOK BookedAsReceived FinishedWhenAllCame
PROPERTIES QuietRoundsChangeNothing AloneIsKept
CHECK_DEADLOCK FALSE
