------------------------------ MODULE MCReports ------------------------------
(* Three reports: two of one host, and two of one job.                      *)
EXTENDS Reports

CONSTANTS conn1, conn2, conn3

MCConns == {conn1, conn2, conn3}
MCReportOf ==
  [c \in MCConns |-> [host |-> IF c = conn3 THEN 2 ELSE 1, job |-> IF c = conn1 THEN 1 ELSE 2]]
=============================================================================
