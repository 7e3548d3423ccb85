------------------------------- MODULE Reports -------------------------------
(***************************************************************************)
(* The two loops of the head node that only receive: job_queue_result_1    *)
(* books the results of pieces of jobs, epbs_host_status the states of     *)
(* hosts.  Each has an eTransfer of its own and one receive buffer that    *)
(* all connections share; they differ in when they look into it.           *)
(*                                                                         *)
(* Those who connect to the loops are not in the repository: its nodes     *)
(* send their reports as datagrams (deal_interactive_job_request), which   *)
(* listeners for TCP never get.  What is modelled is what the loops do     *)
(* with reports that do come over connections, in the format of those      *)
(* datagrams: a result is always FINISHED, a state always HOST_STAT_FREE.  *)
(* Neither loop keeps a socket once it was received from, so that none of  *)
(* them is ever in error or waits to be written.                           *)
(*                                                                         *)
(* An operator named Mut... is the definition below it with a plausible    *)
(* bug; it is used by no other, and shows what a property is there for.    *)
(***************************************************************************)
EXTENDS ETransfer, Integers, FiniteSets

CONSTANTS
  Services,   \* the loops looked at: "result", "status"
  Hosts, Jobs,
  ReportOf    \* per connection: the host that reports, and the job it had

\* A launched job waits for the result of one node at least; hosts are numbered
\* from one.
ASSUME ReportAssumption ==
  /\ ReportOf \in [Conns -> [host : Hosts, job : Jobs]]
  /\ IsFiniteSet(Conns) /\ 0 \notin Hosts
  /\ \A j \in Jobs : \E c \in Conns : ReportOf[c].job = j

VARIABLES
  service,    \* the loop that runs
  buffer,     \* recv_buffer: the report received last
  fresh,      \* recv_size > 0
  hostStat,   \* pcstat of the result loop, hostq of the status loop
  jobnodes, jobStat,   \* per job: results expected, and its status
  round,      \* connections received from since the last select
  outcome     \* per connection: what recv returned

tables == <<hostStat, jobnodes, jobStat>>
reportVars == <<service, buffer, fresh, tables, round, outcome>>
vars == <<transferVars, reportVars>>

NoReport == [host |-> 0, job |-> 0]

\* Launched jobs whose results are awaited; recv_buffer is not initialised.
Init ==
  /\ TransferInit
  /\ service \in Services
  /\ buffer \in {NoReport} \cup (IF service = "result" THEN Range(ReportOf) ELSE {})
  /\ fresh = FALSE
  /\ hostStat = [h \in Hosts |-> IF service = "result" THEN "BUSY" ELSE "ONLINE"]
  /\ jobnodes = [j \in Jobs |-> Cardinality({c \in Conns : ReportOf[c].job = j})]
  /\ jobStat = [j \in Jobs |-> "RUNNING"]
  /\ round = {} /\ outcome = [c \in Conns |-> "none"]

\* recv, and destroy_socket whatever it returned.
Take(c) ==
  /\ Handling(c, "READ") /\ c # Listener
  /\ unread' = unread \ {c}
  /\ Destroy(c)
  /\ buffer' = IF Received(c) = "request" THEN ReportOf[c] ELSE buffer
  /\ fresh' = (Received(c) = "request")
  /\ round' = round \cup {c}
  /\ outcome' = [outcome EXCEPT ![c] = IF Received(c) = "request" THEN "report" ELSE "empty"]
  /\ UNCHANGED <<clientVars, backlog, acceptList, registered, service>>

MutBook(r) ==
  /\ hostStat' = [hostStat EXCEPT ![r.host] = "FREE"]
  /\ jobnodes' = [jobnodes EXCEPT ![r.job] = @ - 1]
  /\ jobStat' = IF jobnodes[r.job] <= 2 THEN [jobStat EXCEPT ![r.job] = "FINISHED"] ELSE jobStat

Book(r) ==
  /\ hostStat' = [hostStat EXCEPT ![r.host] = "FREE"]
  /\ jobnodes' = [jobnodes EXCEPT ![r.job] = @ - 1]
  /\ jobStat' = IF jobnodes[r.job] = 1 THEN [jobStat EXCEPT ![r.job] = "FINISHED"] ELSE jobStat

MutReadResult(c) ==
  /\ service = "result"
  /\ Take(c)
  /\ IF buffer = NoReport THEN UNCHANGED tables ELSE Book(buffer)

\* The result loop does not look at the size: an empty receive books what the
\* buffer still holds once more.
ReadResult(c) ==
  /\ service = "result"
  /\ Take(c)
  /\ IF buffer' = NoReport THEN UNCHANGED tables ELSE Book(buffer')

ReadStatus(c) ==
  /\ service = "status"
  /\ Take(c)
  /\ UNCHANGED tables

MutEndRound ==
  /\ HandlingDone
  /\ round' = {}
  /\ hostStat' = IF service = "status" /\ fresh /\ round = {}
                 THEN [hostStat EXCEPT ![buffer.host] = "FREE"] ELSE hostStat
  /\ UNCHANGED <<service, buffer, fresh, jobnodes, jobStat, outcome>>

\* The status loop looks at its buffer after the round, once per round, and at
\* what an earlier round left in it as long as recv_size is positive.
EndRound ==
  /\ HandlingDone
  /\ round' = {}
  /\ hostStat' = IF service = "status" /\ fresh
                 THEN [hostStat EXCEPT ![buffer.host] = "FREE"] ELSE hostStat
  /\ UNCHANGED <<service, buffer, fresh, jobnodes, jobStat, outcome>>

Loop ==
  \/ (WalkThrough \/ Select \/ SelectAgain \/ Accept) /\ UNCHANGED reportVars
  \/ \E e \in ready : ReadResult(e[1]) \/ ReadStatus(e[1])
  \/ EndRound

\* Whoever connects to the listener.
Reporters == \E c \in Conns : (Connect(c) \/ Ask(c) \/ Leave(c)) /\ UNCHANGED reportVars

Next == Loop \/ Reporters

Spec == Init /\ [][Next]_vars
-----------------------------------------------------------------------------
TypeOK ==
  /\ TransferTypeOK
  /\ service \in Services /\ buffer \in {NoReport} \cup Range(ReportOf)
  /\ fresh \in BOOLEAN /\ round \subseteq Conns
  /\ hostStat \in [Hosts -> {"ONLINE", "BUSY", "FREE"}]
  /\ jobnodes \in [Jobs -> Int] /\ jobStat \in [Jobs -> {"RUNNING", "FINISHED"}]
  /\ outcome \in [Conns -> {"none", "report", "empty"}]

Outstanding(j) == {c \in Conns : ReportOf[c].job = j /\ outcome[c] # "report"}
Empties == {c \in Conns : outcome[c] = "empty"}

\* The number of results a job still waits for is the number of its reports
\* that have not come, less what was booked for connections that closed without
\* data; so it is exact as long as none does, however events fall into rounds.
BookedAsReceived ==
  service = "result" =>
    \A j \in Jobs : Cardinality(Outstanding(j)) - jobnodes[j] \in 0 .. Cardinality(Empties)

\* A job is FINISHED exactly when all of its reports have come, unless some
\* connection closed without data.
FinishedWhenAllCame ==
  service = "result" /\ Empties = {} =>
    \A j \in Jobs : jobStat[j] = "FINISHED" <=> Outstanding(j) = {}

\* The status loop looks at its buffer again and again, but its table only
\* changes in a round in which it has received something.
QuietRoundsChangeNothing ==
  [][service = "status" /\ round = {} => UNCHANGED hostStat]_hostStat

\* A host's report is lost only to another connection of its round: alone in a
\* round it is in the table afterwards, whatever the shared buffer held before.
AloneIsKept ==
  [][\A c \in Conns : service = "status" /\ round = {c} /\ round' = {} /\ outcome[c] = "report" =>
       hostStat'[ReportOf[c].host] = "FREE"]_vars
=============================================================================
