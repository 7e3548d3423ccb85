---------------------------- MODULE JobScheduler ----------------------------
(***************************************************************************)
(* The batch scheduler of the head node (libjobq.c): three threads around  *)
(* one circular job queue.                                                 *)
(*                                                                         *)
(*   monitor   job_monitor_etransfer   client SUBMIT, CANCEL and QUERY     *)
(*   pop       job_queue_pop           takes jobs in order, launches them  *)
(*   result    job_queue_result_1      books the nodes' results            *)
(*                                                                         *)
(* jobq, job_head and job_tail are guarded by jobq_lock, which the monitor *)
(* unlocks once too often when the queue is full; so a guarded section is  *)
(* several steps, and nothing but the lock keeps them together.  pcstat,   *)
(* nodesstat and jobnodes are shared without any lock: an access that      *)
(* another thread's can fall in front of is a step of its own.             *)
(*                                                                         *)
(* A job's command line is abstracted to the serial number of its          *)
(* submission.  Requests and results are those handed to the handlers; a   *)
(* dispatched piece of a job is answered at most once, at any later time,  *)
(* or never.  The result thread does not look at how much it received: a   *)
(* connection that ends without data books what its buffer still holds.    *)
(* A udp_send that fails ends the daemon.                                  *)
(*                                                                         *)
(* An operator named Mut... is the definition below it with a plausible    *)
(* bug; it is used by no other, and shows what a property is there for.    *)
(***************************************************************************)
EXTENDS Integers, FiniteSets

CONSTANTS
  QSize,        \* MAX_JOB_QUEUE, the number of slots of the circular queue
  NumHosts,     \* num_hosts, the compute nodes of the host file
  Requests,     \* the num_req_nodes values that clients ask for
  CancelIds,    \* the job ids that clients ask to cancel
  QueryIds,     \* the job ids that clients query, -1 for all jobs
  MaxJobs,      \* bound: number of submissions
  MaxBacklog,   \* bound: a client submits only while fewer jobs wait
  MaxEmpties    \* bound: number of empty receives that are booked

ASSUME QSizeAssumption    == QSize \in Nat /\ QSize >= 2
ASSUME NumHostsAssumption == NumHosts \in Nat
ASSUME RequestsAssumption == Requests \cup CancelIds \cup QueryIds \subseteq Int
\* The third form of a query, -2, writes 32 whole records past its 2000-byte
\* reply buffer: what the process does after that is not modelled.
ASSUME QueryAssumption    == QueryIds \subseteq Nat \cup {-1}
ASSUME BoundsAssumption   == {MaxJobs, MaxBacklog, MaxEmpties} \subseteq Nat

Slots == 0 .. QSize - 1
Hosts == 1 .. NumHosts

VARIABLES
  jobq, head, tail, lock,   \* the queue and the thread holding jobq_lock
  submitted,                \* number of submissions so far
  pcstat, nodesstat,        \* per node: HOST_STAT_*, and the job it was last given
  jobnodes,                 \* per slot: results still expected
  pieces,                   \* parts of jobs sent to a node and not yet answered
  popPc, popJob, count, i, k,                   \* job_queue_pop
  monPc, monReq, monK, targets, owed, answer,   \* job_monitor_etransfer
  resPc, resNode, resId, resTmp,                \* job_queue_result_1; node and job
                                                \* in recv_buffer, node 0 for neither
  empties, strayed, recounted  \* history of empty receives: how many, the nodes they
                               \* freed at work, the jobs they counted down too early

queueVars == <<jobq, head, tail, submitted>>
nodeVars  == <<pcstat, nodesstat, pieces>>
popVars   == <<popPc, popJob, count, i, k>>
scanVars  == <<monK, targets, owed, answer>>
monVars   == <<monPc, monReq, scanVars>>
pastVars  == <<empties, strayed, recounted>>
resVars   == <<resPc, resNode, resId, resTmp, pastVars>>
vars == <<queueVars, lock, nodeVars, jobnodes, popVars, monVars, resVars>>

MutNextSlot(s) == s + 1
NextSlot(s) == (s + 1) % QSize

MutQueueFull == NextSlot(NextSlot(head)) = tail
QueueFull == NextSlot(head) = tail

MutLastJobLeft == NextSlot(tail) = head
QueueEmpty == head = tail

\* The slots from job_tail up to job_head, and their number.
Waiting == IF tail <= head THEN tail .. head - 1
                           ELSE (tail .. QSize - 1) \cup (0 .. head - 1)
Backlog == IF tail <= head THEN head - tail ELSE head - tail + QSize

MutAcquire(t) == lock' = t
Acquire(t) == lock = "free" /\ lock' = t

\* pthread_mutex_unlock on a default mutex does not look at the owner.
Release == lock' = "free"

NoAnswer == [s \in Slots |-> "UNKNOWN"]

\* epbssrv_configure, read_host_config_file and the zeroed globals.
Init ==
  /\ jobq = [s \in Slots |-> [id |-> -1, stat |-> "UNKNOWN", comm |-> 0, nodes |-> 0]]
  /\ head = 0 /\ tail = 0 /\ lock = "free" /\ submitted = 0
  /\ pcstat = [n \in Hosts |-> "ONLINE"]
  /\ nodesstat = [n \in Hosts |-> 0]
  /\ jobnodes = [s \in Slots |-> 0]
  /\ pieces = {}
  /\ popPc = "init" /\ popJob = [id |-> 0, comm |-> 0, nodes |-> 0]
  /\ count = 0 /\ i = 1 /\ k = 1
  /\ monPc = "idle" /\ monReq = 0 /\ monK = 1 /\ targets = {} /\ owed = {}
  /\ answer = NoAnswer
  /\ resPc = "idle" /\ resNode = 0 /\ resId = 0 /\ resTmp = 0
  /\ empties = 0 /\ strayed = {} /\ recounted = {}

-----------------------------------------------------------------------------
(* The monitor thread, MSG_TYPE_JOB_SUBMIT.                                *)

\* A full queue is only warned about; both branches go on to the push.
SubmitCheck(n) ==
  /\ monPc = "idle" /\ lock = "free"
  /\ submitted < MaxJobs /\ Backlog < MaxBacklog
  /\ monReq' = n
  /\ monPc' = IF QueueFull THEN "unlockAgain" ELSE "lock"
  /\ UNCHANGED <<queueVars, lock, nodeVars, jobnodes, popVars,
                 scanVars, resVars>>

\* The second unlock of the full branch, whoever holds the lock by now.
SubmitUnlockAgain ==
  /\ monPc = "unlockAgain"
  /\ Release
  /\ monPc' = "lock"
  /\ UNCHANGED <<queueVars, nodeVars, jobnodes, popVars,
                 monReq, scanVars, resVars>>

SubmitLock ==
  /\ monPc = "lock"
  /\ Acquire("monitor")
  /\ monPc' = "pushComm"
  /\ UNCHANGED <<queueVars, nodeVars, jobnodes, popVars,
                 monReq, scanVars, resVars>>

\* The slot is filled in the order of the code: pcomm, num_req_nodes, then the
\* status, the id and, with it, job_head.
PushComm ==
  /\ monPc = "pushComm"
  /\ jobq' = [jobq EXCEPT ![head].comm = submitted + 1]
  /\ monPc' = "pushNodes"
  /\ UNCHANGED <<head, tail, submitted, lock, nodeVars, jobnodes, popVars,
                 monReq, scanVars, resVars>>

PushNodes ==
  /\ monPc = "pushNodes"
  /\ jobq' = [jobq EXCEPT ![head].nodes = monReq]
  /\ monPc' = "pushHead"
  /\ UNCHANGED <<head, tail, submitted, lock, nodeVars, jobnodes, popVars,
                 monReq, scanVars, resVars>>

PushHead ==
  /\ monPc = "pushHead"
  /\ jobq' = [jobq EXCEPT ![head].stat = "INQUEUE", ![head].id = head]
  /\ head' = NextSlot(head)
  /\ submitted' = submitted + 1
  /\ Release
  /\ monPc' = "idle"
  /\ UNCHANGED <<tail, nodeVars, jobnodes, popVars,
                 monReq, scanVars, resVars>>

(* The monitor thread, MSG_TYPE_JOB_CANCEL.                                *)

MutHoldsJob(n) == n < NumHosts /\ nodesstat[n] = monReq
HoldsJob(n) == nodesstat[n] = monReq
PiecesOf(j) == {p \in pieces : p.id = j}

CancelLock(j) ==
  /\ monPc = "idle"
  /\ Acquire("monitor")
  /\ monPc' = "scan" /\ monReq' = j /\ monK' = 1
  /\ targets' = {} /\ owed' = PiecesOf(j)
  /\ UNCHANGED <<queueVars, nodeVars, jobnodes, popVars, answer, resVars>>

\* One turn of the loop: server_single_job_cancel to a node that has the job.
CancelScan ==
  /\ monPc = "scan" /\ monK <= NumHosts
  /\ targets' = IF HoldsJob(monK) THEN targets \cup {monK} ELSE targets
  /\ monK' = monK + 1
  /\ UNCHANGED <<queueVars, lock, nodeVars, jobnodes, popVars,
                 monPc, monReq, owed, answer, resVars>>

\* udp_send fails: exit(1).
CancelSendFails ==
  /\ monPc = "scan" /\ monK <= NumHosts /\ HoldsJob(monK)
  /\ monPc' = "exited"
  /\ UNCHANGED <<queueVars, lock, nodeVars, jobnodes, popVars,
                 monReq, scanVars, resVars>>

CancelUnlock ==
  /\ monPc = "scan" /\ monK > NumHosts
  /\ Release
  /\ monPc' = "idle" /\ monK' = 1 /\ targets' = {} /\ owed' = {}
  /\ UNCHANGED <<queueVars, nodeVars, jobnodes, popVars, monReq, answer, resVars>>

(* The monitor thread, MSG_TYPE_JOB_QUERY: the status of one job, or of all *)
(* slots, copied into the reply slot by slot.                               *)

QueryLock(j) ==
  /\ monPc = "idle"
  /\ Acquire("monitor")
  /\ monPc' = "query" /\ monReq' = j /\ monK' = 1
  /\ UNCHANGED <<queueVars, nodeVars, jobnodes, popVars, targets, owed, answer, resVars>>

Asked(s) == monReq < 0 \/ jobq[s].id = monReq

\* The search for a single job stops at its slot.
QueryRead ==
  LET s == monK - 1 IN
  /\ monPc = "query" /\ monK <= QSize
  /\ answer' = IF Asked(s) THEN [answer EXCEPT ![s] = jobq[s].stat] ELSE answer
  /\ monK' = IF Asked(s) /\ monReq >= 0 THEN QSize + 1 ELSE monK + 1
  /\ UNCHANGED <<queueVars, lock, nodeVars, jobnodes, popVars,
                 monPc, monReq, targets, owed, resVars>>

QueryUnlock ==
  /\ monPc = "query" /\ monK > QSize
  /\ Release
  /\ monPc' = "idle" /\ monK' = 1 /\ answer' = NoAnswer
  /\ UNCHANGED <<queueVars, nodeVars, jobnodes, popVars, monReq, targets, owed, resVars>>

-----------------------------------------------------------------------------
(* The pop thread.                                                         *)

\* The code clears nodesstat before it looks at the queue for the first time.
PopInit ==
  /\ popPc = "init"
  /\ pcstat' = [n \in Hosts |-> "FREE"]
  /\ nodesstat' = [n \in Hosts |-> -1]
  /\ popPc' = "idle"
  /\ UNCHANGED <<queueVars, lock, pieces, jobnodes, popJob, count, i, k,
                 monVars, resVars>>

\* An empty queue is unlocked and looked at again: only the success is a step.
PopLock ==
  /\ popPc = "idle" /\ ~QueueEmpty
  /\ Acquire("pop")
  /\ popPc' = "takeComm"
  /\ UNCHANGED <<queueVars, nodeVars, jobnodes, popJob, count, i, k,
                 monVars, resVars>>

MutStarted(job) == job
Started(job) == [job EXCEPT !.stat = "RUNNING"]

PopTakeComm ==
  /\ popPc = "takeComm"
  /\ popJob' = [id |-> jobq[tail].id, comm |-> jobq[tail].comm, nodes |-> 0]
  /\ popPc' = "takeNodes"
  /\ UNCHANGED <<queueVars, lock, nodeVars, jobnodes, count, i, k,
                 monVars, resVars>>

PopTakeNodes ==
  /\ popPc = "takeNodes"
  /\ popJob' = [popJob EXCEPT !.nodes = jobq[tail].nodes]
  /\ popPc' = "takeTail"
  /\ UNCHANGED <<queueVars, lock, nodeVars, jobnodes, count, i, k,
                 monVars, resVars>>

MutPopTakeTail ==
  /\ popPc = "takeTail"
  /\ jobq' = [jobq EXCEPT ![tail] = Started(@)]
  /\ tail' = NextSlot(tail)
  /\ (IF popJob.nodes <= NumHosts THEN UNCHANGED lock ELSE Release)
  /\ count' = 0 /\ i' = 1
  /\ popPc' = IF popJob.nodes <= NumHosts THEN "count" ELSE "idle"
  /\ UNCHANGED <<head, submitted, nodeVars, jobnodes, popJob, k, monVars, resVars>>

\* A job that asks for more nodes than there are stays RUNNING and is dropped.
PopTakeTail ==
  /\ popPc = "takeTail"
  /\ jobq' = [jobq EXCEPT ![tail] = Started(@)]
  /\ tail' = NextSlot(tail)
  /\ Release
  /\ count' = 0 /\ i' = 1
  /\ popPc' = IF popJob.nodes <= NumHosts THEN "count" ELSE "idle"
  /\ UNCHANGED <<head, submitted, nodeVars, jobnodes, popJob, k, monVars, resVars>>

\* The counting loop reads one pcstat entry after the other.
PopCount ==
  /\ popPc = "count" /\ i <= NumHosts
  /\ count' = IF pcstat[i] = "FREE" THEN count + 1 ELSE count
  /\ i' = i + 1
  /\ UNCHANGED <<queueVars, lock, nodeVars, jobnodes, popPc, popJob, k,
                 monVars, resVars>>

\* Too few: one more round, which counts on from what this one added up.
PopDecide ==
  /\ popPc = "count" /\ i > NumHosts
  /\ i' = 1
  /\ IF count < popJob.nodes
     THEN UNCHANGED <<popPc, count, k>>
     ELSE popPc' = (IF popJob.nodes >= 1 THEN "place" ELSE "launched")
          /\ k' = 1 /\ count' = 0
  /\ UNCHANGED <<queueVars, lock, nodeVars, jobnodes, popJob, monVars, resVars>>

\* The inner loop is over: place the next piece, or leave the outer loop.
NextPiece ==
  /\ i' = i + 1 /\ k' = 1
  /\ popPc' = IF i < popJob.nodes THEN "place" ELSE "launched"

PopClaim ==
  /\ popPc = "place" /\ k <= NumHosts /\ pcstat[k] = "FREE"
  /\ nodesstat' = [nodesstat EXCEPT ![k] = popJob.id]
  /\ pcstat' = [pcstat EXCEPT ![k] = "BUSY"]
  /\ popPc' = "send"
  /\ UNCHANGED <<queueVars, lock, pieces, jobnodes, popJob, count, i, k,
                 monVars, resVars>>

PopSkip ==
  /\ popPc = "place" /\ k <= NumHosts /\ pcstat[k] # "FREE"
  /\ k' = k + 1
  /\ UNCHANGED <<queueVars, lock, nodeVars, jobnodes, popPc, popJob, count, i,
                 monVars, resVars>>

\* No node was found: the piece is silently not launched.
PopNoNode ==
  /\ popPc = "place" /\ k > NumHosts
  /\ NextPiece
  /\ UNCHANGED <<queueVars, lock, nodeVars, jobnodes, popJob, count,
                 monVars, resVars>>

\* server_single_job_submit to the claimed node.
MutDispatch == [node |-> i, id |-> popJob.id, comm |-> popJob.comm, part |-> i]
Dispatch == [node |-> k, id |-> popJob.id, comm |-> popJob.comm, part |-> i]

PopSend ==
  /\ popPc = "send"
  /\ pieces' = pieces \cup {Dispatch}
  /\ NextPiece
  /\ UNCHANGED <<queueVars, lock, pcstat, nodesstat, jobnodes, popJob, count,
                 monVars, resVars>>

\* udp_send fails: exit(1), with the node claimed and pieces of the job out.
PopSendFails ==
  /\ popPc = "send"
  /\ popPc' = "exited"
  /\ UNCHANGED <<queueVars, lock, nodeVars, jobnodes, popJob, count, i, k,
                 monVars, resVars>>

\* The number of expected results is stored only after the last dispatch.
PopLaunched ==
  /\ popPc = "launched"
  /\ jobnodes' = [jobnodes EXCEPT ![popJob.id] = popJob.nodes]
  /\ popPc' = "idle"
  /\ UNCHANGED <<queueVars, lock, nodeVars, popJob, count, i, k, monVars, resVars>>

-----------------------------------------------------------------------------
(* The result thread.  jobnodes[job_id]-- is a load and a store.           *)

\* What recv has left in recv_buffer is booked: the node is free, and its job
\* has one result less to wait for.
BookResult(n, s) ==
  /\ pcstat' = [pcstat EXCEPT ![n] = "FREE"]
  /\ resNode' = n /\ resId' = s
  /\ resPc' = "load"
  /\ UNCHANGED <<queueVars, lock, nodesstat, jobnodes, popVars, monVars, resTmp>>

ResultRecv(p) ==
  /\ resPc = "idle" /\ p \in pieces
  /\ pieces' = pieces \ {p}
  /\ BookResult(p.node, p.id)
  /\ UNCHANGED pastVars

\* Pieces of the job are on a node, or will be.
AtWork(s) == \/ PiecesOf(s) # {}
             \/ popPc \in {"count", "place", "send", "launched"} /\ popJob.id = s

\* A connection that ended without data, or was reset: recv_size is ignored, and
\* the buffer read once more.  Before the first result it holds what malloc left
\* there, which is not booked or is the node and the job of any result.
ResultEmpty(n, s) ==
  /\ resPc = "idle" /\ empties < MaxEmpties
  /\ resNode # 0 => n = resNode /\ s = resId
  /\ BookResult(n, s)
  /\ empties' = empties + 1
  /\ strayed' = IF pcstat[n] = "BUSY" THEN strayed \cup {n} ELSE strayed
  /\ recounted' = IF resNode = 0 \/ AtWork(s) THEN recounted \cup {s} ELSE recounted
  /\ UNCHANGED pieces

ResultLoad ==
  /\ resPc = "load"
  /\ resTmp' = jobnodes[resId] - 1
  /\ resPc' = "store"
  /\ UNCHANGED <<queueVars, lock, nodeVars, jobnodes, popVars, monVars,
                 resNode, resId, pastVars>>

ResultStore ==
  /\ resPc = "store"
  /\ jobnodes' = [jobnodes EXCEPT ![resId] = resTmp]
  /\ resPc' = "test"
  /\ UNCHANGED <<queueVars, lock, nodeVars, popVars, monVars,
                 resNode, resId, resTmp, pastVars>>

MutLastResult(left) == left <= 1
LastResult(left) == left = 0

\* The race on jobnodes is undefined behaviour: a build may test the stored
\* value from the register or read the shared variable again.
ResultTest ==
  /\ resPc = "test"
  /\ \E left \in {resTmp, jobnodes[resId]} :
       resPc' = IF LastResult(left) THEN "lock" ELSE "idle"
  /\ UNCHANGED <<queueVars, lock, nodeVars, jobnodes, popVars, monVars,
                 resNode, resId, resTmp, pastVars>>

ResultLock ==
  /\ resPc = "lock"
  /\ Acquire("result")
  /\ resPc' = "finish"
  /\ UNCHANGED <<queueVars, nodeVars, jobnodes, popVars, monVars,
                 resNode, resId, resTmp, pastVars>>

ResultFinish ==
  /\ resPc = "finish"
  /\ jobq' = [jobq EXCEPT ![resId].stat = "FINISHED"]
  /\ Release
  /\ resPc' = "idle"
  /\ UNCHANGED <<head, tail, submitted, nodeVars, jobnodes, popVars, monVars,
                 resNode, resId, resTmp, pastVars>>

-----------------------------------------------------------------------------
Submit  == \/ \E n \in Requests : SubmitCheck(n)
           \/ SubmitUnlockAgain \/ SubmitLock \/ PushComm \/ PushNodes \/ PushHead
Cancel  == \/ \E j \in CancelIds : CancelLock(j)
           \/ CancelScan \/ CancelSendFails \/ CancelUnlock
Query   == (\E j \in QueryIds : QueryLock(j)) \/ QueryRead \/ QueryUnlock
Monitor == Submit \/ Cancel \/ Query

Pop     == \/ PopInit \/ PopLock \/ PopTakeComm \/ PopTakeNodes \/ PopTakeTail
           \/ PopCount \/ PopDecide \/ PopClaim \/ PopSkip \/ PopNoNode \/ PopSend \/ PopSendFails
           \/ PopLaunched

Book    == \/ ResultLoad \/ ResultStore \/ ResultTest
           \/ ResultLock \/ ResultFinish
Empty   == \E n \in Hosts, s \in Slots : ResultEmpty(n, s)
Result  == (\E p \in pieces : ResultRecv(p)) \/ Empty \/ Book

\* The daemon is one process: a thread's exit(1) ends all of them.
Up == popPc # "exited" /\ monPc # "exited"

Next == Up /\ (Monitor \/ Pop \/ Result)

Spec == Init /\ [][Next]_vars

(* While the daemon runs, a started handler and the pop and result loops go *)
(* on, and a thread waiting for jobq_lock gets it at last.  That a node     *)
(* answers is not assumed.                                                  *)
Fairness ==
  /\ WF_vars(Up /\ (SubmitUnlockAgain \/ PushComm \/ PushNodes \/ PushHead
                    \/ CancelScan \/ CancelUnlock \/ QueryRead \/ QueryUnlock))
  /\ SF_vars(Up /\ SubmitLock)
  /\ WF_vars(Up /\ Pop) /\ SF_vars(Up /\ PopLock)
  /\ WF_vars(Up /\ Book) /\ SF_vars(Up /\ ResultLock)

LiveSpec == Spec /\ Fairness
-----------------------------------------------------------------------------
JobIds    == Slots \cup {-1}
JobStats  == {"UNKNOWN", "INQUEUE", "RUNNING", "FINISHED"}
JobRecord == [id : JobIds, stat : JobStats,
              comm : Nat, nodes : Int]
TakenJob  == [id : Slots, comm : Nat, nodes : Int]
Piece     == [node : Hosts, id : Slots, comm : Nat, part : Nat]

TypeOK ==
  /\ jobq \in [Slots -> JobRecord]
  /\ head \in Slots /\ tail \in Slots /\ submitted \in Nat
  /\ lock \in {"free", "monitor", "pop", "result"}
  /\ pcstat \in [Hosts -> {"ONLINE", "FREE", "BUSY"}]
  /\ nodesstat \in [Hosts -> JobIds]
  /\ jobnodes \in [Slots -> Int]
  /\ pieces \subseteq Piece
  /\ popPc \in {"init", "idle", "takeComm", "takeNodes", "takeTail", "count",
                "place", "send", "launched", "exited"}
  /\ popJob \in TakenJob
  /\ count \in Nat /\ i \in Nat \ {0} /\ k \in Nat \ {0}
  /\ monPc \in {"idle", "unlockAgain", "lock", "pushComm", "pushNodes", "pushHead", "scan",
                "query", "exited"}
  /\ monReq \in Int /\ monK \in Nat \ {0}
  /\ targets \subseteq Hosts /\ answer \in [Slots -> JobStats]
  /\ owed \subseteq Piece
  /\ resPc \in {"idle", "load", "store", "test", "lock", "finish"}
  /\ resNode \in Hosts \cup {0} /\ resId \in Slots /\ resTmp \in Int
  /\ resPc # "idle" => resNode # 0
  /\ empties \in Nat /\ strayed \subseteq Hosts /\ recounted \subseteq Slots

\* The three unlocked tables agree although two threads write them: a node the
\* pop thread would hand a job to runs none, no node runs two pieces, and
\* nodesstat names the job whose piece a node still works on.  An empty receive
\* breaks that for one node, the one whose result lies in the buffer, and only
\* when that node was BUSY again: all others are kept right.
NodeLedger ==
  /\ \A p \in pieces : \/ p.node \in strayed
                       \/ pcstat[p.node] = "BUSY" /\ nodesstat[p.node] = p.id
  /\ \A p, q \in pieces : p.node = q.node => p = q \/ p.node \in strayed

\* Whoever is inside a guarded section of libjobq.c holds jobq_lock, so no two
\* threads are.  It needs a queue that never fills up (MaxBacklog < QSize).
LockDiscipline ==
  /\ popPc \in {"takeComm", "takeNodes", "takeTail"} => lock = "pop"
  /\ monPc \in {"pushComm", "pushNodes", "pushHead", "scan", "query"} => lock = "monitor"
  /\ resPc = "finish" => lock = "result"

\* A job whose status says it waits can still be reached from job_tail: the pop
\* thread will come to it.
QueuedJobsReachable ==
  \A s \in Slots : jobq[s].stat = "INQUEUE" => s \in Waiting

\* The scan of a cancel request, which shares only jobq_lock with the pop
\* thread and nothing with the result thread, sends the cancellation to every
\* passed node that ran the job when the scan began and still runs it, but for
\* nodes that an empty receive freed at work: nodesstat may name another job then.
CancelComplete ==
  \A p \in owed \cap pieces : p.node < monK => p.node \in targets \cup strayed

\* The reply to a query is a snapshot: none of the statuses already copied
\* changes before the copy is complete, although both other threads write them.
AnswerCurrent ==
  monPc = "query" =>
    \A s \in Slots : s < monK - 1 /\ Asked(s) => answer[s] = jobq[s].stat

\* A job reported FINISHED is neither waiting nor being launched, and has no piece
\* left on a node unless an empty receive counted it down while it had.  A late
\* repetition of its last result does no harm.  It needs a run in which no slot
\* is used twice.
FinishedAllReported ==
  \A s \in Slots : jobq[s].stat = "FINISHED" =>
    /\ s \notin Waiting
    /\ s \in recounted \/ \A p \in pieces : p.id # s
    /\ popPc \in {"count", "place", "send", "launched"} => popJob.id # s

\* Jobs are taken in the order of their submission and never twice ("FIFO"),
\* although a slot is filled and emptied field by field by two threads.  It needs
\* a queue that never fills up.
FifoOrder ==
  [][popPc = "takeComm" => popJob'.comm > popJob.comm]_popPc

\* The monitor thread serves every client from one loop, so a submission that
\* waits for jobq_lock holds up all of them: it gets the lock at last, however
\* long the pop thread waits for nodes and however many results come in.
MonitorReturns == monPc # "idle" ~> monPc = "idle" \/ ~Up

\* The network gives each node, time and again, a moment when all its results
\* have come.  Datagrams that nobody repeats do not promise that.
NodesAnswer == \A n \in Hosts : []<>(\A p \in pieces : p.node # n)

\* Every submission is taken in the end, in a daemon that goes on running, if the
\* nodes answer: the pop thread, which waits for nodes with the job in its hands
\* and for a lock that clients keep taking, never waits for ever.  It needs a
\* queue that never fills up.
EveryJobTaken ==
  NodesAnswer =>
    \A c \in 1 .. MaxJobs : submitted >= c ~> popJob.comm >= c \/ ~Up
=============================================================================
