# epbs: a TLA+ model of the batch scheduler

epbs is a small batch job scheduler for a cluster (`src/`, C and C++). A daemon,
`epbssrv`, runs on every host of the host file; the first host is the head node,
which keeps the job queue and hands jobs to all hosts, itself included. Users
talk to the head node with `epbscli`.

This directory holds a formal model of it: TLA+ modules translated from the
code, TLC configurations that check them on small instances, and proofs for
TLAPS. `PROJECT.json` lists the runs, the source lines behind every definition,
the hazards of the code, and the disagreements between code and comments that
the runs show.

Parse with `tlasany M.tla`, check with `tlc -config X.cfg M`, prove with
`tlapm M.tla` for each of the eight modules `*Proofs.tla`.

## 1. Inventory

| Component | Code | State | Operations | Status |
|---|---|---|---|---|
| Job scheduler (head) | `libjobq.c`: handlers of `job_monitor_etransfer`, `job_queue_pop`, `job_queue_result_1` | `jobq`, `job_head`, `job_tail`, `jobq_lock`, `jobnodes`, `nodesstat`, `pcstat` | submit, cancel, query; take and launch; book a result | modelled, proofs |
| Compute node (every host) | `libjobq.c`: `deal_interactive_job_request`, `execl_thread`, `cancel_job_request`; `udp_recv` | `recv_buffer`, `job_thread_id`, the job thread, forked commands, UDP ports | receive, run, join, answer; cancel | modelled, proofs |
| Event library | `etransfer/eTransfer.cpp`, `utcp_socket.cpp` | accept list, socket map, flags, destroy list | `walk_through`, `select`, `accept`, `recv`, `destroy_socket` | modelled as the loops use it, proofs |
| Host monitor (head) | `host_monitor.c`: `host_monitor_transfer_2` | its polled sockets, reply buffers | accept, read a query, write the reply | modelled, proofs |
| Job monitor loop (head) | `libjobq.c`: `job_monitor_etransfer` | its polled sockets | the same | modelled |
| Job result loop, host status service (head) | `libjobq.c`: `job_queue_result_1`; `libhost.c`: `epbs_host_status` | polled sockets, one receive buffer each, `hostq` | receive a result, a host's state, or nothing | modelled, proofs |
| Host file | `libhost.c`: `read_host_config_file`, `get_host_ip` | `hosts`, `ips`, `num_hosts`, `local_id` | parse, find the own number | modelled and proved, up to `MAX_NUM_HOSTS` hosts |
| Node messages (every host) | `libmsg.c`: `msg_send`, `msg_recv`; `epbssrv.c`: `deal_msg_request` | a listening socket with its backlog, open descriptors, a pipe | send, relay, take a message | modelled, proofs |
| Client | `epbscli.c` | one connection, one receive buffer | submit, cancel, query jobs, query hosts | modelled, proofs |
| Start-up, user names, socket helpers, superseded services | `epbssrv.c`, `libuser.c`, `NetAux`, `Sock*`, `job_queue_push`, ... | none of interest | | not modelled (section 8) |

How they interact:

* clients reach the job monitor (TCP 4060) and the host monitor (TCP 4061);
* the pop thread sends a piece of a job to a node (UDP 4032), the monitor sends
  cancellations (UDP 4016), a node sends its result (UDP 4036) and its state
  (UDP 4022);
* on the head the monitor, pop and result threads share the job tables, partly
  under `jobq_lock` and partly under no lock at all;
* `msg_send` on any host hands a message to the message loop of another
  (`deal_msg_request`), which puts it into a pipe that `msg_recv` reads;
* on a node the job loop, the job thread and the cancel loop share the receive
  buffer and `job_thread_id`, and forked commands share the node's sockets.

What is hard: three threads around a queue whose lock is once released by the
wrong thread; tables that no lock guards; indices of slots used as identities;
datagrams that are lost while no socket is bound; one receive buffer for all
connections of a loop; TCP read once and taken for a whole message; thread handles that outlive
their threads; sockets inherited by commands; event lists that handling an event
can make stale; a pipe, a backlog and a supply of descriptors that run out, and
error paths that end a whole daemon. Each such place is in `PROJECT.json` under `hazards`, with the
properties that watch it.

What makes each component correct:

* scheduler: jobs start in order, none is lost or started twice, a node has one
  piece at a time, a job is FINISHED only when all of it has been reported, a
  cancel reaches all nodes of its job, a query sees one moment, no client is
  held up for ever, jobs go on being taken while nodes answer;
* compute node: each piece runs its own command once and is answered once, a
  cancel hits the thread of the job it names and nothing else;
* server loops: each client that asks is answered, each connection is handled
  while it is still what the event says, no buffer is lost or freed twice, and
  what is booked is what was received, whatever else came in the same round;
* client: a request is handled at most once, and what is printed is its reply;
* node messages: whole messages arrive whole and in order, no daemon ends
  without a cause, no sender stops the loop while the pipe is emptied; each host
  knows its own number.

## 2. Plan

Order of the modules, the most important behaviour first. All but 9 is done.

1. `JobScheduler`, abstract `JobFifo`, `MCJobScheduler`, and the proofs in
   `JobSchedulerProofs`.
2. `ComputeNode`, abstract `PieceServer`, `MCComputeNode`, `ComputeNodeProofs`.
3. `ETransfer`, `HostMonitor`: the event library and a server loop over it;
   `ETransferProofs`, `HostMonitorProofs`.
4. `JobMonitor`: the loop in which the scheduler's requests arrive.
5. `Reports`, `MCReports`: the two receiving loops over `ETransfer`;
   `ReportsProofs`.
6. `Client`, abstract `Exchange`, `MCClient`, `ClientProofs`.
7. `HostFile`, `NodeMessages`, `MCNodeMessages`, `NodeMessagesProofs`.
8. `Cluster`: `JobScheduler` with one node as `ComputeNode` in full;
   `ClusterProofs`.
9. Still open: the effects of slots that are used again (late answers and cancels
   of an earlier job), and `num_hosts` reset under the pop thread by the head's
   own node, which hangs on a file that is not in the repository.

## 3. The modules and the code

Operators named `Mut...` are variants of the definition that follows them, with
a plausible bug. No specification uses them; `PROJECT.json` pairs each with the
property that finds it.

### JobScheduler

Three threads of the head node, each a program counter.

* *Monitor.* `SubmitCheck`: the test for a full queue (lines 349-356); when it is
  full the code unlocks, warns, unlocks again and pushes all the same, hence
  `SubmitUnlockAgain`. `SubmitLock`, `PushComm`, `PushNodes`, `PushHead` are the
  push, field by field in the order of the code. `CancelLock`, `CancelScan` (one
  loop turn), `CancelUnlock`: lines 326-342. `QueryLock`, `QueryRead` (one slot),
  `QueryUnlock`: lines 397-474.
* *Pop.* `PopInit` clears the node tables when the thread starts, which may be
  after the first requests. `PopLock`, `PopTakeComm`, `PopTakeNodes`,
  `PopTakeTail`: lines 738-760. `PopCount` and `PopDecide`: the waiting loop with
  its counter that is not reset. `PopClaim`, `PopSkip`, `PopNoNode`, `PopSend`:
  the two nested launching loops. `PopLaunched`: line 802.
* `PopSendFails` and `CancelSendFails`: a datagram cannot be sent, and `udp_send`
  ends the daemon (`libmsg.c:288-292`) with a node claimed or the lock held; nothing
  happens after that (`Up`).
* *Result.* `ResultRecv`: a result is received and the node freed. `ResultEmpty`: a
  connection ends without data or is reset; the loop ignores what `recv` returned
  and books the last result again (lines 637-645). Before the first result the
  buffer holds what `malloc` left there, which is not booked or is the node and the
  job of any result; numbers out of range would write outside the tables and are left
  out. `MaxEmpties` bounds these connections. `ResultLoad`,
  `ResultStore`, `ResultTest`: `jobnodes[job_id]--` and the test after it, which
  race with line 802; a build may test the value it stored or read the variable
  again, and `ResultTest` allows both. `ResultLock`, `ResultFinish`: lines 647-650.

Guarded sections are several steps with nothing but the lock to hold them
together, because on a full queue the monitor frees a lock that another thread
holds, and then the sections really interleave. Unlocked shared variables are
read and written one entry at a time. Steps that touch only a thread's own
variables are joined with their neighbours.

A job's command is the serial number of its submission, so that one can tell
which submission was taken. `pieces` are the parts of jobs a node has been sent
and has not answered; a node answers at most once, at any time or never. This is
what `PieceServer` states and `ComputeNode` is proved to keep. `strayed` are the
nodes that an empty receive has freed while they were BUSY, `recounted` the jobs it has
counted down while a piece of theirs was out: like `empties` they remember what the
properties except, and steer nothing.

`JobScheduler` starts where a handler has a whole request or a result in its
buffer. In the code as it stands requests do not get there: the job monitor
never accepts a connection (`JobMonitor`, section 5), and nodes send results by
UDP to a TCP port. The scheduler's own logic is worth checking nevertheless, for
it is what runs once these are repaired.

### ComputeNode

`JobBind` and `JobRecv` are the two halves of `udp_recv`, between which the
port is open; a datagram that comes at another time, or that is still in the
socket when it is closed, is lost (`Lose`). `JobCreate`, `JobStore` (one second
later), `JobJoin`, `JobAnswer`, `JobReport` are the rest of the loop; a failing `udp_send`
in it ends the daemon (`JobSendFails`).
`ExecStart` to `ExecPrint` are `execl_thread`; it reads the command from the
job loop's buffer, first to compare it with "sleep" and later in the child.
`ExecCancelled` ends a cancelled thread at a cancellation point. `Cancel` is
`pthread_cancel` on whatever `job_thread_id` holds; on zero or the handle of a
joined thread that is undefined, and the model lets it be refused or bring the
daemon down. The C library gives the handle of a joined thread to a new one, so
`Handles` is small and reused. `children` are forked commands; a child that was
forked while the cancel loop waited in `recvfrom` holds the loop's socket
(`holds`), and `CancelBind` fails while one does. `daemon` says what ended the
process, if something did; a daemon is not restarted.

`host_configure`, called by `msg_configure`, is not in the repository:
`HostCounts` are the values `num_hosts` may have when it returns.

### Cluster

`Cluster` extends `JobScheduler` and instantiates `ComputeNode` for one node,
`Server`. They share three steps: `LaunchPiece` (the pop thread's
`server_single_job_submit` puts a datagram on the node's wire), `SendCancel` (a
turn of the cancel scan that finds the job on `Server`) and `ReceiveResult` (the
result thread gets what the node's job loop has sent). All other steps belong to one
side; a connection without data (`Empty`) is one of the scheduler's. Host 1 is the head itself, one process with the scheduler, which therefore
stops with it (`HeadUp`, `NodeUp`). Pieces go by the id of their job; so slots are not used
again and no job has two pieces, since the pop thread may send both to one node.
Of the commands "sleep" is left out.

### ETransfer, HostMonitor, JobMonitor

`ETransfer` has the state of one `eTransfer` object and the steps that all
server loops share: `WalkThrough` (one `::accept` at most, flags cleared),
`Select` and `SelectAgain` (the two looks at the sockets with a pause in
between), `Accept`, and the iteration over the returned events (`Handling`,
`HandlingDone`), sockets in any order and the listener last. `waitTime` is
`m_base_wait_time`, which nothing initialises: a finite wait, an endless one, or
a value `::select` rejects. `Destroy` puts a socket on a list that nothing
works off, as in the code: it stays registered and open. The exceptional set of
`::select` is left out, it reports only urgent data and no client sends any.

A connection carries one request, received in one piece, and one reply. A client
may leave at any time, so that its socket reads as closed or reset. A client
that leaves without asking is real: `client_query_host_status_0` gives up if the
socket is not writable at once after its non-blocking connect.

`HostMonitor` adds the three branches of `host_monitor_transfer_2`, `JobMonitor`
those of `job_monitor_etransfer`. What a reply says of the hosts is a copy of two
tables and left out.

### Reports

The two loops of the head that receive and do not answer, one at a time
(`service`), because they have the same shape: `Take` is `recv` and the
`destroy_socket` that follows it whatever came. They differ in when they look at
the one buffer that all their connections share. `ReadResult` books what the
buffer holds at once and does not look at the size, so a connection that closes
without data books the last result again; `ReadStatus` books nothing, and
`EndRound` applies what the buffer holds when all events of a `select` are
handled, again in each later round until a connection closes without data. `round` and
`outcome` remember what the properties speak of and steer nothing. The
interleaving of the booking with the other threads is in `JobScheduler`.

Who connects (`Reporters`) is not in the repository: its nodes send their reports
as datagrams (`libjobq.c:137-150`), which never reach a TCP listener (a hazard
without a property). What is modelled is the listening side, and what it does with
connections that do come. So no property here says that a report sent is received.

### Client and Exchange

An invocation of `epbscli` is a program counter, a connection and a buffer.
`Start` is `main`, in which the last of the selecting options wins. `Created`,
`ConnectionError`, `Send`, `Receive` and `ReceiveNothing` are the functions on
`UTransfer`: a submission repeats an incomplete send from the beginning, a
cancellation does not, and a submission prints its buffer whatever `recv`
returned. `HostsAsk` and `HostsReceive` are the query for hosts, which looks once
whether its non-blocking connection is there and reads a torn reply to the
beginning of its buffer each time. `Serve` is what a server loop does with a
connection: read once what has arrived, a part of the request or all of it
(`libjobq.c:296`), handle, reply once; what arrives later is never read, and `buffer`
is what a shorter or torn request leaves of the one before. That the fixed head of a
request, its first bytes, comes in one piece is assumed. `Die` ends the daemon, as many of its error paths do.

A request is its fixed head and, for a submission, the strings behind it; a
reply is its first part, which carries the answer, and the rest. `Exchange` is
what a user relies on: each request handled at most once, each table shown made
from the reply to it.

### HostFile and NodeMessages

`HostFile` has pure operators: a file is a sequence of tags and characters, cut
at the size of the read buffer; `Entry` is one turn of the loop over the entries,
with its place in the text, its `nbytes`, which is counted down by less than an
entry and its surroundings take, and the hosts read so far; `Loop` counts the turns
and `ReadHosts` is what it has read in the end;
`SameHost` compares as many bytes as the own address has, and the last match is
`LocalId`. The definitions below them say what the file was meant to list.

`NodeMessages` starts with daemons that have read such a file. `SendConnect` and
`SendWrite` are the two halves of `msg_send`, which ends its daemon if the connection
is refused or times out. `Relay` is `deal_msg_request`, step by step: the loop stands
in `read` until the connection it has accepted has data (`RelayRead`: once, what has
arrived, up to a buffer full, so that a message may be cut) or has ended (`RelayEnd`);
then in `write` until the pipe has room (`RelayWrite`); then it accepts the next and
keeps the descriptor (`AcceptFails` when there are none left). `Recv` is `msg_recv`,
whose checks end the daemon: `ended` says over what. Nothing in the repository calls
`msg_send` and `msg_recv`, so who sends to whom, which length is asked for, and
whether pipes are emptied at all is left open.

The limits are constants: `BuffSize` (2000 bytes, less than `PIPE_BUF`, so a `write`
goes into the pipe whole or waits), `PipeSize`, `Backlog` (5 in the code) and
`Descriptors`. A connection to a full backlog is tried again by the kernel: it is let
in when there is room, or times out. Socket buffers are taken to hold a message, so
that a sender does not wait in `write`.

Two comments at the head of `epbssrv.c` speak of this component. "cannot connect to
itself" (line 12): nothing in `msg_send` tells the own host from others, and in the
model a node sends to itself; what can go wrong is that its own loop stands in `read` or
`write` with a full backlog, and the connection times out. "msg_send (2,1) is wrong while
msg_send(1,2) is right, need to check!" (line 13): the code does not say what was
seen. `msg_recv` never looks at the sender, so the order of the two can matter only through the
addresses: where that of host 1 begins that of host 2 or the other way round, one of
them takes the other's number (`OwnIdFound`), and a message to it ends its daemon
(`EndsHaveCause`, "dist"); `messages` has both orders. Or through the limits and cut
messages above, which do not depend on the direction.

## 4. Runs that pass

TLC, breadth-first, without symmetry or constraints; bounds are in the guards of
the specification, as constants. `CHECK_DEADLOCK FALSE` is set in all of them
because the systems may stop: a client need not submit, submissions are bounded
(`MaxJobs`, `Pieces`, `Conns`), a node need not answer, a daemon can go down.

| Run | Properties | Instance and why it is enough |
|---|---|---|
| `jobs` | `TypeOK`, `NodeLedger`, `FinishedAllReported`, `CancelComplete` | as many submissions as slots, all of which may wait, so that the queue can be overrun; jobs of 0 to 3 of 2 nodes; ids of a first and a second job and -1, cancelled at any time, also before the pop thread has started; one connection without data at any time, before the first result too; sends that fail |
| `fifo` | `LockDiscipline`, `QueuedJobsReachable`, `AnswerCurrent`, `FifoOrder`, `ImplementsFifo`, `MonitorReturns`, `EveryJobTaken` | more submissions than slots and one slot left free: both indices wrap while jobs wait, run and finish; a job may ask for more nodes than there are; one job or all of them (-1) are queried at any time; refinement of `JobFifo`. No connection without data: none of these properties speaks of the node tables |
| `node` | `TypeOK`, `ServesPieces`, `RunsServedPiece`, `CancelReachesJoined`, `TakenIsAnswered` | three pieces, one of them "sleep", two thread handles, a cancellation of each at any time (before the piece too) and as often as clients ask, one or two hosts after `host_configure` |
| `cluster` | `BooksTrueToNode`, `FinishedIsOver`, `CancelAim` | the head as node 1 in full and a second node; two jobs of one piece or of more nodes than there are, so that either may come to the node first or not at all; the second cancelled at any time and as often as clients ask (of the first, job 0, `CancelAim` claims little); datagrams delayed or lost; one connection without data |
| `host_monitor` | `TypeOK`, `EventsStayCurrent`, `RepliesOwned`, `ErrorsGoAway`, `AskedIsAnswered` | three clients in any state, all wait times |
| `reports` | `TypeOK`, `BookedAsReceived`, `FinishedWhenAllCame`, `QuietRoundsChangeNothing`, `AloneIsKept` | either loop; three reports, two of one host and two of one job, in every grouping into rounds, whose connections may also stay silent, close without data or reset; all wait times |
| `client` | `TypeOK`, `JunkHasCause`, `BookedWhole`, `ExchangeSpec`, `ClientEnds` | two invocations of every kind at once, command lines with several selecting options, none, or a host that does not exist; a cut send each, and a request that was sent whole may arrive in parts; the daemon may end at any time |
| `messages` | `TypeOK`, `HostsRead`, `OwnIdFound`, `DeliveredInOrder`, `EndsHaveCause`, `WrittenIsRelayed` | two machines with addresses that differ or begin with each other, in both orders, or three machines whose file is longer than what is read; three messages that fit the buffer or do not, to any machine; any length asked for; backlog 1, a pipe of one message and a part, three descriptors: each of them can run out |

Two nodes are the fewest on which a job can have several pieces and two jobs can
run at once. A queue of three slots is the smallest that can hold two waiting
jobs, be full and wrap. Two handles let a new thread have a fresh handle
or an old one. Three clients let one be served while a second waits in the accept
list and a third misbehaves. Two clients of the daemon are enough for one to get
what belongs to the other; three reports are the fewest of which two can fall
into one round and a third be alone. Three messages let one follow a cut one and
one go the other way.

Provisos. `LockDiscipline`, `QueuedJobsReachable` and `ImplementsFifo` need a
queue that does not fill up (`MaxBacklog < QSize`: a client submits only while
fewer than `MaxBacklog` jobs wait), and so do `FifoOrder`, `AnswerCurrent` and
`EveryJobTaken`; the code does not ensure this, and section 5 shows
what happens without it. `FinishedAllReported` needs a run in which no slot, and
so no job id, is used twice (`MaxJobs <= QSize`), and `CancelComplete` fails
when slots are used again in an overrun queue. `CancelAim` needs that clients cancel
ids of slots: -1 would match every node that has had no job. `FinishedWhenAllCame` needs that no
connection closes without data. Where the scheduler meets such a connection its ledger
is wrong, and the properties say how far: `NodeLedger`, `CancelComplete`,
`BooksTrueToNode` and `CancelAim` hold except for the nodes in `strayed`, the ones that were BUSY
again when they were freed once more, `FinishedAllReported` and `FinishedIsOver`
except for the jobs in `recounted`, and `BookedAsReceived` bounds the miscount by the
number of such connections. `BookedWhole` lets a submission have strings
of an earlier request only if a send of it was cut or it was not all there when it was
read. `OwnIdFound` needs that no listed address begins with
another. `EveryJobTaken` has as a hypothesis that each node, time and again, owes no
answer (`NodesAnswer`), which datagrams that nobody repeats do not promise, and
`WrittenIsRelayed` that somebody empties the pipes (`PipesEmptied`), as nobody in the
repository does: the code stops without it. `ErrorsGoAway` and `AskedIsAnswered` need the wait
time of `walk_through`, which nothing sets, to be one that passes (`WaitPasses`).
`EveryJobTaken` and `MonitorReturns` allow for a daemon that has ended.

## 5. Runs that end in a violation

Each checks one claim of the repository's own text against what the code does.

| Run | What the code does |
|---|---|
| `full_queue_loses` | a submission to a full queue makes `job_head` meet `job_tail`: all waiting jobs are lost |
| `enough_nodes` | a free node is counted again in every round, and a job starts on fewer nodes than it asked for |
| `cancel_ends_daemon` | the first cancel while a command runs ends the node's daemon, because the command holds the port |
| `job_monitor` | the job monitor never accepts a connection |

Seen on the way and without a run of its own: with a backlog bound that lets the
queue overrun, `FifoOrder` fails too, because the second unlock puts the monitor
and the pop thread into the queue together; a cancel that comes in the first
second of a job does not reach its thread, because `job_thread_id` is not stored yet; `nodesstat` is never set back to -1,
so a cancel of a finished job is still sent to its last node, where it may hit the
next job; it is zero until the pop thread starts, so an early cancel of job 0 goes to
every node (`CancelAim` allows for both and for nothing else); a job is FINISHED when
its thread has forked the command, not when the command ends; two pieces of one job
may be sent to one node, if it answers the first before the second is placed; and `HostMonitor`
with an endless or invalid wait time need not answer. The reply to a query for
hosts (`host_monitor.c:121-137`) copies `pcstat` and `hostq` from index 0 to
`num_hosts - 1`, while hosts are numbered from 1: the last host is never listed.
Of several hosts that report their state in one round only one is booked
(`AloneIsKept` says no more than that one alone is), and an invocation of
`epbscli -qh` whose connection is lost waits for ever (`ClientEnds` excepts it).

## 6. Fairness

* *Scheduler* (`Fairness`). Weak fairness of a started handler, of the pop thread
  and of the booking of a result: these threads run loops without a way out, and
  the kernel schedules them. Strong fairness of the three lock acquisitions: the
  mutex is free again and again, the other threads sleep or do network work
  between two acquisitions (`job_queue_pop` sleeps at least a second), so a
  waiter gets it at last. Of nodes and network nothing is assumed: `MonitorReturns`
  holds although the pop thread may wait for nodes for ever, and `EveryJobTaken` has
  the answers as a hypothesis of its own. Clients owe nothing.
* *Compute node* (`LiveSpec`). Weak fairness of the job loop and of the job
  thread: threads that run, and a `sleep(100)` that ends. None for network,
  commands or cancel loop.
* *Server loops* (`LiveSpec`). Weak fairness of the loop as a whole. None for
  clients.
* *Client* (`LiveSpec`). Weak fairness of each invocation, of the network that
  completes or refuses a connection, and of the host monitor's service, which
  `HostMonitor` is checked for. None for the job monitor (`JobMonitor` shows that it
  never accepts), so `ClientEnds` speaks of submissions and job queries only once
  they are handled.
* *Node messages* (`LiveSpec`). Weak fairness of a begun `msg_send` and of the
  message loop. Nobody has to send or to receive, which is why `WrittenIsRelayed` has
  a hypothesis.

## 7. Proofs

All theorems hold for every value of the constants that the named `ASSUME`s of
the modules allow; a proviso beyond these is part of the theorem's statement.
Each argument is an inductive invariant, proved action by action.

**The scheduler** (`JobSchedulerProofs`), for every number of slots (at least two), hosts, requests and bounds:

| Theorem | Statement | Argument |
|---|---|---|
| `TypeCorrect` | `Spec => []TypeOK` | `TypeOK` is not inductive: the id the pop thread takes must be a slot, not the -1 of an unused one. The invariant `SlotsFilled` adds that the slots the queue has passed or reached have been filled, in an overrun queue too. |
| `LedgerCorrect` | `Spec => []NodeLedger` | strengthened by `Claimed`: between its claim and its dispatch the node at `k` is BUSY for the pop thread's job and has no piece yet. Only the pop thread makes a node BUSY, and what frees it is a result for its piece, which is why no lock is needed, or an empty receive (`LedgerEmpty`): that one can free a node at work, and then the node is in `strayed`, of which the ledger claims nothing more. |
| `LockCorrect` | `MaxBacklog < QSize => (Spec => []LockDiscipline)` | the monitor never meets a full queue, so it never unlocks a mutex it does not hold. The point of the proof is that the number of waiting jobs cannot grow between the test and the push, because only the monitor adds any. |
| `ReachableCorrect` | the same for `QueuedJobsReachable` | an arithmetic argument on the circular interval `Waiting`, with the slot being filled and the slot being taken as the two exceptions. |
| `FifoCorrect` | the same for `FifoOrder` | each waiting slot holds the serial number that its distance from `job_tail` implies, and the last taken is smaller than all of them. |
| `AnswerCorrect` | the same for `AnswerCurrent` | only a thread that holds `jobq_lock` writes a status, and the query holds it; and since a slot's id is -1 or its own number (`OwnIds`), the search that stops at the first match has found the only one. |
| `CancelCorrect` | the same for `CancelComplete` | a piece that a cancel request owes a visit is either shown by `nodesstat`, or is past (`Past`): not worked on, and of an earlier submission than the pop thread's. Past pieces stay past because submissions are taken in order (`FifoCorrect`), and a node that is not in `strayed` is handed on only when it works on none (`LedgerCorrect`). |
| `FifoImplemented` | `MaxBacklog < QSize => (Spec => ImplementsFifo)` | the queue's contents are determined by two numbers, the submissions and how many of them wait (`QueueHolds`); `PushHead` is the abstract submission, `PopTakeComm` the abstract take, all else a stutter. |
| `ReportedCorrect` | `MaxJobs <= QSize => (Spec => []FinishedAllReported)` | the pop thread stores `jobnodes` after its dispatches while the result thread counts it down, so the count can be wrong, but only in one direction: it is negative, or at least what is still to come (`CountInv`), because an answer that is counted before the store is overwritten by it. An empty receive that counts a job down while pieces of it are out puts it into `recounted`; for such a job the invariant keeps only that its count reaches zero after its launch and not before, and what is out (`DrainInv`) is claimed of the others. One that comes when nothing of the job is out does no harm. `SentInv` bounds what is out by what was dispatched, `StageInv` says which slots were taken, also in an overrun queue, and `OwnerInv` that each thread works on a job that was. |

**The compute node** (`ComputeNodeProofs`):

| Theorem | Statement | Argument |
|---|---|---|
| `TypeCorrect` | `Spec => []TypeOK` | with the clause that a job thread exists exactly between its creation and its join. |
| `ServesCorrect` | `Spec => ServesPieces` | refinement of `PieceServer`: pieces are taken from the wire once (`TakenInv`) and answered in the order they were taken, so that only the last one is open (`OrderInv`). |
| `RunsCorrect` | `Spec => RunsServedPiece` | `OrderInv`: while a thread exists, `recv_buffer` is not received into. |
| `CancelCorrect` | `Spec => CancelReachesJoined` | `HandleInv`: in the join `job_thread_id` is the handle of the thread that is joined, although handles are used again. |

**The scheduler with a node in full** (`ClusterProofs`, which uses the invariants
of the two above):

| Theorem | Statement | Argument |
|---|---|---|
| `HeadImplemented`, `NodeImplemented` | `ClusterSpec => Spec`, `ClusterSpec => Node!Spec` | every step of the cluster is one of each side or leaves it alone. So all theorems about the scheduler and about the node hold here, where neither is left to an arbitrary partner. That the head cancels only ids of jobs, which `ComputeNode` takes for granted, is `ReqInv`. |
| `NewPieceCorrect` | `ClusterSpec => []NewPiece` | `ComputeNode` lets a piece be submitted once, so the joint step `LaunchPiece` has a guard that `PopSend` alone has not. `OnceInv` shows that it never holds the pop thread up: a job whose piece was sent is RUNNING or FINISHED, which the job taken next is not, and a job of one piece has left the launching loop after its dispatch. |
| `BooksCorrect` | `ClusterSpec => []BooksTrueToNode` | `LinkInv`: a piece the node has before it is one the scheduler counts as sent and not answered, so `NodeLedger` speaks of it, unless the node is in `strayed`. |
| `FinishedCorrect` | `ClusterSpec => []FinishedIsOver` | the same with `FinishedAllReported`; no slot is used twice here (`IdsAssumption`). Jobs in `recounted` are excepted. |
| `AimCorrect` | `ClusterSpec => CancelAim` | `NameInv` and `AimInv`: what `nodesstat` says of the node, and so a cancellation that is on its way or in hand, names a job that the node has been sent, one it has been claimed for, or job 0. By `LinkInv` and the ledger the node has one job at a time, unless it is in `strayed`. |

**The server loops** (`ETransferProofs`, `HostMonitorProofs`, `ReportsProofs`):

| Theorem | Statement | Argument |
|---|---|---|
| `TypeCorrect` (host monitor) | `Spec => []TypeOK` | `PlaceInv`: a connection is in one place at a time, in the kernel's list, in the accept list, among the polled sockets or on the destroy list. |
| `EventsCorrect` | `Spec => []EventsStayCurrent` | `ReadyInv`: there is one event per socket, and handling one touches no other socket's entry; that clients act in between does not make an event untrue. The lemmas of `ETransferProofs` are about the steps of the library and serve both loops. |
| `RepliesCorrect` | `Spec => []RepliesOwned` | with `ErrorInv`: a socket in error does not wait to be written, so it owns no reply when it is given up. |
| `TypeCorrect` (reports) | `Spec => []TypeOK` | part of the invariant of the next. |
| `BookedCorrect`, `FinishedCorrect` (reports) | `Spec => []BookedAsReceived`, `Spec => []FinishedWhenAllCame` | `TakenInv`: what was received from is on the destroy list and is not received from again, so each connection counts once; the rest is cardinalities. |
| `QuietCorrect`, `AloneCorrect` | `Spec => QuietRoundsChangeNothing`, `Spec => AloneIsKept` | `RoundInv` ties the buffer to the connections of the round, and between rounds to the table. |

**The client** (`ClientProofs`):

| Theorem | Statement | Argument |
|---|---|---|
| `TypeCorrect` (client) | `Spec => []TypeOK` | what a connection, the daemon's buffer or a client's can hold is bounded by the longest request and the longest reply; that there is a longest is shown from finite sets (`SizeInv`). |
| `ExchangeCorrect` | `Spec => ExchangeSpec` | refinement of `Exchange`: what comes over a connection is a part of the one reply made for it (`ReplyInv`), and the buffer begins with its answer or with junk (`KeptInv`). |
| `JunkCorrect` | `Spec => []JunkHasCause` | `JunkInv` strengthens it: a host query that shows junk early has sent nothing, so it will not be handled later. |
| `BookedCorrect` (client) | `Spec => []BookedWhole` | `StreamInv`: without a cut send, the daemon finds nothing or the whole request in the connection, and what it leaves there after its one read is what it has not got. `BookInv`: so a submission has its own strings, or something of it was cut or is left and it has what the buffer held; and the buffer never holds anything but parts of requests handled before (`Handed`). |

**The host file and the node messages** (`NodeMessagesProofs`), for every number of
machines, list of addresses, text between the entries, length of message, size of
the buffers and number of messages:

| Theorem | Statement | Argument |
|---|---|---|
| `TypeCorrect` (messages) | `Spec => []TypeOK` | `ConnInv`: a connection is for one message, of the machine it was made to, and is read once; `HeadInv`: the heads in the pipe are in the order of the messages that were read, and none of them is of a delivered one, so no more are delivered than were read. `HandInv`: what the loop has in its hand is of the connection it is at; `CountInv`: connections served and waiting are no more than were made, and nothing exceeds its limit. |
| `OrderCorrect` | `Spec => []DeliveredInOrder` | the pipe is bytes without boundaries. `BlockInv`: while the daemon is up, the pipe begins where a message begins, and the messages read and not delivered follow each other whole up to the first that was cut. A read takes its part of the first of them exactly, because `msg_recv` ends the daemon if the caller asked for another length. Nothing is claimed of what comes after a cut message. |
| `HostsCorrect` | `Spec => []HostsRead` | the file is described by where its entries end (`EndsAre`, `EntryIs`, `BetweenIs`); a turn that stands behind the n-th entry finds the tags of the next one and takes exactly its address (`TurnReads`), or finds no closing tag and is over (`TurnEnds`). `ReadTo` is the invariant of the loop: `nbytes` and the bytes passed are together at least the bytes of the text, because an entry passes what stands before it too but takes only its address and 13 off `nbytes`. So the test of `nbytes` against 13 never ends the loop before an entry that is whole in the buffer. The variables keep what was read, since nothing reads the file again. |
| `OwnIdCorrect` | `Spec => []OwnIdFound` | if no address begins another, the only match is the machine itself. |
| `EndsCorrect` | `Spec => []EndsHaveCause` | by `BlockInv` a part that is no head can begin the pipe only after a cut; by `ConnInv` a message has come to the machine whose address has the number of its receiver, which is the one that machine has found for itself unless addresses are confused (`OwnId`). By `CountInv` a connection times out only when more were made than the backlog holds, and accept fails only when as many were made as there are descriptors. |

The last three rest on inductions over the file: over its entries, its bytes and the
turns of the loop. The library's induction theorems take an operator as a parameter,
which none of the provers can instantiate, so `Induction` states the principle for a
set of numbers, from the well-foundedness of `<` on the naturals and the least
element of a set (`WFMin`), and `Recursion` derives from it that a recursively
defined function exists, which gives `Sizes`, `Beginnings` and `Loop` their equations.

Every leaf is checked by Z3, Zenon or LS4.

Assumptions on constants that only the proofs use: `HandlesAssumption` (there is a
thread handle, and "none" is not one), `ClientAssumption` (finitely many clients),
`OptionAssumption` (a command line is a finite list of options) and
`AddressAssumption` and `BetweenAssumption` (addresses are not empty, and neither they
nor what stands between the entries contain a tag; an entry without an address at the
end of a file would leave 13 bytes, and the loop wants more). TLC evaluates them too.

Model-checked only: liveness under fairness (`MonitorReturns`, `EveryJobTaken`,
`TakenIsAnswered`, `ErrorsGoAway`, `AskedIsAnswered`, `ClientEnds` and
`WrittenIsRelayed`), which tlapm does not treat.

## 8. Left out, and why

* What section 2 lists under 9.
* `hostq_init`, which copies the host tables once, and a host file with more than
  `MAX_NUM_HOSTS` hosts, which overruns them.
* What lies in `rbuffer` behind a short file: it is not initialised and the text is
  not terminated, so `strstr` searches on in it. The model takes it to hold no tags.
* `client_query_host_status`, marked deprecated, and `eTransfer::create_socket` with
  `register_sock`, which nobody calls.
* `job_queue_push`, `job_status_query`, `job_queue_result_0`, `job_monitor`,
  `tcp_send`, `tcp_send1` and the older host monitors are superseded and not
  called.
* `libuser.c`, `NetAux`, `SockBase`, `SockTcp`: thin wrappers over system calls.
* `UTransfer`, `CUtility`, `CPPTimers`, `host_configure` and `Utility.h` are not in
  the repository. `Client` models of `UTransfer` what its callers see; `MAX_SEND_LEN`
  and `MAX_RECV_LEN` are taken to be large enough for a message.
* The query for job -2 writes past its reply buffer; a program has no defined
  behaviour after that, and the model does not make such a query.
* The numbers out of range that an uninitialised result buffer may hold, with which
  `job_queue_result_1` writes outside its tables, and a request whose fixed head
  arrives in pieces.
* Running out of memory and threads, and of descriptors outside the message loop.
