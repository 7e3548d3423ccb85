----------------------------- MODULE ComputeNode -----------------------------
(***************************************************************************)
(* The daemon on one compute node (libjobq.c, with udp_recv of libmsg.c):  *)
(*                                                                         *)
(*   job loop     deal_interactive_job_request   a piece of a job at a     *)
(*                time: receive, run in a thread, join, answer the head    *)
(*   job thread   execl_thread                   forks the command         *)
(*   cancel loop  cancel_job_request             cancels job_thread_id     *)
(*                                                                         *)
(* and the commands it forked.  udp_recv opens, binds and closes a socket  *)
(* for every datagram.  A forked command inherits the cancel loop's open   *)
(* socket and keeps its port taken until it ends.                          *)
(*                                                                         *)
(* The head node sends a piece once, and its cancellation as often as      *)
(* clients ask, which may be before the piece itself; UDP may lose or      *)
(* delay a datagram.  A piece stands for its own job id and command line.  *)
(*                                                                         *)
(* An operator named Mut... is the definition below it with a plausible    *)
(* bug; it is used by no other, and shows what a property is there for.    *)
(***************************************************************************)
EXTENDS Naturals, Sequences, FiniteSets

CONSTANTS
  Pieces,      \* the pieces of jobs that the head sends to this node
  SleepPieces, \* those whose command is "sleep", which execl_thread treats apart
  NoPiece,
  Handles,     \* the pthread_t values; that of a joined thread is used again
  NoHandle,    \* job_thread_id while it is zero
  LocalId,     \* local_id, the node's place in the host file
  HostCounts   \* the values num_hosts may have after msg_configure

ASSUME PiecesAssumption  == SleepPieces \subseteq Pieces /\ NoPiece \notin Pieces
ASSUME HandlesAssumption == Handles # {} /\ NoHandle \notin Handles
ASSUME HostsAssumption   == LocalId \in Nat /\ HostCounts \subseteq Nat

NoThread == [handle |-> NoHandle, pc |-> "none", cancelled |-> FALSE]

VARIABLES
  daemon,                 \* "up", or what ended the process
  sent, wire, cancelWire, \* pieces sent so far, datagrams on their way
  jobPc, buffer, piece,   \* the job loop, its recv_buffer and its job_id
  taken, answered,        \* pieces received and results sent, in order
  thread, jobThreadId,    \* the unjoined job thread, and the global job_thread_id
  children,               \* forked commands, and whether they hold the cancel port
  cancelPc, cancelId      \* the cancel loop

wireVars   == <<sent, wire, cancelWire>>
jobVars    == <<jobPc, buffer, piece, taken, answered>>
cancelVars == <<cancelPc, cancelId>>
vars == <<daemon, wireVars, jobVars, thread, jobThreadId, children, cancelVars>>

Up == daemon = "up"

Init ==
  /\ daemon = "up"
  /\ sent = {} /\ wire = {} /\ cancelWire = {}
  /\ jobPc = "closed" /\ buffer = NoPiece /\ piece = NoPiece
  /\ taken = <<>> /\ answered = <<>>
  /\ thread = NoThread /\ jobThreadId = NoHandle
  /\ children = {}
  /\ cancelPc = "closed" /\ cancelId = NoPiece

-----------------------------------------------------------------------------
(* The head node and the network.                                          *)

Submit(p) ==
  /\ p \notin sent
  /\ sent' = sent \cup {p} /\ wire' = wire \cup {p}
  /\ UNCHANGED <<daemon, cancelWire, jobVars, thread, jobThreadId,
                 children, cancelVars>>

CancelSubmit(p) ==
  /\ cancelWire' = cancelWire \cup {p}
  /\ UNCHANGED <<daemon, sent, wire, jobVars, thread, jobThreadId, children, cancelVars>>

\* On the way, at a port nobody has bound, or in a socket that is closed.
Lose(p) ==
  /\ \/ p \in wire /\ wire' = wire \ {p} /\ UNCHANGED cancelWire
     \/ p \in cancelWire /\ cancelWire' = cancelWire \ {p} /\ UNCHANGED wire
  /\ UNCHANGED <<daemon, sent, jobVars, thread, jobThreadId,
                 children, cancelVars>>

-----------------------------------------------------------------------------
(* The job loop.                                                           *)

JobBind ==
  /\ Up /\ jobPc = "closed"
  /\ jobPc' = "bound"
  /\ UNCHANGED <<daemon, wireVars, buffer, piece, taken, answered, thread,
                 jobThreadId, children, cancelVars>>

JobRecv(p) ==
  /\ Up /\ jobPc = "bound" /\ p \in wire
  /\ wire' = wire \ {p}
  /\ buffer' = p /\ piece' = p /\ taken' = Append(taken, p)
  /\ jobPc' = "create"
  /\ UNCHANGED <<daemon, sent, cancelWire, answered, thread,
                 jobThreadId, children, cancelVars>>

\* The thread gets a pointer into recv_buffer, and a handle that a joined
\* thread may have had.
JobCreate ==
  /\ Up /\ jobPc = "create"
  /\ \E h \in Handles : thread' = [handle |-> h, pc |-> "start", cancelled |-> FALSE]
  /\ jobPc' = "store"
  /\ UNCHANGED <<daemon, wireVars, buffer, piece, taken, answered, jobThreadId,
                 children, cancelVars>>

MutJobStore ==
  /\ Up /\ jobPc = "store"
  /\ jobPc' = "join"
  /\ UNCHANGED <<daemon, wireVars, buffer, piece, taken, answered, thread, jobThreadId,
                 children, cancelVars>>

\* A second after the creation the handle becomes known to the cancel loop.
JobStore ==
  /\ Up /\ jobPc = "store"
  /\ jobThreadId' = thread.handle
  /\ jobPc' = "join"
  /\ UNCHANGED <<daemon, wireVars, buffer, piece, taken, answered, thread,
                 children, cancelVars>>

MutJobJoin ==
  /\ Up /\ jobPc = "join"
  /\ jobPc' = "answer"
  /\ UNCHANGED <<daemon, wireVars, buffer, piece, taken, answered, thread, jobThreadId,
                 children, cancelVars>>

\* The handle is dead from here on, but stays in job_thread_id.
JobJoin ==
  /\ Up /\ jobPc = "join" /\ thread.pc = "done"
  /\ thread' = NoThread
  /\ jobPc' = "answer"
  /\ UNCHANGED <<daemon, wireVars, buffer, piece, taken, answered, jobThreadId,
                 children, cancelVars>>

MutJobAnswer ==
  /\ Up /\ jobPc = "answer"
  /\ answered' = Append(answered, piece)
  /\ jobPc' \in {"answer", "report"}
  /\ UNCHANGED <<daemon, wireVars, buffer, piece, taken, thread, jobThreadId,
                 children, cancelVars>>

\* JOB_STAT_FINISHED, however the thread ended.
JobAnswer ==
  /\ Up /\ jobPc = "answer"
  /\ answered' = Append(answered, piece)
  /\ jobPc' = "report"
  /\ UNCHANGED <<daemon, wireVars, buffer, piece, taken, thread, jobThreadId,
                 children, cancelVars>>

\* The second datagram to the head says that the node is free.
JobReport ==
  /\ Up /\ jobPc = "report"
  /\ jobPc' = "closed"
  /\ UNCHANGED <<daemon, wireVars, buffer, piece, taken, answered, thread,
                 jobThreadId, children, cancelVars>>

\* udp_send fails, for the answer or for the report: exit(1).
JobSendFails ==
  /\ Up /\ jobPc \in {"answer", "report"}
  /\ daemon' = "sendFailed"
  /\ UNCHANGED <<wireVars, jobVars, thread, jobThreadId, children, cancelVars>>

-----------------------------------------------------------------------------
(* The job thread.                                                         *)

ExecAt(pc) == Up /\ thread.pc = pc
ExecGo(pc) ==
  /\ thread' = [thread EXCEPT !.pc = pc]
  /\ UNCHANGED <<wireVars, jobVars, jobThreadId, cancelVars>>

ExecStart ==
  /\ ExecAt("start")
  /\ ExecGo(IF buffer \in SleepPieces THEN "msgInit" ELSE "fork")
  /\ UNCHANGED <<daemon, children>>

\* msg_init reads the configuration again, and ends the process if local_id is
\* beyond the num_hosts it finds.
ExecMsgInit ==
  /\ ExecAt("msgInit")
  /\ \E n \in HostCounts : daemon' = IF LocalId \in 1 .. n THEN "up" ELSE "badConfig"
  /\ ExecGo("sleep")
  /\ UNCHANGED children

MutExecSleep ==
  /\ ExecAt("sleep")
  /\ ExecGo("sleep")
  /\ UNCHANGED <<daemon, children>>

ExecSleep ==
  /\ ExecAt("sleep")
  /\ ExecGo("fork")
  /\ UNCHANGED <<daemon, children>>

\* The command is read from recv_buffer only now.  All open descriptors,
\* the cancel loop's socket among them, go to the child.
ExecFork ==
  /\ ExecAt("fork")
  /\ children' = children \cup {[piece |-> buffer, holds |-> cancelPc = "bound"]}
  /\ ExecGo("print")
  /\ UNCHANGED daemon

\* The thread does not wait for the child.
ExecPrint ==
  /\ ExecAt("print")
  /\ ExecGo("done")
  /\ UNCHANGED <<daemon, children>>

\* A cancelled thread ends in its next blocking call or output, if it gets there.
ExecCancelled ==
  /\ Up /\ thread.cancelled /\ thread.pc \in {"start", "msgInit", "sleep", "print"}
  /\ ExecGo("done")
  /\ UNCHANGED <<daemon, children>>

ChildEnd(c) ==
  /\ c \in children
  /\ children' = children \ {c}
  /\ UNCHANGED <<daemon, wireVars, jobVars, thread, jobThreadId, cancelVars>>

-----------------------------------------------------------------------------
(* The cancel loop.                                                        *)

\* bind fails while a command holds the port that the daemon has closed, and a
\* failed bind ends the daemon.
CancelBind ==
  /\ Up /\ cancelPc = "closed"
  /\ IF \E c \in children : c.holds
     THEN daemon' = "portInUse" /\ UNCHANGED cancelPc
     ELSE cancelPc' = "bound" /\ UNCHANGED daemon
  /\ UNCHANGED <<wireVars, jobVars, thread, jobThreadId, children, cancelId>>

\* udp_recv closes the socket before it returns.
CancelRecv(p) ==
  /\ Up /\ cancelPc = "bound" /\ p \in cancelWire
  /\ cancelWire' = cancelWire \ {p}
  /\ cancelId' = p
  /\ cancelPc' = "cancel"
  /\ UNCHANGED <<daemon, sent, wire, jobVars, thread, jobThreadId, children>>

\* The job id of the request is not looked at.  pthread_cancel of a handle that
\* is zero or dead is undefined: it is refused, or it brings the process down.
Cancel ==
  /\ Up /\ cancelPc = "cancel"
  /\ cancelPc' = "closed"
  /\ IF thread # NoThread /\ thread.handle = jobThreadId
     THEN thread' = [thread EXCEPT !.cancelled = TRUE] /\ UNCHANGED daemon
     ELSE daemon' \in {"up", "badCancel"} /\ UNCHANGED thread
  /\ UNCHANGED <<wireVars, jobVars, jobThreadId, children, cancelId>>

-----------------------------------------------------------------------------
JobLoop == \/ JobBind \/ (\E p \in wire : JobRecv(p)) \/ JobCreate \/ JobStore
           \/ JobJoin \/ JobAnswer \/ JobReport \/ JobSendFails
JobThread == \/ ExecStart \/ ExecMsgInit \/ ExecSleep \/ ExecFork \/ ExecPrint
             \/ ExecCancelled
CancelLoop == CancelBind \/ (\E p \in cancelWire : CancelRecv(p)) \/ Cancel
Network == \/ \E p \in Pieces : Submit(p) \/ CancelSubmit(p)
           \/ \E p \in wire \cup cancelWire : Lose(p)

Next == JobLoop \/ JobThread \/ CancelLoop \/ Network \/ (\E c \in children : ChildEnd(c))

Spec == Init /\ [][Next]_vars

\* The kernel runs the daemon's threads; commands and the network owe nothing.
LiveSpec == Spec /\ WF_vars(JobLoop) /\ WF_vars(JobThread)
-----------------------------------------------------------------------------
Threads == [handle : Handles, cancelled : BOOLEAN,
            pc : {"start", "msgInit", "sleep", "fork", "print", "done"}]

TypeOK ==
  /\ daemon \in {"up", "badConfig", "portInUse", "badCancel", "sendFailed"}
  /\ sent \subseteq Pieces /\ wire \subseteq sent
  /\ cancelWire \subseteq Pieces
  /\ jobPc \in {"closed", "bound", "create", "store", "join", "answer", "report"}
  /\ buffer \in Pieces \cup {NoPiece} /\ piece \in Pieces \cup {NoPiece}
  /\ taken \in Seq(Pieces) /\ answered \in Seq(Pieces)
  /\ thread \in Threads \cup {NoThread}
  /\ thread # NoThread <=> jobPc \in {"store", "join"}
  /\ jobThreadId \in Handles \cup {NoHandle}
  /\ children \subseteq [piece : Pieces, holds : BOOLEAN]
  /\ cancelPc \in {"closed", "bound", "cancel"}
  /\ cancelId \in Pieces \cup {NoPiece}

\* The job thread reads its command from recv_buffer long after it was created:
\* what it starts is nevertheless the command of the piece that the node took
\* last, and it starts it before the result of that piece is sent.
RunsServedPiece ==
  [][\A c \in children' \ children :
       c.piece = piece /\ Len(answered) < Len(taken)]_children

\* Once the job loop waits for the thread, a cancel request reaches that thread
\* and nothing else: the global job_thread_id, which outlives every thread, is
\* then neither zero nor the handle of an earlier one.
CancelReachesJoined ==
  [][(cancelPc = "cancel" /\ jobPc = "join") => thread'.cancelled /\ daemon' = "up"]_cancelPc

\* A piece that was taken is answered unless the daemon goes down, whatever the
\* cancel loop does to its thread and for however long the command runs.
TakenIsAnswered == (Len(answered) < Len(taken)) ~> (Len(answered) = Len(taken) \/ ~Up)
=============================================================================
