------------------------------- MODULE Cluster -------------------------------
(***************************************************************************)
(* The scheduler of the head node together with one of its compute nodes.  *)
(*                                                                         *)
(* JobScheduler has the nodes as what PieceServer promises: a piece is     *)
(* answered at most once, at any time.  Here the node Server is ComputeNode*)
(* in full, and the two meet in three joint steps: the pop thread sends it *)
(* a piece, the scan of a cancel request sends it a cancellation, and the  *)
(* result thread receives what the node has answered, or a connection that *)
(* ends without data.  The other nodes stay as JobScheduler has them.      *)
(*                                                                         *)
(* A piece goes by the id of its job.  For that no slot is used twice and  *)
(* no job has two pieces, which the pop thread may send to the same node.  *)
(*                                                                         *)
(* An operator named Mut... is the definition below it with a plausible    *)
(* bug; it is used by no other, and shows what a property is there for.    *)
(***************************************************************************)
EXTENDS JobScheduler, Sequences

CONSTANTS
  Server,             \* the node in full
  Handles, NoHandle   \* as in ComputeNode

\* nodesstat is -1 for a node without a job, so that a cancellation of -1 would
\* reach any; only slots are cancelled here.
ASSUME CancelAssumption   == CancelIds \subseteq Slots
ASSUME ServerAssumption   == Server \in Hosts
ASSUME IdsAssumption      == MaxJobs <= QSize
ASSUME OnePieceAssumption == \A n \in Requests : n <= 1 \/ n > NumHosts
ASSUME HandlesAssumption  == Handles # {} /\ NoHandle \notin Handles

VARIABLES daemon, sent, wire, cancelWire, jobPc, buffer, piece, taken, answered,
          thread, jobThreadId, children, cancelPc, cancelId

serverVars == <<daemon, sent, wire, cancelWire, jobPc, buffer, piece, taken, answered,
                thread, jobThreadId, children, cancelPc, cancelId>>

\* The command "sleep", whose thread reads the host file again, is left to
\* ComputeNode by itself.
Node == INSTANCE ComputeNode WITH
          Pieces <- Slots, NoPiece <- -1, SleepPieces <- {},
          LocalId <- Server, HostCounts <- {NumHosts}

Answered == {answered[n] : n \in DOMAIN answered}

\* Host 1 is the head: one process is its scheduler and a compute node.
HeadUp == Up /\ (Server = 1 => Node!Up)
NodeUp == Server = 1 => Up

\* The steps of the head that no datagram of this node has a part in.
HeadAlone == \/ Submit \/ Query \/ (\E j \in CancelIds : CancelLock(j)) \/ CancelUnlock
             \/ PopInit \/ PopLock \/ PopTakeComm \/ PopTakeNodes \/ PopTakeTail
             \/ PopCount \/ PopDecide \/ PopClaim \/ PopSkip \/ PopNoNode \/ PopLaunched
             \/ CancelSendFails \/ PopSendFails \/ Book

NodeAlone == \/ NodeUp /\ (Node!JobLoop \/ Node!JobThread \/ Node!CancelLoop)
             \/ (\E p \in wire \cup cancelWire : Node!Lose(p))
             \/ (\E c \in children : Node!ChildEnd(c))

MutLaunchPiece ==
  /\ PopSend
  /\ IF i = Server THEN Node!Submit(popJob.id) ELSE UNCHANGED serverVars

LaunchPiece ==
  /\ PopSend
  /\ IF k = Server THEN Node!Submit(popJob.id) ELSE UNCHANGED serverVars

MutSendCancel ==
  /\ CancelScan
  /\ IF monK = Server THEN Node!CancelSubmit(monReq) ELSE UNCHANGED serverVars

SendCancel ==
  /\ CancelScan
  /\ IF monK = Server /\ HoldsJob(monK) THEN Node!CancelSubmit(monReq)
                                        ELSE UNCHANGED serverVars

\* A result of Server is one that its job loop has sent, if it is one at all.
ReceiveResult ==
  /\ \/ \E p \in pieces : ResultRecv(p) /\ (p.node = Server => p.id \in Answered)
     \/ Empty
  /\ UNCHANGED serverVars

ClusterInit == Init /\ Node!Init

HeadNext == \/ HeadAlone /\ UNCHANGED serverVars
            \/ LaunchPiece \/ SendCancel \/ ReceiveResult

ClusterNext == (HeadUp /\ HeadNext) \/ (NodeAlone /\ UNCHANGED vars)

ClusterSpec == ClusterInit /\ [][ClusterNext]_<<vars, serverVars>>
-----------------------------------------------------------------------------
\* The jobs this node has to do with: on the way to it, taken and not yet
\* answered, or in a thread that has not been joined.
OnServer == wire \cup ({taken[n] : n \in DOMAIN taken} \ Answered)
            \cup (IF thread.pc = "none" THEN {} ELSE {piece})

\* The head's tables tell what the node does, though they change a network
\* apart from it: a node that has a job before it or in a thread is not offered
\* another one, and nodesstat names that job, to which cancellations then go.
\* It is lost for a node that an empty receive has freed at work.
BooksTrueToNode ==
  \A j \in OnServer : \/ Server \in strayed
                      \/ pcstat[Server] = "BUSY" /\ nodesstat[Server] = j

\* A cancellation may be long on its way, and the node does not look at the id
\* in it.  It hits the thread of another job only if its own has been answered
\* by then, or is job 0, never sent here: until the pop thread has started,
\* nodesstat holds the zeros of its definition, and a cancellation of job 0 goes
\* to every node.  A node freed at work can have two jobs, and then it may.
CancelAim ==
  [][(thread'.cancelled /\ ~thread.cancelled /\ cancelId # piece) =>
        \/ cancelId \in Answered \/ Server \in strayed
        \/ cancelId = 0 /\ 0 \notin sent]_thread

\* A job that the head reports FINISHED is neither on its way to the node nor in
\* a thread of it; only the command that the thread has forked may still run.
\* The jobs have one piece, so one count too many is what a buffer that was never
\* filled can say, and nothing else.
FinishedIsOver ==
  \A j \in OnServer \ recounted : jobq[j].stat # "FINISHED"
=============================================================================
