---------------------------- MODULE ClusterProofs ----------------------------
(***************************************************************************)
(* Proofs about the head's scheduler together with one of its nodes in     *)
(* full, for every number of slots, hosts and handles: both are what they  *)
(* are by themselves, so that what is proved of each of them holds of the  *)
(* two together, and the head's tables are true to what the node does.     *)
(***************************************************************************)
EXTENDS Cluster, JobSchedulerProofs

\* The node with what is proved of it.
NodeP == INSTANCE ComputeNodeProofs WITH
           Pieces <- Slots, NoPiece <- -1, SleepPieces <- {},
           LocalId <- Server, HostCounts <- {NumHosts}

\* What the proofs about the node ask of its constants.
LEMMA NodeAssumptions ==
  /\ {} \subseteq Slots /\ -1 \notin Slots
  /\ Handles # {} /\ NoHandle \notin Handles
  /\ Server \in Nat /\ {NumHosts} \subseteq Nat
BY ServerAssumption, NumHostsAssumption, QSizeAssumption, HandlesAssumption DEF Slots, Hosts

\* Both instances say the same of the same variables.
LEMMA NodeSame ==
  /\ Node!Init <=> NodeP!Init
  /\ Node!vars = NodeP!vars /\ Node!vars' = NodeP!vars'
  /\ Node!Next <=> NodeP!Next
BY DEF Node!Init, NodeP!Init, Node!NoThread, NodeP!NoThread,
       Node!vars, NodeP!vars, Node!wireVars, NodeP!wireVars, Node!jobVars, NodeP!jobVars,
       Node!cancelVars, NodeP!cancelVars, Node!Up, NodeP!Up, Node!Next, NodeP!Next,
       Node!JobLoop, NodeP!JobLoop, Node!JobBind, NodeP!JobBind, Node!JobRecv, NodeP!JobRecv,
       Node!JobCreate, NodeP!JobCreate, Node!JobStore, NodeP!JobStore,
       Node!JobJoin, NodeP!JobJoin, Node!JobAnswer, NodeP!JobAnswer,
       Node!JobReport, NodeP!JobReport, Node!JobSendFails, NodeP!JobSendFails,
       Node!JobThread, NodeP!JobThread, Node!ExecStart, NodeP!ExecStart,
       Node!ExecMsgInit, NodeP!ExecMsgInit, Node!ExecSleep, NodeP!ExecSleep,
       Node!ExecFork, NodeP!ExecFork, Node!ExecPrint, NodeP!ExecPrint,
       Node!ExecCancelled, NodeP!ExecCancelled, Node!ExecAt, NodeP!ExecAt,
       Node!ExecGo, NodeP!ExecGo,
       Node!CancelLoop, NodeP!CancelLoop, Node!CancelBind, NodeP!CancelBind,
       Node!CancelRecv, NodeP!CancelRecv, Node!Cancel, NodeP!Cancel,
       Node!Network, NodeP!Network, Node!Submit, NodeP!Submit,
       Node!CancelSubmit, NodeP!CancelSubmit, Node!Lose, NodeP!Lose,
       Node!ChildEnd, NodeP!ChildEnd

NodeInv == NodeP!Inv

LEMMA NodeStart == Node!Init => NodeInv
BY NodeP!InitInv, NodeAssumptions, NodeSame DEF NodeInv

LEMMA NodeStep == NodeInv /\ [Node!Next]_(Node!vars) => NodeInv'
BY NodeP!NextInv, NodeAssumptions, NodeSame DEF NodeInv

-----------------------------------------------------------------------------
(* What the steps of the two together are to each of them.                 *)

\* The ids of clients are slots, so that a scan never asks for a cancellation
\* of -1, which every idle node would be sent.
ReqInv == monPc = "scan" => monReq \in CancelIds

LEMMA ReqStep == ReqInv /\ [Next]_vars => ReqInv'
<1> SUFFICES ASSUME ReqInv, [Next]_vars PROVE ReqInv'
  OBVIOUS
<1> USE DEF ReqInv
<1>1. CASE Submit
  BY <1>1 DEF Submit, SubmitCheck, SubmitUnlockAgain, SubmitLock, PushComm, PushNodes, PushHead
<1>2. CASE Cancel
  BY <1>2 DEF Cancel, CancelLock, CancelScan, CancelSendFails, CancelUnlock
<1>3. CASE Query
  BY <1>3 DEF Query, QueryLock, QueryRead, QueryUnlock
<1>4. CASE Pop
  BY <1>4 DEF Pop, PopInit, PopLock, PopTakeComm, PopTakeNodes, PopTakeTail, PopCount,
              PopDecide, PopClaim, PopSkip, PopNoNode, PopSend, PopSendFails, PopLaunched, monVars
<1>5. CASE Result
  BY <1>5 DEF Result, Empty, ResultRecv, ResultEmpty, BookResult, Book, ResultLoad, ResultStore, ResultTest, ResultLock,
              ResultFinish, monVars
<1>6. CASE UNCHANGED vars
  BY <1>6 DEF vars, monVars
<1> QED BY <1>1, <1>2, <1>3, <1>4, <1>5, <1>6 DEF Next, Monitor

LEMMA HeadSteps == HeadUp /\ HeadNext => Next
BY DEF HeadUp, HeadNext, HeadAlone, LaunchPiece, SendCancel, ReceiveResult, Next, Monitor,
       Cancel, Pop, Result

LEMMA HeadKept == [ClusterNext]_<<vars, serverVars>> => [Next]_vars
BY HeadSteps DEF ClusterNext

\* The head sends the node what the node counts on: a piece once, and the
\* cancellation of a slot.
LEMMA NodeKept ==
  TypeInv /\ ReqInv /\ [ClusterNext]_<<vars, serverVars>> => [Node!Next]_(Node!vars)
<1> SUFFICES ASSUME TypeInv, ReqInv, ClusterNext \/ UNCHANGED serverVars
             PROVE  Node!Next \/ UNCHANGED Node!vars
  OBVIOUS
<1>1. UNCHANGED serverVars => UNCHANGED Node!vars
  BY DEF serverVars, Node!vars, Node!wireVars, Node!jobVars, Node!cancelVars
<1>2. CASE NodeAlone
  BY <1>2 DEF NodeAlone, Node!Next, Node!Network
<1>3. ASSUME Node!Submit(popJob.id) PROVE Node!Next
  <2>1. popJob.id \in Slots
    BY ResultTypes
  <2> QED BY <1>3, <2>1 DEF Node!Next, Node!Network
<1>4. ASSUME SendCancel, Node!CancelSubmit(monReq) PROVE Node!Next
  <2>1. monReq \in Slots
    BY <1>4, CancelAssumption DEF SendCancel, CancelScan, ReqInv
  <2> QED BY <1>4, <2>1 DEF Node!Next, Node!Network
<1> QED BY <1>1, <1>2, <1>3, <1>4
        DEF ClusterNext, HeadNext, LaunchPiece, SendCancel, ReceiveResult

-----------------------------------------------------------------------------
(* The pieces and the node.                                                *)

\* What was sent to the node and is not answered is a piece that the head still
\* counts.
LinkInv == \A j \in sent \ Answered : \E p \in pieces : p.node = Server /\ p.id = j

LEMMA AnsweredType == NodeInv => answered \in Seq(Slots) /\ taken \in Seq(Slots)
BY DEF NodeInv, NodeP!Inv, NodeP!TypeOK

\* All that the node has to do with is sent and not yet answered.
LEMMA OnServerSent == NodeInv => OnServer \subseteq sent \ Answered
<1> SUFFICES ASSUME NodeInv, NEW j \in OnServer PROVE j \in sent /\ j \notin Answered
  OBVIOUS
<1>1. /\ answered \in Seq(Slots) /\ taken \in Seq(Slots) /\ wire \subseteq sent
      /\ \A n \in 1 .. Len(taken) : taken[n] \in sent \ wire
      /\ \A m, n \in 1 .. Len(taken) : taken[m] = taken[n] => m = n
      /\ \A n \in 1 .. Len(answered) : answered[n] = taken[n]
      /\ Len(answered) \in Nat /\ Len(taken) \in Nat
      /\ Len(taken) = Len(answered) + 1 \/ Len(taken) = Len(answered)
  BY DEF NodeInv, NodeP!Inv, NodeP!TypeOK, NodeP!TakenInv, NodeP!OrderInv
<1>2. \A x \in Answered : \E n \in 1 .. Len(answered) : x = taken[n]
  BY <1>1 DEF Answered
<1>3. CASE j \in wire
  BY <1>1, <1>2, <1>3
<1>4. CASE j \in {taken[n] : n \in DOMAIN taken} \ Answered
  BY <1>1, <1>4
<1>5. CASE thread.pc # "none" /\ j = piece
  <2>1. thread # NodeP!NoThread
    BY <1>5 DEF NodeP!NoThread
  <2>2. Len(taken) = Len(answered) + 1 /\ piece = taken[Len(taken)]
    BY <2>1 DEF NodeInv, NodeP!Inv, NodeP!TypeOK, NodeP!OrderInv, NodeP!Busy
  <2> QED BY <1>1, <1>2, <1>5, <2>2
<1> QED BY <1>3, <1>4, <1>5 DEF OnServer

\* Apart from the joint steps the head leaves the pieces alone, and a claimed
\* node is claimed until its piece is sent.
LEMMA AloneStep ==
  ASSUME HeadAlone
  PROVE  /\ pieces' = pieces
         /\ Claiming => Claiming' /\ k' = k /\ popJob' = popJob
         /\ \/ nodesstat' = nodesstat /\ (popPc = "init" => popPc' = "init")
            \/ nodesstat' = [n \in Hosts |-> -1]
            \/ /\ nodesstat' = [nodesstat EXCEPT ![k] = popJob.id]
               /\ popPc = "place" /\ popPc' = "send" /\ k' = k /\ popJob' = popJob
<1> USE DEF Claiming
<1>1. CASE Submit
  BY <1>1 DEF Submit, SubmitCheck, SubmitUnlockAgain, SubmitLock, PushComm, PushNodes, PushHead,
              nodeVars, popVars
<1>2. CASE Query \/ (\E j \in CancelIds : CancelLock(j)) \/ CancelUnlock \/ CancelSendFails
  BY <1>2 DEF CancelLock, CancelUnlock, CancelSendFails, Query, QueryLock, QueryRead, QueryUnlock,
              nodeVars, popVars
<1>3. CASE PopInit \/ PopClaim
  BY <1>3 DEF PopInit, PopClaim
<1>4. CASE \/ PopLock \/ PopTakeComm \/ PopTakeNodes \/ PopTakeTail \/ PopCount
           \/ PopDecide \/ PopSkip \/ PopNoNode \/ PopLaunched \/ PopSendFails
  BY <1>4 DEF PopLock, PopTakeComm, PopTakeNodes, PopTakeTail, PopCount, PopDecide, PopSkip,
              PopNoNode, PopLaunched, PopSendFails, NextPiece, nodeVars
<1>5. CASE Book
  BY <1>5 DEF Book, ResultLoad, ResultStore, ResultTest, ResultLock, ResultFinish,
              nodeVars, popVars
<1> QED BY <1>1, <1>2, <1>3, <1>4, <1>5 DEF HeadAlone

\* The node by itself sends itself nothing; what it has answered stays answered.
LEMMA AloneNodeStep ==
  ASSUME NodeInv, NodeAlone
  PROVE  /\ sent' = sent /\ cancelWire' \subseteq cancelWire /\ Answered \subseteq Answered'
         /\ cancelPc' = "cancel" =>
              cancelId' \in cancelWire \/ (cancelPc = "cancel" /\ cancelId' = cancelId)
<1>1. CASE Node!JobLoop
  <2>1. /\ UNCHANGED <<sent, cancelWire, cancelPc, cancelId>>
        /\ answered' = answered \/ answered' = Append(answered, piece)
    BY <1>1 DEF Node!JobLoop, Node!JobBind, Node!JobRecv, Node!JobCreate, Node!JobStore,
                Node!JobJoin, Node!JobAnswer, Node!JobReport, Node!JobSendFails,
                Node!wireVars, Node!jobVars,
                Node!cancelVars
  <2>2. \A n \in 1 .. Len(answered) :
          n \in 1 .. Len(answered') /\ answered'[n] = answered[n]
    BY <2>1, AnsweredType
  <2>3. DOMAIN answered = 1 .. Len(answered)
    BY AnsweredType
  <2>4. DOMAIN answered' = 1 .. Len(answered')
    BY <2>1, AnsweredType
  <2> QED BY <2>1, <2>2, <2>3, <2>4 DEF Answered
<1>2. CASE Node!JobThread
  BY <1>2 DEF Node!JobThread, Node!ExecStart, Node!ExecMsgInit, Node!ExecSleep, Node!ExecFork,
              Node!ExecPrint, Node!ExecCancelled, Node!ExecGo, Node!wireVars, Node!jobVars,
              Node!cancelVars, Answered
<1>3. CASE Node!CancelLoop
  BY <1>3 DEF Node!CancelLoop, Node!CancelBind, Node!CancelRecv, Node!Cancel, Node!wireVars,
              Node!jobVars, Answered
<1>4. ASSUME NEW p \in wire \cup cancelWire, Node!Lose(p)
      PROVE  UNCHANGED <<sent, answered, cancelPc, cancelId>> /\ cancelWire' \subseteq cancelWire
  BY <1>4 DEF Node!Lose, Node!jobVars, Node!cancelVars
<1>5. ASSUME NEW c \in children, Node!ChildEnd(c)
      PROVE  UNCHANGED <<sent, answered, cancelWire, cancelPc, cancelId>>
  BY <1>5 DEF Node!ChildEnd, Node!wireVars, Node!jobVars, Node!cancelVars
<1> QED BY <1>1, <1>2, <1>3, <1>4, <1>5 DEF NodeAlone, Answered

\* A step of the head sends the node at most one piece and one cancellation.
LEMMA JointStep ==
  ASSUME HeadNext
  PROVE  /\ UNCHANGED <<answered, cancelPc, cancelId>> /\ Answered' = Answered
         /\ \/ HeadAlone /\ UNCHANGED <<sent, cancelWire>>
            \/ /\ PopSend /\ cancelWire' = cancelWire
               /\ sent' = IF k = Server THEN sent \cup {popJob.id} ELSE sent
            \/ /\ CancelScan /\ sent' = sent
               /\ cancelWire' = cancelWire \/
                  (nodesstat[Server] = monReq /\ cancelWire' = cancelWire \cup {monReq})
            \/ /\ UNCHANGED <<sent, cancelWire>>
               /\ \/ \E p \in pieces : ResultRecv(p) /\ (p.node = Server => p.id \in Answered)
                  \/ Empty
<1>1. UNCHANGED serverVars => UNCHANGED <<answered, cancelPc, cancelId, sent, cancelWire>>
  BY DEF serverVars
<1>2. CASE LaunchPiece
  BY <1>1, <1>2 DEF LaunchPiece, Node!Submit, Node!jobVars, Node!cancelVars, Answered
<1>3. CASE SendCancel
  BY <1>1, <1>3 DEF SendCancel, Node!CancelSubmit, Node!jobVars, Node!cancelVars, Answered, HoldsJob
<1> QED BY <1>1, <1>2, <1>3 DEF HeadNext, ReceiveResult, Answered

LEMMA LinkStep ==
  NodeInv /\ LinkInv /\ [ClusterNext]_<<vars, serverVars>> => LinkInv'
<1> SUFFICES ASSUME NodeInv, LinkInv, [ClusterNext]_<<vars, serverVars>>,
                    NEW j \in (sent \ Answered)'
             PROVE  \E p \in pieces' : p.node = Server /\ p.id = j
  BY DEF LinkInv
<1>1. CASE NodeAlone /\ UNCHANGED vars
  <2>1. j \in sent \ Answered
    BY <1>1, AloneNodeStep
  <2> QED BY <1>1, <2>1 DEF LinkInv, vars, nodeVars
<1>2. CASE HeadNext
  <2>1. j \in sent' /\ j \notin Answered
    BY <1>2, JointStep
  <2>2. CASE HeadAlone /\ sent' = sent
    BY <2>1, <2>2, AloneStep DEF LinkInv
  <2>3. CASE PopSend /\ sent' = IF k = Server THEN sent \cup {popJob.id} ELSE sent
    <3>1. pieces' = pieces \cup {Dispatch} /\ Dispatch.node = k /\ Dispatch.id = popJob.id
      BY <2>3 DEF PopSend, Dispatch
    <3> QED BY <2>1, <2>3, <3>1 DEF LinkInv
  <2>4. CASE CancelScan /\ sent' = sent
    BY <2>1, <2>4 DEF LinkInv, CancelScan, nodeVars
  <2>5. ASSUME NEW p \in pieces, ResultRecv(p), p.node = Server => p.id \in Answered, sent' = sent
        PROVE  \E q \in pieces' : q.node = Server /\ q.id = j
    <3>1. pieces' = pieces \ {p}
      BY <2>5 DEF ResultRecv
    <3> QED BY <2>1, <2>5, <3>1 DEF LinkInv
  <2>6. CASE Empty /\ sent' = sent
    BY <2>1, <2>6 DEF LinkInv, Empty, ResultEmpty
  <2> QED BY <1>2, <2>2, <2>3, <2>4, <2>5, <2>6, JointStep
<1>3. CASE UNCHANGED <<vars, serverVars>>
  BY <1>3 DEF LinkInv, vars, nodeVars, serverVars, Answered
<1> QED BY <1>1, <1>2, <1>3 DEF ClusterNext

-----------------------------------------------------------------------------
(* Whom a cancellation is for.                                             *)

\* The pop thread has claimed the node for the job and is about to send it.
Going(j) == Claiming /\ k = Server /\ popJob.id = j

\* nodesstat names a job that was sent to the node, or is about to be.
NameInv == \/ popPc = "init" /\ nodesstat[Server] = 0
           \/ nodesstat[Server] \in sent \cup {-1}
           \/ Going(nodesstat[Server])

Aimed == cancelWire \cup (IF cancelPc = "cancel" THEN {cancelId} ELSE {})

\* So does a cancellation on its way or about to be carried out, but for those
\* of job 0 from before the pop thread has started.
AimInv == \A c \in Aimed : c \in sent \cup {0} \/ Going(c)

LEMMA AimStep ==
  TypeInv /\ ReqInv /\ NodeInv /\ NameInv /\ AimInv /\ [ClusterNext]_<<vars, serverVars>>
    => NameInv' /\ AimInv'
<1> SUFFICES ASSUME TypeInv, ReqInv, NodeInv, NameInv, AimInv,
                    [ClusterNext]_<<vars, serverVars>>
             PROVE  NameInv' /\ AimInv'
  OBVIOUS
<1>0. nodesstat \in [Hosts -> JobIds] /\ Server \in Hosts
  BY ServerAssumption DEF TypeInv, TypeOK
<1>1. CASE NodeAlone /\ UNCHANGED vars
  <2>1. Aimed' \subseteq Aimed /\ sent' = sent /\ UNCHANGED <<popPc, k, popJob, nodesstat>>
    BY <1>1, AloneNodeStep DEF Aimed, vars, popVars, nodeVars
  <2> QED BY <2>1 DEF NameInv, AimInv, Going, Claiming
<1>2. CASE HeadNext
  <2>1. UNCHANGED <<cancelPc, cancelId>>
    BY <1>2, JointStep
  <2>2. CASE HeadAlone /\ UNCHANGED <<sent, cancelWire>>
    <3>1. Aimed' = Aimed /\ \A j : Going(j) => Going(j)'
      BY <2>1, <2>2, AloneStep DEF Aimed, Going
    <3>2. AimInv'
      BY <2>2, <3>1 DEF AimInv
    <3>3. CASE nodesstat' = nodesstat /\ (popPc = "init" => popPc' = "init")
      <4>1. Going(nodesstat[Server]) => Claiming' /\ k' = Server /\ popJob'.id = nodesstat[Server]
        BY <2>2, AloneStep DEF Going
      <4> QED BY <2>2, <3>2, <3>3, <4>1 DEF NameInv, Going
    <3>4. CASE nodesstat' = [n \in Hosts |-> -1]
      <4>1. nodesstat'[Server] = -1
        BY <1>0, <3>4
      <4> QED BY <3>2, <4>1 DEF NameInv
    <3>5. CASE /\ nodesstat' = [nodesstat EXCEPT ![k] = popJob.id]
               /\ popPc = "place" /\ popPc' = "send" /\ k' = k /\ popJob' = popJob
      <4>1. nodesstat'[Server] = IF k = Server THEN popJob.id ELSE nodesstat[Server]
        BY <1>0, <3>5
      <4>2. k # Server => nodesstat[Server] \in sent \cup {-1}
        BY <3>5 DEF NameInv, Going, Claiming
      <4> QED BY <2>2, <3>2, <3>5, <4>1, <4>2 DEF NameInv, Going, Claiming
    <3> QED BY <2>2, <3>2, <3>3, <3>4, <3>5, AloneStep
  <2>3. CASE PopSend /\ cancelWire' = cancelWire
             /\ sent' = IF k = Server THEN sent \cup {popJob.id} ELSE sent
    <3>1. nodesstat' = nodesstat /\ popPc = "send" /\ Aimed' = Aimed
      BY <2>1, <2>3 DEF PopSend, Aimed
    <3>2. \A j : Going(j) => j \in sent'
      BY <2>3 DEF Going
    <3> QED BY <2>3, <3>1, <3>2 DEF NameInv, AimInv
  <2>4. CASE /\ CancelScan /\ sent' = sent
             /\ cancelWire' = cancelWire \/
                (nodesstat[Server] = monReq /\ cancelWire' = cancelWire \cup {monReq})
    <3>1. UNCHANGED <<nodesstat, popPc, k, popJob>> /\ monReq \in CancelIds
      BY <2>4 DEF CancelScan, nodeVars, popVars, ReqInv
    <3>2. monReq # -1
      BY <3>1, CancelAssumption, QSizeAssumption DEF Slots
    <3>3. nodesstat[Server] = monReq => monReq \in sent \cup {0} \/ Going(monReq)
      BY <3>2 DEF NameInv
    <3>4. \A c \in Aimed' : c \in Aimed \/ (c = monReq /\ nodesstat[Server] = monReq)
      BY <2>1, <2>4 DEF Aimed
    <3> QED BY <2>4, <3>1, <3>3, <3>4 DEF NameInv, AimInv, Going, Claiming
  <2>5. ASSUME NEW p \in pieces, ResultRecv(p), UNCHANGED <<sent, cancelWire>>
        PROVE  NameInv' /\ AimInv'
    BY <2>1, <2>5 DEF ResultRecv, BookResult, NameInv, AimInv, Aimed, Going, Claiming, popVars
  <2>6. CASE Empty /\ UNCHANGED <<sent, cancelWire>>
    BY <2>1, <2>6 DEF Empty, ResultEmpty, BookResult, NameInv, AimInv, Aimed, Going, Claiming,
                      popVars
  <2> QED BY <1>2, <2>2, <2>3, <2>4, <2>5, <2>6, JointStep
<1>3. CASE UNCHANGED <<vars, serverVars>>
  BY <1>3 DEF NameInv, AimInv, Aimed, Going, Claiming, vars, nodeVars, popVars, serverVars
<1> QED BY <1>1, <1>2, <1>3 DEF ClusterNext

LEMMA ThreadThere ==
  ASSUME NodeInv, thread # Node!NoThread
  PROVE  thread.pc # "none" /\ thread \in NodeP!Threads
BY DEF NodeInv, NodeP!Inv, NodeP!TypeOK, NodeP!Threads, Node!NoThread, NodeP!NoThread

\* Nothing but the cancel loop marks a thread cancelled.
LEMMA ThreadCancelled ==
  ASSUME NodeInv, [ClusterNext]_<<vars, serverVars>>,
         thread' # thread, thread'.cancelled, ~thread.cancelled
  PROVE  Node!Cancel /\ thread # Node!NoThread
<1>1. HeadNext => thread' = thread
  BY DEF HeadNext, LaunchPiece, SendCancel, ReceiveResult, Node!Submit, Node!CancelSubmit,
         serverVars
<1>2. NodeAlone
  BY <1>1 DEF ClusterNext, serverVars
<1>3. CASE Node!JobLoop
  BY <1>3 DEF Node!JobLoop, Node!JobBind, Node!JobRecv, Node!JobCreate, Node!JobStore,
              Node!JobJoin, Node!JobAnswer, Node!JobReport, Node!JobSendFails, Node!NoThread
<1>4. ASSUME NEW pc, Node!ExecGo(pc), thread.pc # "none" PROVE FALSE
  <2>1. thread \in NodeP!Threads
    BY <1>4, ThreadThere DEF Node!NoThread
  <2>2. thread'.cancelled = thread.cancelled
    BY <1>4, <2>1 DEF Node!ExecGo, NodeP!Threads
  <2> QED BY <2>2
<1>5. CASE Node!JobThread
  BY <1>4, <1>5 DEF Node!JobThread, Node!ExecStart, Node!ExecMsgInit, Node!ExecSleep,
                    Node!ExecFork, Node!ExecPrint, Node!ExecCancelled, Node!ExecAt
<1>6. CASE Node!CancelLoop
  BY <1>6 DEF Node!CancelLoop, Node!CancelBind, Node!CancelRecv, Node!Cancel
<1>7. CASE (\E p \in wire \cup cancelWire : Node!Lose(p)) \/ (\E c \in children : Node!ChildEnd(c))
  BY <1>7 DEF Node!Lose, Node!ChildEnd
<1> QED BY <1>2, <1>3, <1>5, <1>6, <1>7 DEF NodeAlone

-----------------------------------------------------------------------------
(* A piece is sent to the node once.                                       *)

\* A job of one piece or none, or one that the pop thread drops.
Small(nodes) == nodes <= 1 \/ nodes > NumHosts

OnceInv ==
  /\ \A s \in Slots : Small(jobq[s].nodes)
  /\ monPc \in {"unlockAgain", "lock", "pushComm", "pushNodes"} => Small(monReq)
  /\ Small(popJob.nodes)
  /\ popPc \in LaunchPc => popJob.nodes <= NumHosts
  /\ \A j \in sent : Taken(j)
  /\ popPc \in {"count", "place", "send"} => popJob.id \notin sent

\* Slots are not used again, so a job that was taken stays taken.
LEMMA TakenKept ==
  ASSUME TypeInv, ResultInv, [Next]_vars, NEW s \in Slots, Taken(s)
  PROVE  Taken(s)'
<1>0. jobq \in [Slots -> JobRecord] /\ head \in Slots /\ tail \in Slots
  BY ResultTypes
<1>1. CASE jobq' = jobq
  BY <1>1 DEF Taken
<1>2. CASE PushComm \/ PushNodes
  BY <1>0, <1>2 DEF PushComm, PushNodes, Taken, JobRecord
<1>3. CASE PushHead
  <2>1. submitted < QSize /\ head = submitted
    BY <1>3 DEF PushHead, ResultInv, StageInv, TypeInv, SlotsFilled
  <2>2. jobq[head].stat = "UNKNOWN"
    BY <1>0, <2>1 DEF ResultInv, StageInv, Slots
  <2> QED BY <1>0, <1>3, <2>2 DEF PushHead, Taken, JobRecord
<1>4. CASE PopTakeTail
  BY <1>0, <1>4 DEF PopTakeTail, Started, Taken, JobRecord
<1>5. CASE ResultFinish
  BY <1>0, <1>5, ResultTypes DEF ResultFinish, Taken, JobRecord
<1>6. CASE Submit
  BY <1>1, <1>2, <1>3, <1>6 DEF Submit, SubmitCheck, SubmitUnlockAgain, SubmitLock, queueVars
<1>7. CASE Cancel \/ Query
  BY <1>1, <1>7 DEF Cancel, CancelLock, CancelScan, CancelSendFails, CancelUnlock, Query, QueryLock, QueryRead,
                    QueryUnlock, queueVars
<1>8. CASE Pop
  BY <1>1, <1>4, <1>8 DEF Pop, PopInit, PopLock, PopTakeComm, PopTakeNodes, PopCount, PopDecide,
                          PopClaim, PopSkip, PopNoNode, PopSend, PopSendFails, PopLaunched, queueVars
<1>9. CASE Book \/ Empty \/ \E p \in pieces : ResultRecv(p)
  BY <1>1, <1>5, <1>9 DEF Book, ResultLoad, ResultStore, ResultTest, ResultLock, ResultRecv,
                          Empty, ResultEmpty, BookResult, queueVars
<1> QED BY <1>1, <1>6, <1>7, <1>8, <1>9 DEF Next, Monitor, Result, vars, queueVars

\* What jobs ask for.
LEMMA SmallKept ==
  ASSUME TypeInv, OnceInv, Submit
  PROVE  /\ \A s \in Slots : Small(jobq'[s].nodes)
         /\ monPc' \in {"unlockAgain", "lock", "pushComm", "pushNodes"} => Small(monReq')
<1>0. jobq \in [Slots -> JobRecord] /\ head \in Slots
  BY ResultTypes
<1>1. ASSUME NEW n \in Requests, SubmitCheck(n) PROVE Small(monReq') /\ jobq' = jobq
  BY <1>1, OnePieceAssumption DEF SubmitCheck, Small, queueVars
<1>2. CASE SubmitUnlockAgain \/ SubmitLock
  BY <1>2 DEF SubmitUnlockAgain, SubmitLock, OnceInv, queueVars
<1>3. CASE PushComm
  BY <1>0, <1>3 DEF PushComm, OnceInv, JobRecord
<1>4. CASE PushNodes
  <2>1. Small(monReq) /\ monPc' = "pushHead"
    BY <1>4 DEF PushNodes, OnceInv
  <2>2. \A s \in Slots : jobq'[s].nodes = monReq \/ jobq'[s].nodes = jobq[s].nodes
    BY <1>0, <1>4 DEF PushNodes, JobRecord
  <2> QED BY <2>1, <2>2 DEF OnceInv
<1>5. CASE PushHead
  BY <1>0, <1>5 DEF PushHead, OnceInv, JobRecord
<1> QED BY <1>1, <1>2, <1>3, <1>4, <1>5 DEF Submit, OnceInv

LEMMA OncePop ==
  ASSUME TypeInv, ResultInv, OnceInv, Pop
  PROVE  /\ \A s \in Slots : Small(jobq'[s].nodes)
         /\ Small(popJob'.nodes)
         /\ popPc' \in LaunchPc => popJob'.nodes <= NumHosts
         /\ popPc' \in {"count", "place", "send"} => popJob'.id \notin sent
         /\ PopSend => popPc' = "launched"
         /\ monPc' = monPc /\ monReq' = monReq
<1>0. /\ jobq \in [Slots -> JobRecord] /\ tail \in Slots
      /\ popJob \in TakenJob /\ i \in Nat \ {0} /\ NumHosts \in Nat
  BY ResultTypes, NumHostsAssumption DEF TypeInv, TypeOK
<1>1. CASE PopInit \/ PopLock
  BY <1>1 DEF PopInit, PopLock, OnceInv, LaunchPc, PopSend, queueVars, monVars
<1>2. CASE PopTakeComm
  BY <1>2 DEF PopTakeComm, OnceInv, Small, LaunchPc, PopSend, queueVars, monVars
<1>3. CASE PopTakeNodes
  <2>1. popJob'.nodes = jobq[tail].nodes /\ popPc' = "takeTail"
    BY <1>0, <1>3 DEF PopTakeNodes, TakenJob
  <2> QED BY <1>0, <1>3, <2>1 DEF PopTakeNodes, OnceInv, LaunchPc, PopSend, queueVars, monVars
<1>4. CASE PopTakeTail
  <2>1. popJob.id = tail /\ jobq[tail].stat = "INQUEUE"
    BY <1>4 DEF PopTakeTail, ResultInv, StageInv, Taking
  <2>2. tail \notin sent
    BY <2>1 DEF OnceInv, Taken
  <2>3. \A s \in Slots : jobq'[s].nodes = jobq[s].nodes
    BY <1>0, <1>4 DEF PopTakeTail, Started, JobRecord
  <2>4. UNCHANGED <<popJob, monPc, monReq>> /\ (popPc' \in LaunchPc => popJob.nodes <= NumHosts)
    BY <1>4 DEF PopTakeTail, LaunchPc, monVars
  <2> QED BY <1>4, <2>1, <2>2, <2>3, <2>4 DEF OnceInv, PopTakeTail, PopSend
<1>5. CASE PopCount \/ PopDecide
  BY <1>5 DEF PopCount, PopDecide, OnceInv, LaunchPc, PopSend, queueVars, monVars
<1>6. CASE PopClaim \/ PopSkip \/ PopNoNode
  BY <1>6 DEF PopClaim, PopSkip, PopNoNode, NextPiece, OnceInv, LaunchPc, PopSend, queueVars, monVars
<1>7. CASE PopSend
  <2>1. popJob.nodes \in Int /\ popJob.nodes <= 1
    BY <1>0, <1>7 DEF PopSend, OnceInv, Small, LaunchPc, TakenJob
  <2>2. popPc' = "launched"
    BY <1>0, <1>7, <2>1 DEF PopSend, NextPiece
  <2> QED BY <1>7, <2>2 DEF PopSend, OnceInv, LaunchPc, queueVars, monVars
<1>8. CASE PopLaunched
  BY <1>8 DEF PopLaunched, OnceInv, LaunchPc, PopSend, queueVars, monVars
<1>9. CASE PopSendFails
  BY <1>9 DEF PopSendFails, OnceInv, LaunchPc, PopSend, NextPiece, queueVars, monVars
<1> QED BY <1>1, <1>2, <1>3, <1>4, <1>5, <1>6, <1>7, <1>8, <1>9 DEF Pop

LEMMA OnceStep ==
  ASSUME TypeInv, ResultInv, NodeInv, OnceInv, [ClusterNext]_<<vars, serverVars>>
  PROVE  OnceInv'
<1>0. /\ [Next]_vars /\ sent \subseteq Slots /\ popJob.id \in Slots
      /\ jobq \in [Slots -> JobRecord] /\ resId \in Slots
  BY HeadKept, ResultTypes DEF NodeInv, NodeP!Inv, NodeP!TypeOK
<1>1. \A j \in sent : Taken(j)'
  BY <1>0, TakenKept DEF OnceInv
\* Without a dispatch to the node.
<1>2. ASSUME sent' = sent PROVE OnceInv'
  <2>1. ASSUME UNCHANGED <<popPc, popJob>>,
               \A s \in Slots : Small(jobq'[s].nodes),
               monPc' \in {"unlockAgain", "lock", "pushComm", "pushNodes"} => Small(monReq')
        PROVE  OnceInv'
    BY <1>1, <1>2, <2>1 DEF OnceInv
  <2>2. CASE Submit
    <3>1. UNCHANGED popVars
      BY <2>2 DEF Submit, SubmitCheck, SubmitUnlockAgain, SubmitLock, PushComm, PushNodes, PushHead
    <3> QED BY <2>1, <2>2, <3>1, SmallKept DEF popVars
  <2>3. CASE Cancel \/ Query
    <3>1. UNCHANGED <<popVars, queueVars>> /\ monPc' \in {"idle", "scan", "query", "exited"}
      BY <2>3 DEF Cancel, CancelLock, CancelScan, CancelSendFails, CancelUnlock, Query, QueryLock, QueryRead,
                  QueryUnlock
    <3> QED BY <2>1, <3>1 DEF OnceInv, popVars, queueVars
  <2>4. CASE Pop
    BY <1>1, <1>2, <2>4, OncePop DEF OnceInv
  <2>5. CASE Book \/ Empty \/ \E p \in pieces : ResultRecv(p)
    <3>1. UNCHANGED <<popVars, monVars>>
      BY <2>5 DEF Book, ResultLoad, ResultStore, ResultTest, ResultLock, ResultFinish, ResultRecv,
                  Empty, ResultEmpty, BookResult
    <3>2. \A s \in Slots : jobq'[s].nodes = jobq[s].nodes
      <4>1. CASE ResultFinish
        BY <1>0, <4>1 DEF ResultFinish, JobRecord
      <4>2. CASE ~ResultFinish
        BY <2>5, <4>2 DEF Book, ResultLoad, ResultStore, ResultTest, ResultLock, ResultRecv,
                          Empty, ResultEmpty, BookResult, queueVars
      <4> QED BY <4>1, <4>2
    <3> QED BY <2>1, <3>1, <3>2 DEF OnceInv, popVars, monVars
  <2>6. CASE UNCHANGED vars
    BY <2>1, <2>6 DEF OnceInv, vars, popVars, monVars, queueVars
  <2> QED BY <1>0, <2>2, <2>3, <2>4, <2>5, <2>6 DEF Next, Monitor, Result
<1>3. ASSUME PopSend, sent' = sent \cup {popJob.id} PROVE OnceInv'
  <2>1. Taken(popJob.id)'
    <3>1. Taken(popJob.id)
      BY <1>3 DEF PopSend, ResultInv, OwnerInv, LaunchPc
    <3>2. PICK s \in Slots : s = popJob.id
      BY <1>0
    <3>3. Taken(s)'
      BY <1>0, <3>1, <3>2, TakenKept
    <3>4. popJob' = popJob
      BY <1>3 DEF PopSend
    <3> QED BY <3>2, <3>3, <3>4
  <2>2. \A j \in sent' : Taken(j)'
    <3>1. popJob' = popJob
      BY <1>3 DEF PopSend
    <3> QED BY <1>1, <1>3, <2>1, <3>1
  <2>3. Pop
    BY <1>3 DEF Pop
  <2> QED BY <1>3, <2>2, <2>3, OncePop DEF OnceInv
<1>4. CASE HeadNext
  BY <1>2, <1>3, <1>4, JointStep
<1>5. CASE NodeAlone \/ UNCHANGED serverVars
  BY <1>2, <1>5, AloneNodeStep DEF serverVars
<1> QED BY <1>4, <1>5 DEF ClusterNext

-----------------------------------------------------------------------------
Inv == /\ TypeInv /\ LedgerInv /\ ResultInv /\ NodeInv
       /\ ReqInv /\ LinkInv /\ NameInv /\ AimInv /\ OnceInv

LEMMA ClusterStart == ClusterInit => Inv
<1> SUFFICES ASSUME ClusterInit PROVE Inv
  OBVIOUS
<1>1. TypeInv /\ LedgerInv /\ ResultInv /\ NodeInv
  BY TypeInit, LedgerInit, ResultInit, NodeStart DEF ClusterInit
<1>2. /\ monPc = "idle" /\ popPc = "init" /\ nodesstat = [n \in Hosts |-> 0]
      /\ sent = {} /\ cancelWire = {} /\ cancelPc = "closed"
  BY DEF ClusterInit, Init, Node!Init
<1>3. OnceInv
  BY <1>2 DEF ClusterInit, Init, OnceInv, Small, LaunchPc
<1> QED BY <1>1, <1>2, <1>3, ServerAssumption DEF Inv, ReqInv, LinkInv, NameInv, AimInv, Aimed

LEMMA ClusterStep == Inv /\ [ClusterNext]_<<vars, serverVars>> => Inv'
<1> SUFFICES ASSUME Inv, [ClusterNext]_<<vars, serverVars>> PROVE Inv'
  OBVIOUS
<1>1. TypeInv' /\ LedgerInv' /\ ResultInv' /\ ReqInv'
  BY HeadKept, TypeStep, LedgerStep, ResultStep, ReqStep, IdsAssumption DEF Inv
<1>2. NodeInv'
  BY NodeKept, NodeStep DEF Inv
<1> QED BY <1>1, <1>2, LinkStep, AimStep, OnceStep DEF Inv

LEMMA ClusterInv == ClusterSpec => []Inv
BY ClusterStart, ClusterStep, PTL DEF ClusterSpec

-----------------------------------------------------------------------------
(* What a reader should know.                                              *)

\* Joined to a node in full, the head still takes only steps of the scheduler:
\* all that is proved of JobScheduler, where a node is no more than a set of
\* pieces that may be answered, holds of the two together.
THEOREM HeadImplemented == ClusterSpec => Spec
<1>1. ClusterInit => Init
  BY DEF ClusterInit
<1> QED BY <1>1, HeadKept, PTL DEF ClusterSpec, Spec

\* A piece that the pop thread is about to send to the node was not sent before:
\* what ComputeNode takes for granted never holds up the head.
NewPiece == popPc = "send" /\ k = Server => popJob.id \notin sent

\* That the model of the node takes each piece once takes no dispatch away from
\* the pop thread, because slots are not used again and no job has two pieces.
THEOREM NewPieceCorrect == ClusterSpec => []NewPiece
<1>1. Inv => NewPiece
  BY DEF Inv, OnceInv, NewPiece
<1> QED BY <1>1, ClusterInv, PTL

\* The node, too, takes only its own steps: the head sends it a piece at most
\* once, and cancels nothing but ids of jobs, as ComputeNode takes for granted.
THEOREM NodeImplemented == ClusterSpec => Node!Spec
<1>1. ClusterInit => Node!Init
  BY DEF ClusterInit
<1>2. Inv => TypeInv /\ ReqInv
  BY DEF Inv
<1> QED BY <1>1, <1>2, NodeKept, ClusterInv, PTL DEF ClusterSpec, Node!Spec

\* For a job that the node has before it, takes or runs, its entries in pcstat
\* and nodesstat, which the head keeps without a lock and changes a network apart
\* from it, say that it is BUSY with this very job, unless an empty receive has
\* freed the node at work.
THEOREM BooksCorrect == ClusterSpec => []BooksTrueToNode
<1>1. Inv => BooksTrueToNode
  <2> SUFFICES ASSUME Inv, NEW j \in OnServer, Server \notin strayed
               PROVE  pcstat[Server] = "BUSY" /\ nodesstat[Server] = j
    BY DEF BooksTrueToNode
  <2>1. j \in sent \ Answered
    BY OnServerSent DEF Inv
  <2>2. PICK p \in pieces : p.node = Server /\ p.id = j
    BY <2>1 DEF Inv, LinkInv
  <2> QED BY <2>2 DEF Inv, LedgerInv, NodeLedger
<1> QED BY <1>1, ClusterInv, PTL

\* The head reports no job FINISHED that is on its way to the node or in its
\* thread, although it books what three threads and the node do at their own
\* pace, and more than once what its buffer holds; a job that a buffer never
\* filled has named is excepted.
THEOREM FinishedCorrect == ClusterSpec => []FinishedIsOver
<1>1. Inv => FinishedIsOver
  <2> SUFFICES ASSUME Inv, NEW j \in OnServer \ recounted PROVE jobq[j].stat # "FINISHED"
    BY DEF FinishedIsOver
  <2>1. PICK p \in pieces : p.node = Server /\ p.id = j
    BY OnServerSent DEF Inv, LinkInv
  <2>2. FinishedAllReported /\ p.id \in Slots
    BY ResultGivesReported, ResultTypes DEF Inv
  <2> QED BY <2>1, <2>2 DEF FinishedAllReported
<1> QED BY <1>1, ClusterInv, PTL

\* A thread is cancelled by the request that names its job, whatever the order
\* in which datagrams, answers and threads come, except by one that is late, by
\* one for job 0 from before the pop thread has cleared nodesstat, and on a node
\* that an empty receive freed at work.
THEOREM AimCorrect == ClusterSpec => CancelAim
<1>1. ASSUME Inv, [ClusterNext]_<<vars, serverVars>>, thread' # thread,
             thread'.cancelled, ~thread.cancelled, cancelId # piece, Server \notin strayed
      PROVE  cancelId \in Answered \/ (cancelId = 0 /\ 0 \notin sent)
  <2>1. Node!Cancel /\ thread # Node!NoThread
    BY <1>1, ThreadCancelled DEF Inv
  <2>2. thread.pc # "none" /\ cancelPc = "cancel"
    BY <1>1, <2>1, ThreadThere DEF Inv, Node!Cancel
  <2>3. PICK p \in pieces : p.node = Server /\ p.id = piece
    <3>1. piece \in OnServer
      BY <2>2 DEF OnServer
    <3> QED BY <1>1, <3>1, OnServerSent DEF Inv, LinkInv
  <2>4. ~Going(cancelId)
    BY <1>1, <2>3 DEF Inv, LedgerInv, Claimed, Going
  <2>5. cancelId \in sent \cup {0}
    BY <1>1, <2>2, <2>4 DEF Inv, AimInv, Aimed
  <2>6. ASSUME cancelId \in sent, cancelId \notin Answered PROVE FALSE
    <3>1. PICK q \in pieces : q.node = Server /\ q.id = cancelId
      BY <1>1, <2>6 DEF Inv, LinkInv
    <3>2. p = q
      BY <1>1, <2>3, <3>1 DEF Inv, LedgerInv, NodeLedger
    <3> QED BY <1>1, <2>3, <3>1, <3>2
  <2> QED BY <2>5, <2>6
<1>2. Inv /\ [ClusterNext]_<<vars, serverVars>> =>
        [(thread'.cancelled /\ ~thread.cancelled /\ cancelId # piece) =>
           \/ cancelId \in Answered \/ Server \in strayed
           \/ cancelId = 0 /\ 0 \notin sent]_thread
  BY <1>1
<1> QED BY <1>2, ClusterInv, PTL DEF ClusterSpec, CancelAim
=============================================================================
