--------------------------- MODULE ComputeNodeProofs ---------------------------
(***************************************************************************)
(* Proofs about the daemon on a compute node, for every set of pieces and  *)
(* handles: it serves the pieces that were sent to it once each, runs the  *)
(* command of the piece it is serving, and cancels the thread it waits     *)
(* for.                                                                    *)
(***************************************************************************)
EXTENDS MCComputeNode, TLAPS

\* Between the receive of a piece and its answer.
Busy == jobPc \in {"create", "store", "join", "answer"}

\* A piece is taken once, from what was sent.
TakenInv ==
  /\ \A n \in 1 .. Len(taken) : taken[n] \in sent \ wire
  /\ \A m, n \in 1 .. Len(taken) : taken[m] = taken[n] => m = n

\* What was taken is answered in that order, and only the last piece is open;
\* recv_buffer holds it until then.
OrderInv ==
  /\ IF Busy THEN Len(taken) = Len(answered) + 1 ELSE Len(taken) = Len(answered)
  /\ \A n \in 1 .. Len(answered) : answered[n] = taken[n]
  /\ Busy => piece = taken[Len(taken)] /\ buffer = piece

\* The cancel loop knows the thread that the job loop waits for.
HandleInv == jobPc = "join" => thread.handle = jobThreadId

Inv == TypeOK /\ TakenInv /\ OrderInv /\ HandleInv

-----------------------------------------------------------------------------
(* The thread.                                                             *)

LEMMA NoThreadType == NoThread \notin Threads /\ NoThread.pc = "none"
BY DEF NoThread, Threads

\* What any step of the job thread does.
LEMMA JobThreadStep ==
  ASSUME TypeOK, JobThread
  PROVE  /\ UNCHANGED <<wireVars, jobVars, jobThreadId, cancelVars>>
         /\ daemon' \in {"up", "badConfig", "portInUse", "badCancel", "sendFailed"}
         /\ thread \in Threads /\ thread' \in Threads /\ thread'.handle = thread.handle
         /\ thread' # NoThread
         /\ \/ UNCHANGED children
            \/ children' = children \cup {[piece |-> buffer, holds |-> cancelPc = "bound"]}
<1>1. thread.pc # "none"
  BY DEF JobThread, ExecStart, ExecMsgInit, ExecSleep, ExecFork, ExecPrint, ExecCancelled, ExecAt
<1>2. thread \in Threads
  BY <1>1, NoThreadType DEF TypeOK
<1>3. \A pc \in {"msgInit", "sleep", "fork", "print", "done"} :
        ExecGo(pc) => /\ UNCHANGED <<wireVars, jobVars, jobThreadId, cancelVars>>
                      /\ thread' \in Threads /\ thread'.handle = thread.handle
  BY <1>2 DEF ExecGo, Threads
<1>4. \E pc \in {"msgInit", "sleep", "fork", "print", "done"} : ExecGo(pc)
  BY DEF JobThread, ExecStart, ExecMsgInit, ExecSleep, ExecFork, ExecPrint, ExecCancelled
<1>5. daemon' \in {"up", "badConfig", "portInUse", "badCancel", "sendFailed"}
  BY DEF TypeOK, JobThread, ExecStart, ExecMsgInit, ExecSleep, ExecFork, ExecPrint, ExecCancelled
<1>6. UNCHANGED children
        \/ children' = children \cup {[piece |-> buffer, holds |-> cancelPc = "bound"]}
  BY DEF JobThread, ExecStart, ExecMsgInit, ExecSleep, ExecFork, ExecPrint, ExecCancelled
<1> QED BY <1>2, <1>3, <1>4, <1>5, <1>6, NoThreadType

\* Only a thread that is there takes steps, so that its piece is open.
LEMMA JobThreadBusy ==
  ASSUME Inv, JobThread
  PROVE  Busy /\ buffer = piece /\ piece \in Pieces /\ Len(answered) < Len(taken)
<1>1. thread # NoThread
  BY JobThreadStep, NoThreadType DEF Inv
<1>2. Busy
  BY <1>1 DEF Inv, TypeOK, Busy
<1>3. Len(answered) \in Nat /\ Len(taken) = Len(answered) + 1 /\ taken \in Seq(Pieces)
  BY <1>2 DEF Inv, TypeOK, OrderInv
<1>4. taken[Len(taken)] \in Pieces
  BY <1>3
<1> QED BY <1>2, <1>3, <1>4 DEF Inv, OrderInv

LEMMA JobThreadInv == Inv /\ JobThread => Inv'
<1> SUFFICES ASSUME Inv, JobThread PROVE Inv'
  OBVIOUS
<1> USE JobThreadStep DEF Inv
<1>1. children' \subseteq [piece : Pieces, holds : BOOLEAN]
  <2>1. [piece |-> buffer, holds |-> cancelPc = "bound"] \in [piece : Pieces, holds : BOOLEAN]
    BY JobThreadBusy
  <2> QED BY <2>1 DEF TypeOK
<1>2. TypeOK'
  BY <1>1, NoThreadType DEF TypeOK, wireVars, jobVars, cancelVars
<1>3. TakenInv' /\ OrderInv' /\ HandleInv'
  BY DEF TakenInv, OrderInv, HandleInv, Busy, wireVars, jobVars
<1> QED BY <1>2, <1>3

-----------------------------------------------------------------------------
(* The loops, the commands and the network.                                *)

LEMMA InitInv == Init => Inv
<1> SUFFICES ASSUME Init PROVE Inv
  OBVIOUS
<1>1. TypeOK
  BY DEF Init, TypeOK
<1> QED BY <1>1 DEF Inv, Init, TakenInv, OrderInv, HandleInv, Busy

\* Receiving a piece that was not taken before.
LEMMA JobRecvInv ==
  ASSUME Inv, NEW p \in wire, JobRecv(p)
  PROVE  Inv'
<1>1. /\ taken' = Append(taken, p) /\ piece' = p /\ buffer' = p /\ wire' = wire \ {p}
      /\ jobPc = "bound" /\ jobPc' = "create"
      /\ UNCHANGED <<daemon, sent, cancelWire, answered, thread,
                     jobThreadId, children, cancelVars>>
  BY DEF JobRecv
<1>2. p \in Pieces /\ p \in sent /\ taken \in Seq(Pieces) /\ answered \in Seq(Pieces)
  BY DEF Inv, TypeOK
<1>3. /\ Len(taken') = Len(taken) + 1 /\ taken'[Len(taken) + 1] = p /\ taken' \in Seq(Pieces)
      /\ Len(taken) \in Nat /\ \A n \in 1 .. Len(taken) : taken'[n] = taken[n]
  BY <1>1, <1>2
<1>4. TypeOK'
  BY <1>1, <1>2, <1>3 DEF Inv, TypeOK, cancelVars
<1>5. TakenInv'
  BY <1>1, <1>2, <1>3 DEF Inv, TakenInv
<1>6. OrderInv'
  <2>1. Len(taken) = Len(answered) /\ \A n \in 1 .. Len(answered) : answered[n] = taken[n]
    BY <1>1 DEF Inv, OrderInv, Busy
  <2> QED BY <1>1, <1>3, <2>1 DEF OrderInv, Busy
<1> QED BY <1>1, <1>4, <1>5, <1>6 DEF Inv, HandleInv

LEMMA JobAnswerInv ==
  ASSUME Inv, JobAnswer
  PROVE  Inv' /\ answered' = Append(answered, piece)
         /\ piece \in sent /\ \A n \in 1 .. Len(answered) : answered[n] # piece
<1>1. /\ answered' = Append(answered, piece) /\ jobPc = "answer" /\ jobPc' = "report"
      /\ UNCHANGED <<daemon, wireVars, buffer, piece, taken, thread, jobThreadId,
                     children, cancelVars>>
  BY DEF JobAnswer
<1>2. taken \in Seq(Pieces) /\ answered \in Seq(Pieces) /\ Len(taken) = Len(answered) + 1
      /\ piece = taken[Len(taken)]
  BY <1>1 DEF Inv, TypeOK, OrderInv, Busy
<1>3. piece \in Pieces /\ piece \in sent
  BY <1>2 DEF Inv, TakenInv
<1>4. \A n \in 1 .. Len(answered) : answered[n] = taken[n] /\ answered[n] # piece
  BY <1>2 DEF Inv, OrderInv, TakenInv
<1>5. /\ answered' \in Seq(Pieces) /\ Len(answered') = Len(answered) + 1
      /\ answered'[Len(answered) + 1] = piece
      /\ \A n \in 1 .. Len(answered) : answered'[n] = answered[n]
  BY <1>1, <1>2, <1>3
<1>6. TypeOK'
  BY <1>1, <1>5 DEF Inv, TypeOK, wireVars, cancelVars
<1>7. OrderInv'
  BY <1>1, <1>2, <1>4, <1>5 DEF OrderInv, Busy
<1> QED BY <1>1, <1>3, <1>4, <1>6, <1>7 DEF Inv, TakenInv, HandleInv, wireVars

LEMMA JobLoopInv == Inv /\ JobLoop => Inv'
<1> SUFFICES ASSUME Inv, JobLoop PROVE Inv'
  OBVIOUS
<1> USE DEF Inv
<1>1. CASE JobBind \/ JobReport \/ JobSendFails
  BY <1>1 DEF JobBind, JobReport, JobSendFails, TypeOK, TakenInv, OrderInv, HandleInv, Busy,
             wireVars, jobVars, cancelVars
<1>2. CASE JobCreate
  <2>1. PICK h \in Handles : thread' = [handle |-> h, pc |-> "start", cancelled |-> FALSE]
    BY <1>2 DEF JobCreate
  <2>2. thread' \in Threads
    BY <2>1 DEF Threads
  <2> QED BY <1>2, <2>2, NoThreadType
          DEF JobCreate, TypeOK, TakenInv, OrderInv, HandleInv, Busy, wireVars, cancelVars
<1>3. CASE JobStore
  <2>1. thread.handle \in Handles
    BY <1>3 DEF JobStore, TypeOK, Threads
  <2> QED BY <1>3, <2>1
          DEF JobStore, TypeOK, TakenInv, OrderInv, HandleInv, Busy, wireVars, cancelVars
<1>4. CASE JobJoin
  BY <1>4 DEF JobJoin, TypeOK, TakenInv, OrderInv, HandleInv, Busy, wireVars, cancelVars
<1> QED BY <1>1, <1>2, <1>3, <1>4, JobRecvInv, JobAnswerInv DEF JobLoop

LEMMA CancelLoopInv == Inv /\ CancelLoop => Inv'
<1> SUFFICES ASSUME Inv, CancelLoop PROVE Inv'
  OBVIOUS
<1> USE DEF Inv, TypeOK, TakenInv, OrderInv, HandleInv, Busy, wireVars, jobVars
<1>1. CASE CancelBind
  BY <1>1 DEF CancelBind
<1>2. ASSUME NEW p \in cancelWire, CancelRecv(p) PROVE Inv'
  BY <1>2 DEF CancelRecv
<1>3. CASE Cancel
  <2>1. thread \in Threads => [thread EXCEPT !.cancelled = TRUE] \in Threads
                              /\ [thread EXCEPT !.cancelled = TRUE].handle = thread.handle
    BY DEF Threads
  <2> QED BY <1>3, <2>1, NoThreadType DEF Cancel
<1> QED BY <1>1, <1>2, <1>3 DEF CancelLoop

LEMMA OutsideInv ==
  Inv /\ (Network \/ (\E c \in children : ChildEnd(c)) \/ UNCHANGED vars) => Inv'
<1> SUFFICES ASSUME Inv, Network \/ (\E c \in children : ChildEnd(c)) \/ UNCHANGED vars
             PROVE  Inv'
  OBVIOUS
<1> USE DEF Inv, TypeOK, TakenInv, OrderInv, HandleInv, Busy, wireVars, jobVars, cancelVars
<1>1. ASSUME NEW p \in Pieces, Submit(p) PROVE Inv'
  BY <1>1 DEF Submit
<1>2. ASSUME NEW p \in Pieces, CancelSubmit(p) PROVE Inv'
  BY <1>2 DEF CancelSubmit
<1>3. ASSUME NEW p \in wire \cup cancelWire, Lose(p) PROVE Inv'
  BY <1>3 DEF Lose
<1>4. ASSUME NEW c \in children, ChildEnd(c) PROVE Inv'
  BY <1>4 DEF ChildEnd
<1>5. CASE UNCHANGED vars
  BY <1>5 DEF vars
<1> QED BY <1>1, <1>2, <1>3, <1>4, <1>5 DEF Network

LEMMA NextInv == Inv /\ [Next]_vars => Inv'
BY JobLoopInv, JobThreadInv, CancelLoopInv, OutsideInv DEF Next

LEMMA InvHolds == Spec => []Inv
BY InitInv, NextInv, PTL DEF Spec

-----------------------------------------------------------------------------
(* What a reader should know.                                              *)

\* The variables of the daemon keep their types; with them, there is a job
\* thread exactly while the job loop is to store its handle or to join it.
THEOREM TypeCorrect == Spec => []TypeOK
<1>1. Inv => TypeOK
  BY DEF Inv
<1> QED BY <1>1, InvHolds, PTL

\* A thread forks the command of the piece that the loop took last, and does so
\* before the result of that piece, whenever it gets to read recv_buffer.
THEOREM RunsCorrect == Spec => RunsServedPiece
<1>1. Inv /\ [Next]_vars =>
        [\A c \in children' \ children : c.piece = piece /\ Len(answered) < Len(taken)]_children
  <2> SUFFICES ASSUME Inv, [Next]_vars, NEW c \in children' \ children
               PROVE  c.piece = piece /\ Len(answered) < Len(taken)
    OBVIOUS
  <2>1. JobThread
    BY DEF Next, vars, JobLoop, JobBind, JobRecv, JobCreate, JobStore, JobJoin, JobAnswer,
           JobReport, JobSendFails, CancelLoop, CancelBind, CancelRecv, Cancel, Network, Submit,
           CancelSubmit, Lose, ChildEnd
  <2>2. c = [piece |-> buffer, holds |-> cancelPc = "bound"]
    BY <2>1, JobThreadStep DEF Inv
  <2> QED BY <2>1, <2>2, JobThreadBusy
<1> QED BY <1>1, InvHolds, PTL DEF Spec, RunsServedPiece

\* A cancel request that is carried out while the job loop is in pthread_join
\* reaches the joined thread, and never hits a handle that is dead.
THEOREM CancelCorrect == Spec => CancelReachesJoined
<1>1. Inv /\ [Next]_vars =>
        [(cancelPc = "cancel" /\ jobPc = "join") => thread'.cancelled /\ daemon' = "up"]_cancelPc
  <2> SUFFICES ASSUME Inv, [Next]_vars, cancelPc' # cancelPc, cancelPc = "cancel", jobPc = "join"
               PROVE  thread'.cancelled /\ daemon' = "up"
    OBVIOUS
  <2>1. ~JobThread
    BY JobThreadStep DEF cancelVars, Inv
  <2>2. Cancel
    BY <2>1 DEF Next, vars, JobLoop, JobBind, JobRecv, JobCreate, JobStore, JobJoin, JobAnswer,
                JobReport, JobSendFails, CancelLoop, CancelBind, CancelRecv, Network, Submit,
                CancelSubmit, Lose, ChildEnd, cancelVars
  <2>3. thread \in Threads /\ thread # NoThread /\ thread.handle = jobThreadId
    BY DEF Inv, TypeOK, HandleInv
  <2> QED BY <2>2, <2>3 DEF Cancel, Up, Threads
<1> QED BY <1>1, InvHolds, PTL DEF Spec, CancelReachesJoined

\* The node implements the server that the head's scheduler counts on.
THEOREM ServesCorrect == Spec => ServesPieces
<1>1. Init => Server!Init
  BY DEF Init, Server!Init
<1>2. Inv /\ [Next]_vars => [Server!Next]_(Server!vars)
  <2> SUFFICES ASSUME Inv, [Next]_vars PROVE Server!Next \/ UNCHANGED <<sent, answered>>
    BY DEF Server!vars
  <2>1. ASSUME NEW p \in Pieces, Submit(p) PROVE Server!Send(p)
    BY <2>1 DEF Submit, Server!Send, jobVars
  <2>2. CASE JobAnswer
    <3>1. Server!Answer(piece)
      BY <2>2, JobAnswerInv DEF Server!Answer, JobAnswer, wireVars
    <3> QED BY <2>2, <3>1, JobAnswerInv DEF Server!Next, Inv, TypeOK
  <2>3. CASE JobThread
    BY <2>3, JobThreadStep DEF Inv, wireVars, jobVars
  <2> QED BY <2>1, <2>2, <2>3
          DEF Next, vars, JobLoop, JobBind, JobRecv, JobCreate, JobStore, JobJoin, JobReport,
              JobSendFails, CancelLoop, CancelBind, CancelRecv, Cancel, Network, CancelSubmit, Lose,
              ChildEnd, wireVars, jobVars, Server!Next
<1> QED BY <1>1, <1>2, InvHolds, PTL DEF Spec, ServesPieces, Server!Spec
=============================================================================
