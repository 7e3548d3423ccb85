------------------------- MODULE JobSchedulerProofs -------------------------
(***************************************************************************)
(* Proofs about the job scheduler, for every queue size, number of hosts,  *)
(* set of requests and bound.                                              *)
(***************************************************************************)
EXTENDS MCJobScheduler, FiniteSetTheorems, TLAPS

Taking == popPc \in {"takeComm", "takeNodes", "takeTail"}

\* The circular successor without the modulus.
LEMMA NextSlotCases ==
  ASSUME NEW s \in Slots
  PROVE  /\ NextSlot(s) \in Slots
         /\ s + 1 < QSize => NextSlot(s) = s + 1
         /\ s + 1 >= QSize => NextSlot(s) = 0
BY QSizeAssumption, SMT DEF Slots, NextSlot

\* Changing the status of one slot keeps the queue's type and the other fields.
LEMMA SlotUpdate ==
  ASSUME jobq \in [Slots -> JobRecord], NEW s \in Slots
  PROVE  /\ \A v \in {"RUNNING", "FINISHED"} :
              LET q == [jobq EXCEPT ![s].stat = v]
              IN  q \in [Slots -> JobRecord] /\ \A t \in Slots : q[t].id = jobq[t].id
         /\ LET q == [jobq EXCEPT ![s].stat = "INQUEUE", ![s].id = s]
            IN  /\ q \in [Slots -> JobRecord] /\ q[s].id = s
                /\ \A t \in Slots : t # s => q[t].id = jobq[t].id
<1>1. ASSUME NEW v \in {"RUNNING", "FINISHED"} PROVE [jobq[s] EXCEPT !.stat = v] \in JobRecord
  BY DEF JobRecord, JobStats
<1>2. [jobq[s] EXCEPT !.stat = "INQUEUE", !.id = s] \in JobRecord
  BY DEF JobRecord, JobIds, JobStats
<1> QED BY <1>1, <1>2 DEF JobRecord

-----------------------------------------------------------------------------
(* Types.  That a job taken from the queue carries a slot number (and not   *)
(* the -1 of a slot never filled, with which jobnodes would be indexed)     *)
(* does not follow from the types: before the first wrap job_head counts    *)
(* the submissions and job_tail stays behind it.                            *)

SlotsFilled ==
  /\ \A s \in Slots : s < submitted => jobq[s].id = s
  /\ submitted < QSize => head = submitted /\ tail <= head
  /\ submitted < QSize /\ Taking => tail < head

\* A node is claimed, and nothing sent to it yet.
Claiming == popPc \in {"send", "exited"}

TypeInv == TypeOK /\ SlotsFilled /\ (Claiming => k \in Hosts)

LEMMA TypeInit == Init => TypeInv
BY QSizeAssumption, NumHostsAssumption
DEF Init, TypeInv, TypeOK, SlotsFilled, Taking, Claiming, Slots, Hosts, JobIds,
    JobRecord, TakenJob, Piece, JobStats, NoAnswer

\* One more job makes the next slot a filled one.
LEMMA PushFills ==
  ASSUME head \in Slots, tail \in Slots, submitted \in Nat, SlotsFilled,
         NEW q, q[head].id = head,
         \A s \in Slots : s # head => q[s].id = jobq[s].id
  PROVE  /\ \A s \in Slots : s < submitted + 1 => q[s].id = s
         /\ submitted + 1 < QSize => NextSlot(head) = submitted + 1 /\ tail < submitted + 1
         /\ NextSlot(head) \in Slots
<1>1. ASSUME NEW s \in Slots, s < submitted + 1 PROVE q[s].id = s
  <2>1. CASE s = head
    BY <2>1
  <2>2. CASE s # head
    <3>1. s < submitted
      BY <1>1, <2>2, QSizeAssumption DEF Slots, SlotsFilled
    <3> QED BY <2>2, <3>1 DEF SlotsFilled
  <2> QED BY <2>1, <2>2
<1>2. ASSUME submitted + 1 < QSize
      PROVE  NextSlot(head) = submitted + 1 /\ tail < submitted + 1
  <2>1. head = submitted /\ tail <= head
    BY <1>2, QSizeAssumption DEF SlotsFilled
  <2> QED BY <1>2, <2>1, NextSlotCases, QSizeAssumption DEF Slots
<1> QED BY <1>1, <1>2, NextSlotCases

\* Every step of the monitor thread keeps the types.
LEMMA TypeMonitor == TypeInv /\ Monitor => TypeInv'
<1> SUFFICES ASSUME TypeInv, Monitor PROVE TypeInv'
  OBVIOUS
<1> USE QSizeAssumption, NumHostsAssumption, RequestsAssumption
    DEF TypeInv, TypeOK, SlotsFilled, Taking, Claiming, Slots, Hosts, JobIds,
        queueVars, nodeVars, popVars, scanVars, resVars, pastVars
<1>1. CASE \E n \in Requests : SubmitCheck(n)
  BY <1>1 DEF SubmitCheck
<1>2. CASE SubmitUnlockAgain
  BY <1>2 DEF SubmitUnlockAgain, Release
<1>3. CASE SubmitLock
  BY <1>3 DEF SubmitLock, Acquire
<1>4. CASE PushComm
  <2>1. jobq' \in [Slots -> JobRecord] /\ \A s \in Slots : jobq'[s].id = jobq[s].id
    <3> DEFINE c == submitted + 1
               r == [jobq[head] EXCEPT !.comm = c]
    <3>1. jobq[head] \in JobRecord /\ c \in Nat
      OBVIOUS
    <3> HIDE DEF c
    <3>2. r \in JobRecord /\ r.id = jobq[head].id
      BY <3>1 DEF JobRecord
    <3>3. jobq' = [jobq EXCEPT ![head] = r]
      BY <1>4 DEF PushComm, c
    <3>4. jobq \in [Slots -> JobRecord] /\ head \in Slots
      OBVIOUS
    <3> HIDE DEF r, TypeInv, TypeOK, SlotsFilled, Slots
    <3> QED BY <3>2, <3>3, <3>4
  <2>2. UNCHANGED <<head, tail, submitted, popPc, k>>
    BY <1>4 DEF PushComm
  <2>3. SlotsFilled' /\ k' = k /\ popPc' = popPc
    BY <2>1, <2>2
  <2>4. TypeOK'
    <3> HIDE DEF Slots, Hosts, JobIds, SlotsFilled
    <3> QED BY <1>4, <2>1 DEF PushComm
  <2> HIDE DEF TypeOK, SlotsFilled, Hosts
  <2> QED BY <2>3, <2>4
<1>5. CASE PushNodes
  <2>1. jobq' \in [Slots -> JobRecord] /\ \A s \in Slots : jobq'[s].id = jobq[s].id
    <3> DEFINE r == [jobq[head] EXCEPT !.nodes = monReq]
    <3>1. jobq[head] \in JobRecord
      OBVIOUS
    <3>2. r \in JobRecord /\ r.id = jobq[head].id
      BY <3>1 DEF JobRecord
    <3>3. jobq' = [jobq EXCEPT ![head] = r]
      BY <1>5 DEF PushNodes
    <3>4. jobq \in [Slots -> JobRecord] /\ head \in Slots
      OBVIOUS
    <3> HIDE DEF r, TypeInv, TypeOK, SlotsFilled, Slots
    <3> QED BY <3>2, <3>3, <3>4
  <2>2. UNCHANGED <<head, tail, submitted, popPc, k>>
    BY <1>5 DEF PushNodes
  <2>3. SlotsFilled' /\ k' = k /\ popPc' = popPc
    BY <2>1, <2>2
  <2>4. TypeOK'
    <3> HIDE DEF Slots, Hosts, JobIds, SlotsFilled
    <3> QED BY <1>5, <2>1 DEF PushNodes
  <2> HIDE DEF TypeOK, SlotsFilled, Hosts
  <2> QED BY <2>3, <2>4
<1>6. CASE PushHead
  <2>1. /\ jobq' \in [Slots -> JobRecord] /\ jobq'[head].id = head
        /\ \A s \in Slots : s # head => jobq'[s].id = jobq[s].id
    BY <1>6, SlotUpdate DEF PushHead
  <2>2. /\ submitted' = submitted + 1 /\ head' = NextSlot(head) /\ lock' = "free"
        /\ monPc' = "idle" /\ UNCHANGED <<tail, popPc, k>>
    BY <1>6 DEF PushHead, Release
  <2>3. /\ \A s \in Slots : s < submitted + 1 => jobq'[s].id = s
        /\ submitted + 1 < QSize => head' = submitted + 1 /\ tail < head'
        /\ head' \in Slots
    <3> HIDE DEF TypeInv, TypeOK, SlotsFilled, Slots
    <3>1. head \in Slots /\ tail \in Slots /\ submitted \in Nat /\ SlotsFilled
      BY DEF TypeInv, TypeOK
    <3>2. head' = NextSlot(head)
      BY <2>2
    <3> QED BY <2>1, <3>1, <3>2, PushFills
  <2>4. SlotsFilled'
    <3>1. submitted' < QSize => head' = submitted' /\ tail' < head'
      BY <2>2, <2>3
    <3>2. tail' \in Int /\ head' \in Int
      BY <2>2, <2>3
    <3>3. \A s \in Slots : s < submitted' => jobq'[s].id = s
      BY <2>2, <2>3
    <3>4. submitted' < QSize => tail' <= head'
      BY <3>1, <3>2
    <3> HIDE DEF TypeInv, TypeOK, Slots
    <3> QED BY <3>1, <3>3, <3>4
  <2>5. TypeOK'
    <3> HIDE DEF Slots, Hosts, JobIds, SlotsFilled
    <3> QED BY <1>6, <2>1, <2>2, <2>3 DEF PushHead
  <2> QED BY <1>6, <2>2, <2>4, <2>5
<1>7. CASE \E j \in CancelIds : CancelLock(j)
  BY <1>7 DEF CancelLock, Acquire, PiecesOf
<1>8. CASE CancelScan
  BY <1>8 DEF CancelScan, HoldsJob
<1>9. CASE CancelUnlock
  BY <1>9 DEF CancelUnlock, Release
<1>10. CASE \E j \in QueryIds : QueryLock(j)
  BY <1>10 DEF QueryLock, Acquire
<1>11. CASE QueryRead
  <2>1. monK - 1 \in Slots /\ jobq[monK - 1].stat \in JobStats
    BY <1>11 DEF QueryRead, JobRecord
  <2> QED BY <1>11, <2>1 DEF QueryRead
<1>12. CASE QueryUnlock
  BY <1>12 DEF QueryUnlock, Release, NoAnswer, JobStats
<1>13. CASE CancelSendFails
  BY <1>13 DEF CancelSendFails
<1> QED BY <1>1, <1>2, <1>3, <1>4, <1>5, <1>6, <1>7, <1>8, <1>9, <1>10, <1>11,
           <1>12, <1>13 DEF Monitor, Submit, Cancel, Query

\* Every step of the pop thread keeps the types.
LEMMA TypePop == TypeInv /\ Pop => TypeInv'
<1> SUFFICES ASSUME TypeInv, Pop PROVE TypeInv'
  OBVIOUS
<1> USE QSizeAssumption, NumHostsAssumption
    DEF TypeInv, TypeOK, SlotsFilled, Taking, Claiming, Slots, Hosts, JobIds,
        queueVars, nodeVars, monVars, scanVars, resVars, pastVars
<1>1. CASE PopInit
  BY <1>1 DEF PopInit
<1>2. CASE PopLock
  BY <1>2 DEF PopLock, Acquire, QueueEmpty
<1>3. CASE PopTakeComm
  <2>1. jobq[tail] \in JobRecord /\ jobq[tail].id = tail
    BY <1>3 DEF PopTakeComm
  <2>2. popJob' \in TakenJob
    BY <1>3, <2>1 DEF PopTakeComm, JobRecord, TakenJob
  <2> QED BY <1>3, <2>2 DEF PopTakeComm
<1>4. CASE PopTakeNodes
  <2>1. jobq[tail].nodes \in Int
    BY DEF JobRecord
  <2>2. popJob' \in TakenJob
    BY <1>4, <2>1 DEF PopTakeNodes, TakenJob
  <2>3. /\ popPc = "takeNodes" /\ popPc' = "takeTail"
        /\ UNCHANGED <<jobq, head, tail, submitted, lock, pcstat, nodesstat, pieces, jobnodes, count, i, k>>
        /\ UNCHANGED <<monPc, monReq, monK, targets, answer, owed, resVars>>
    BY <1>4 DEF PopTakeNodes
  <2>4. TypeOK'
    BY <2>2, <2>3
  <2>5. SlotsFilled'
    BY <2>3
  <2> QED BY <2>3, <2>4, <2>5
<1>5. CASE PopTakeTail
  <2>1. /\ tail' = NextSlot(tail) /\ NextSlot(tail) \in 0 .. QSize - 1
        /\ tail + 1 < QSize => NextSlot(tail) = tail + 1
        /\ tail + 1 >= QSize => NextSlot(tail) = 0
    BY <1>5, NextSlotCases DEF PopTakeTail
  <2>2. jobq' \in [Slots -> JobRecord] /\ \A s \in Slots : jobq'[s].id = jobq[s].id
    BY <1>5, SlotUpdate DEF PopTakeTail, Started
  <2>3. TypeOK'
    BY <1>5, <2>1, <2>2 DEF PopTakeTail, Release
  <2>4. SlotsFilled'
    BY <1>5, <2>1, <2>2 DEF PopTakeTail
  <2> QED BY <1>5, <2>3, <2>4 DEF PopTakeTail
<1>6. CASE PopCount
  BY <1>6 DEF PopCount
<1>7. CASE PopDecide
  BY <1>7 DEF PopDecide
<1>8. CASE PopClaim
  <2>1. popJob.id \in Slots
    BY DEF TakenJob
  <2> QED BY <1>8, <2>1 DEF PopClaim
<1>9. CASE PopSkip
  BY <1>9 DEF PopSkip
<1>10. CASE PopNoNode
  BY <1>10 DEF PopNoNode, NextPiece
<1>11. CASE PopSend
  <2>1. Dispatch \in Piece
    BY <1>11 DEF PopSend, Dispatch, Piece, TakenJob
  <2> QED BY <1>11, <2>1 DEF PopSend, NextPiece
<1>12. CASE PopLaunched
  <2>1. popJob.id \in Slots /\ popJob.nodes \in Int
    BY DEF TakenJob
  <2> QED BY <1>12, <2>1 DEF PopLaunched
<1>13. CASE PopSendFails
  BY <1>13 DEF PopSendFails
<1> QED BY <1>1, <1>2, <1>3, <1>4, <1>5, <1>6, <1>7, <1>8, <1>9, <1>10, <1>11,
           <1>12, <1>13 DEF Pop

\* Every step of the result thread keeps the types.
LEMMA TypeResult == TypeInv /\ Result => TypeInv'
<1> SUFFICES ASSUME TypeInv, Result PROVE TypeInv'
  OBVIOUS
<1> USE QSizeAssumption, NumHostsAssumption
    DEF TypeInv, TypeOK, SlotsFilled, Taking, Claiming, Slots, Hosts, JobIds,
        queueVars, nodeVars, monVars, scanVars, popVars, pastVars
<1>1. CASE \E p \in pieces : ResultRecv(p)
  <2>1. PICK p \in pieces : ResultRecv(p)
    BY <1>1
  <2>2. p \in Piece /\ p.node \in Hosts /\ p.id \in Slots
    BY DEF Piece
  <2> QED BY <2>1, <2>2 DEF ResultRecv, BookResult
<1>7. CASE Empty
  <2>1. PICK n \in Hosts, s \in Slots : ResultEmpty(n, s)
    BY <1>7 DEF Empty
  <2> QED BY <2>1 DEF ResultEmpty, BookResult
<1>2. CASE ResultLoad
  BY <1>2 DEF ResultLoad
<1>3. CASE ResultStore
  BY <1>3 DEF ResultStore
<1>4. CASE ResultTest
  BY <1>4 DEF ResultTest, LastResult
<1>5. CASE ResultLock
  BY <1>5 DEF ResultLock, Acquire
<1>6. CASE ResultFinish
  <2>1. jobq' \in [Slots -> JobRecord] /\ \A s \in Slots : jobq'[s].id = jobq[s].id
    BY <1>6, SlotUpdate DEF ResultFinish
  <2> QED BY <1>6, <2>1 DEF ResultFinish, Release
<1> QED BY <1>1, <1>2, <1>3, <1>4, <1>5, <1>6, <1>7 DEF Result, Book

LEMMA TypeStep == TypeInv /\ [Next]_vars => TypeInv'
<1>1. CASE UNCHANGED vars
  BY <1>1 DEF TypeInv, TypeOK, SlotsFilled, Taking, Claiming, vars, queueVars, nodeVars,
              popVars, monVars, scanVars, resVars, pastVars
<1> QED BY <1>1, TypeMonitor, TypePop, TypeResult DEF Next

\* The scheduler never leaves its types, even with an overrun queue: indices
\* stay inside the arrays, and every job taken carries a slot number.
THEOREM TypeCorrect == Spec => []TypeOK
<1>1. TypeInv => TypeOK
  BY DEF TypeInv
<1> QED BY <1>1, TypeInit, TypeStep, PTL DEF Spec

-----------------------------------------------------------------------------
(* The node tables.  NodeLedger is not inductive alone: between claiming a  *)
(* node and sending it the piece the pop thread relies on what it wrote,    *)
(* and it clears the tables at its start because nothing runs yet.          *)

Claimed ==
  /\ popPc = "init" => pieces = {}
  /\ Claiming => \/ k \in strayed
                 \/ /\ pcstat[k] = "BUSY" /\ nodesstat[k] = popJob.id
                    /\ \A p \in pieces : p.node # k

LedgerInv == NodeLedger /\ Claimed

LEMMA LedgerInit == Init => LedgerInv
BY DEF Init, LedgerInv, NodeLedger, Claimed, Claiming

LEMMA LedgerPop == TypeInv /\ LedgerInv /\ Pop => LedgerInv'
<1> SUFFICES ASSUME TypeInv, LedgerInv, Pop PROVE LedgerInv'
  OBVIOUS
<1> USE DEF LedgerInv, NodeLedger, Claimed, Claiming
<1>0. /\ pcstat \in [Hosts -> {"ONLINE", "FREE", "BUSY"}]
      /\ nodesstat \in [Hosts -> JobIds]
      /\ Claiming => k \in Hosts
      /\ k \in Nat \ {0}
      /\ \A p \in pieces : p.node \in Hosts
  BY DEF TypeInv, TypeOK, Piece
<1>past. strayed' = strayed
  BY DEF Pop, PopInit, PopLock, PopTakeComm, PopTakeNodes, PopTakeTail, PopCount, PopDecide,
         PopClaim, PopSkip, PopNoNode, PopSend, PopSendFails, PopLaunched, resVars, pastVars
<1>1. CASE PopInit
  BY <1>past, <1>1 DEF PopInit
<1>2. CASE PopLock
  BY <1>past, <1>2 DEF PopLock, nodeVars
<1>3. CASE PopTakeComm
  BY <1>past, <1>3 DEF PopTakeComm, nodeVars
<1>4. CASE PopTakeNodes
  BY <1>past, <1>4 DEF PopTakeNodes, nodeVars
<1>5. CASE PopTakeTail
  BY <1>past, <1>5 DEF PopTakeTail, nodeVars
<1>6. CASE PopCount
  BY <1>past, <1>6 DEF PopCount, nodeVars
<1>7. CASE PopDecide
  BY <1>past, <1>7 DEF PopDecide, nodeVars
<1>8. CASE PopClaim
  <2>1. k \in Hosts
    BY <1>0, <1>8, NumHostsAssumption DEF PopClaim, Hosts
  <2>2. \A p \in pieces : p.node # k \/ k \in strayed
    BY <1>8 DEF PopClaim
  <2> QED BY <1>0, <1>past, <1>8, <2>1, <2>2 DEF PopClaim
<1>9. CASE PopSkip
  BY <1>past, <1>9 DEF PopSkip, nodeVars
<1>10. CASE PopNoNode
  BY <1>past, <1>10 DEF PopNoNode, NextPiece, nodeVars
<1>11. CASE PopSend
  <2>1. Dispatch.node = k /\ Dispatch.id = popJob.id
    BY DEF Dispatch
  <2> QED BY <1>past, <1>11, <2>1 DEF PopSend, NextPiece
<1>12. CASE PopLaunched
  BY <1>past, <1>12 DEF PopLaunched, nodeVars
<1>13. CASE PopSendFails
  BY <1>past, <1>13 DEF PopSendFails, nodeVars
<1> QED BY <1>1, <1>2, <1>3, <1>4, <1>5, <1>6, <1>7, <1>8, <1>9, <1>10, <1>11,
           <1>12, <1>13 DEF Pop

\* Of the other threads only the arrival of a result touches the node tables.
LEMMA LedgerOthers == TypeInv /\ LedgerInv /\ (Monitor \/ Book) => LedgerInv'
<1> SUFFICES ASSUME Monitor \/ Book PROVE UNCHANGED <<nodeVars, popVars, pastVars>>
  BY DEF LedgerInv, NodeLedger, Claimed, Claiming, nodeVars, popVars, pastVars
<1>1. CASE Monitor
  BY <1>1 DEF Monitor, Submit, Cancel, SubmitCheck, SubmitUnlockAgain, SubmitLock,
              PushComm, PushNodes, PushHead, CancelLock, CancelScan, CancelSendFails, CancelUnlock,
              Query, QueryLock, QueryRead, QueryUnlock, resVars
<1>2. CASE Book
  BY <1>2 DEF Book, ResultLoad, ResultStore, ResultTest, ResultLock, ResultFinish
<1> QED BY <1>1, <1>2

LEMMA LedgerRecv ==
  ASSUME TypeInv, LedgerInv, NEW p \in pieces, ResultRecv(p)
  PROVE  LedgerInv'
<1> USE DEF LedgerInv, NodeLedger, Claimed, Claiming
<1>1. /\ pieces' = pieces \ {p} /\ pcstat' = [pcstat EXCEPT ![p.node] = "FREE"]
      /\ UNCHANGED <<nodesstat, popPc, popJob, k, strayed>>
  BY DEF ResultRecv, BookResult, popVars, pastVars
<1>2. \A q \in pieces' : \/ q.node \in strayed
                         \/ q.node # p.node /\ pcstat'[q.node] = pcstat[q.node]
  BY <1>1
<1>3. Claiming => k \in strayed \/ (k # p.node /\ pcstat'[k] = pcstat[k])
  <2>1. Claiming => k \in Hosts /\ (k \in strayed \/ k # p.node)
    BY DEF TypeInv
  <2>2. pcstat \in [Hosts -> {"ONLINE", "FREE", "BUSY"}]
    BY DEF TypeInv, TypeOK
  <2>3. \A m \in Hosts : m # p.node => pcstat'[m] = pcstat[m]
    BY <1>1, <2>2
  <2> QED BY <2>1, <2>3
<1> QED BY <1>1, <1>2, <1>3

\* An empty receive that frees a node at work is remembered in strayed.
LEMMA LedgerEmpty ==
  ASSUME TypeInv, LedgerInv, NEW n \in Hosts, NEW s \in Slots, ResultEmpty(n, s)
  PROVE  LedgerInv'
<1> USE DEF LedgerInv, NodeLedger, Claimed, Claiming
<1>1. /\ pcstat' = [pcstat EXCEPT ![n] = "FREE"]
      /\ strayed' = IF pcstat[n] = "BUSY" THEN strayed \cup {n} ELSE strayed
      /\ UNCHANGED <<pieces, nodesstat, popPc, popJob, k>>
  BY DEF ResultEmpty, BookResult, popVars
<1>2. \A m \in Hosts : pcstat[m] = "BUSY" => m \in strayed' \/ pcstat'[m] = "BUSY"
  BY <1>1 DEF TypeInv, TypeOK
<1>3. /\ \A p \in pieces : p.node \in Hosts
      /\ Claiming => k \in Hosts
  BY DEF TypeInv, TypeOK, Piece
<1>4. strayed \subseteq strayed'
  BY <1>1
<1> QED BY <1>1, <1>2, <1>3, <1>4

LEMMA LedgerStep == TypeInv /\ LedgerInv /\ [Next]_vars => LedgerInv'
<1>1. CASE UNCHANGED vars
  BY <1>1 DEF LedgerInv, NodeLedger, Claimed, Claiming, vars, nodeVars, popVars, resVars, pastVars
<1> QED BY <1>1, LedgerPop, LedgerOthers, LedgerRecv, LedgerEmpty DEF Next, Result, Empty

\* However the three threads interleave on the unlocked tables, and even with
\* an overrun queue, a node is never given a second piece while it works on
\* one, and nodesstat tells a cancel request which job that is: unless an empty
\* receive has freed that very node while it was BUSY.
THEOREM LedgerCorrect == Spec => []NodeLedger
<1>1. LedgerInv => NodeLedger
  BY DEF LedgerInv
<1> QED BY <1>1, TypeInit, TypeStep, LedgerInit, LedgerStep, PTL DEF Spec

-----------------------------------------------------------------------------
(* The queue while clients never fill it.  The arithmetic of the circular   *)
(* indices first.                                                           *)

Indices == head \in Slots /\ tail \in Slots

LEMMA RoomLeft ==
  ASSUME Indices, Backlog < QSize - 1
  PROVE  ~QueueFull
<1>1. CASE head + 1 < QSize
  BY <1>1, NextSlotCases, QSizeAssumption DEF Indices, Slots, Backlog, QueueFull
<1>2. CASE head + 1 >= QSize
  BY <1>2, NextSlotCases, QSizeAssumption DEF Indices, Slots, Backlog, QueueFull
<1> QED BY <1>1, <1>2, QSizeAssumption DEF Indices, Slots

\* A push into a queue with room appends the slot at job_head to the waiting.
LEMMA PushWaits ==
  ASSUME Indices, ~QueueFull, head' = NextSlot(head), tail' = tail
  PROVE  /\ Indices' /\ head \notin Waiting /\ ~QueueEmpty'
         /\ Waiting' = Waiting \cup {head} /\ Backlog' = Backlog + 1
<1>1. CASE head + 1 < QSize
  BY <1>1, NextSlotCases, QSizeAssumption
  DEF Indices, Slots, Waiting, Backlog, QueueFull, QueueEmpty
<1>2. CASE head + 1 >= QSize
  BY <1>2, NextSlotCases, QSizeAssumption
  DEF Indices, Slots, Waiting, Backlog, QueueFull, QueueEmpty
<1> QED BY <1>1, <1>2, QSizeAssumption DEF Indices, Slots

\* A take from a queue that is not empty removes the slot at job_tail.
LEMMA TakeWaits ==
  ASSUME Indices, ~QueueEmpty, tail' = NextSlot(tail), head' = head
  PROVE  /\ Indices' /\ tail \in Waiting /\ ~QueueFull'
         /\ Waiting' = Waiting \ {tail} /\ Backlog' = Backlog - 1
<1>1. CASE tail + 1 < QSize
  BY <1>1, NextSlotCases, QSizeAssumption
  DEF Indices, Slots, Waiting, Backlog, QueueFull, QueueEmpty
<1>2. CASE tail + 1 >= QSize
  BY <1>2, NextSlotCases, QSizeAssumption
  DEF Indices, Slots, Waiting, Backlog, QueueFull, QueueEmpty
<1> QED BY <1>1, <1>2, QSizeAssumption DEF Indices, Slots

(* Each thread relies on what it saw of the queue when it took the lock:    *)
(* the monitor on a free slot, the pop thread on a waiting job.             *)

LockInv ==
  /\ LockDiscipline
  /\ monPc # "unlockAgain"
  /\ monPc \in {"lock", "pushComm", "pushNodes", "pushHead"} => ~QueueFull
  /\ Taking => ~QueueEmpty

LEMMA LockInit == Init => LockInv
BY DEF Init, LockInv, LockDiscipline, Taking

LEMMA LockMonitor ==
  ASSUME MaxBacklog < QSize, TypeInv, LockInv, Monitor
  PROVE  LockInv'
<1> USE DEF LockInv, LockDiscipline, Taking, Acquire, Release
<1>0. Indices
  BY DEF TypeInv, TypeOK, Indices
<1>1. CASE \E n \in Requests : SubmitCheck(n)
  <2>1. PICK n \in Requests : SubmitCheck(n)
    BY <1>1
  <2>2. ~QueueFull
    <3>1. Backlog < QSize - 1
      BY <1>0, <2>1, QSizeAssumption, BoundsAssumption
      DEF SubmitCheck, Indices, Slots, Backlog
    <3> QED BY <1>0, <3>1, RoomLeft
  <2> QED BY <2>1, <2>2
      DEF SubmitCheck, QueueFull, QueueEmpty, queueVars, popVars, resVars, NextSlot
<1>2. CASE SubmitUnlockAgain
  BY <1>2 DEF SubmitUnlockAgain
<1>3. CASE SubmitLock
  BY <1>3 DEF SubmitLock, QueueFull, QueueEmpty, queueVars, popVars, resVars, NextSlot
<1>4. CASE PushComm
  BY <1>4 DEF PushComm, QueueFull, QueueEmpty, popVars, resVars, NextSlot
<1>5. CASE PushNodes
  BY <1>5 DEF PushNodes, QueueFull, QueueEmpty, popVars, resVars, NextSlot
<1>6. CASE PushHead
  BY <1>6 DEF PushHead, popVars, resVars
<1>7. CASE \E j \in CancelIds : CancelLock(j)
  BY <1>7 DEF CancelLock, QueueFull, QueueEmpty, queueVars, popVars, resVars, NextSlot
<1>8. CASE CancelScan
  BY <1>8 DEF CancelScan, QueueFull, QueueEmpty, queueVars, popVars, resVars, NextSlot
<1>9. CASE CancelUnlock
  BY <1>9 DEF CancelUnlock, QueueFull, QueueEmpty, queueVars, popVars, resVars, NextSlot
<1>10. CASE \E j \in QueryIds : QueryLock(j)
  BY <1>10 DEF QueryLock, QueueFull, QueueEmpty, queueVars, popVars, resVars, NextSlot
<1>11. CASE QueryRead
  BY <1>11 DEF QueryRead, QueueFull, QueueEmpty, queueVars, popVars, resVars, NextSlot
<1>12. CASE QueryUnlock
  BY <1>12 DEF QueryUnlock, QueueFull, QueueEmpty, queueVars, popVars, resVars, NextSlot
<1>13. CASE CancelSendFails
  BY <1>13 DEF CancelSendFails, QueueFull, QueueEmpty, queueVars, popVars, resVars, NextSlot
<1> QED BY <1>1, <1>2, <1>3, <1>4, <1>5, <1>6, <1>7, <1>8, <1>9, <1>10, <1>11,
           <1>12, <1>13 DEF Monitor, Submit, Cancel, Query

LEMMA LockPop ==
  ASSUME TypeInv, LockInv, Pop
  PROVE  LockInv'
<1> USE DEF LockInv, LockDiscipline, Taking, Acquire, Release
<1>1. CASE PopLock
  BY <1>1 DEF PopLock, QueueFull, QueueEmpty, queueVars, monVars, scanVars, resVars, NextSlot
<1>2. CASE PopTakeComm
  BY <1>2 DEF PopTakeComm, QueueFull, QueueEmpty, queueVars, monVars, scanVars, resVars, NextSlot
<1>3. CASE PopTakeNodes
  BY <1>3 DEF PopTakeNodes, QueueFull, QueueEmpty, queueVars, monVars, scanVars, resVars, NextSlot
<1>4. CASE PopTakeTail
  <2>1. ~QueueFull'
    BY <1>4, TakeWaits DEF PopTakeTail, Indices, TypeInv, TypeOK
  <2> QED BY <1>4, <2>1 DEF PopTakeTail, monVars, scanVars, resVars
<1>5. CASE ~(PopLock \/ PopTakeComm \/ PopTakeNodes \/ PopTakeTail)
  <2>1. /\ UNCHANGED <<queueVars, lock, monVars, resVars>>
        /\ ~Taking /\ ~Taking'
    BY <1>5 DEF Pop, PopInit, PopCount, PopDecide, PopClaim, PopSkip, PopNoNode,
                PopSend, PopSendFails, PopLaunched, NextPiece
  <2> QED BY <2>1 DEF QueueFull, queueVars, monVars, scanVars, resVars, NextSlot
<1> QED BY <1>1, <1>2, <1>3, <1>4, <1>5

LEMMA LockResult ==
  ASSUME TypeInv, LockInv, Result
  PROVE  LockInv'
<1> USE DEF LockInv, LockDiscipline, Taking, Acquire, Release
<1>1. UNCHANGED <<head, tail, popVars, monVars>>
  BY DEF Result, Book, Empty, ResultRecv, ResultEmpty, BookResult, ResultLoad, ResultStore, ResultTest, ResultLock,
         ResultFinish, queueVars
<1>2. (QueueFull' <=> QueueFull) /\ (QueueEmpty' <=> QueueEmpty)
  BY <1>1 DEF QueueFull, QueueEmpty, NextSlot
<1>3. CASE ResultLock
  BY <1>1, <1>2, <1>3 DEF ResultLock, popVars, monVars, scanVars
<1>4. CASE ResultFinish
  BY <1>1, <1>2, <1>4 DEF ResultFinish, popVars, monVars, scanVars
<1>5. CASE ~(ResultLock \/ ResultFinish)
  <2>1. UNCHANGED lock /\ resPc # "finish" /\ resPc' # "finish"
    BY <1>5 DEF Result, Book, Empty, ResultRecv, ResultEmpty, BookResult, ResultLoad, ResultStore, ResultTest
  <2> QED BY <1>1, <1>2, <2>1 DEF popVars, monVars, scanVars
<1> QED BY <1>3, <1>4, <1>5

LEMMA LockStep ==
  ASSUME MaxBacklog < QSize
  PROVE  TypeInv /\ LockInv /\ [Next]_vars => LockInv'
<1>1. CASE UNCHANGED vars
  BY <1>1 DEF LockInv, LockDiscipline, Taking, QueueFull, QueueEmpty, NextSlot,
              vars, queueVars, popVars, monVars, scanVars, resVars
<1> QED BY <1>1, LockMonitor, LockPop, LockResult DEF Next

\* While clients leave room in the queue, jobq_lock does what it is there for:
\* no two threads are ever inside its sections together.
THEOREM LockCorrect ==
  ASSUME MaxBacklog < QSize
  PROVE  Spec => []LockDiscipline
<1>1. LockInv => LockDiscipline
  BY DEF LockInv
<1> QED BY <1>1, TypeInit, TypeStep, LockInit, LockStep, PTL DEF Spec

-----------------------------------------------------------------------------
(* Order and reachability of the waiting jobs, under the same proviso.  The  *)
(* jobs in the queue are the last Backlog submissions, in their order, and   *)
(* the pop thread has not gone beyond them.                                  *)

\* The submission that the waiting slot s holds.
Serial(s) == IF s < head THEN submitted - (head - 1 - s)
                         ELSE submitted - (head - 1 - s + QSize)

FifoInv ==
  /\ \A s \in Waiting : jobq[s].comm = Serial(s)
  /\ monPc \in {"pushNodes", "pushHead"} => jobq[head].comm = submitted + 1
  /\ popJob.comm <= submitted - Backlog
                    + (IF popPc \in {"takeNodes", "takeTail"} THEN 1 ELSE 0)

QueueInv == QueuedJobsReachable /\ FifoInv

LEMMA QueueInit == Init => QueueInv
BY QSizeAssumption
DEF Init, QueueInv, QueuedJobsReachable, FifoInv, Waiting, Backlog, Slots

\* The job at job_tail is the one submitted before all others that wait.
LEMMA OldestAtTail ==
  ASSUME Indices, submitted \in Nat, ~QueueEmpty
  PROVE  tail \in Waiting /\ Serial(tail) = submitted - Backlog + 1
BY QSizeAssumption DEF Indices, Slots, QueueEmpty, Waiting, Serial, Backlog

\* Waiting slots are slots, and job_head is none of them.
LEMMA WaitingSlots ==
  ASSUME Indices
  PROVE  Waiting \subseteq Slots /\ head \notin Waiting /\ Backlog \in Int
BY QSizeAssumption DEF Indices, Slots, Waiting, Backlog

\* A push does not renumber the jobs that wait.
LEMMA PushSerial ==
  ASSUME Indices, submitted \in Nat, ~QueueFull,
         head' = NextSlot(head), submitted' = submitted + 1
  PROVE  /\ \A s \in Waiting : Serial(s)' = Serial(s)
         /\ \A s \in Slots : s = head => Serial(s)' = submitted + 1
<1>1. CASE head + 1 < QSize
  BY <1>1, NextSlotCases, QSizeAssumption
  DEF Indices, Slots, Waiting, Serial, QueueFull
<1>2. CASE head + 1 >= QSize
  BY <1>2, NextSlotCases, QSizeAssumption
  DEF Indices, Slots, Waiting, Serial, QueueFull
<1> QED BY <1>1, <1>2, QSizeAssumption DEF Indices, Slots

LEMMA QueueMonitor ==
  ASSUME MaxBacklog < QSize, TypeInv, LockInv, QueueInv, Monitor
  PROVE  QueueInv'
<1> USE DEF QueueInv, QueuedJobsReachable, FifoInv
<1>0. /\ Indices /\ submitted \in Nat /\ popJob.comm \in Nat
      /\ jobq \in [Slots -> JobRecord] /\ monReq \in Int
      /\ Waiting \subseteq Slots /\ head \in Slots /\ head \notin Waiting /\ Backlog \in Int
  BY WaitingSlots DEF TypeInv, TypeOK, Indices, TakenJob
<1>1. CASE PushComm
  <2>1. /\ jobq'[head].comm = submitted + 1
        /\ \A s \in Slots : /\ jobq'[s].stat = jobq[s].stat
                            /\ s # head => jobq'[s].comm = jobq[s].comm
    BY <1>0, <1>1 DEF PushComm, JobRecord
  <2>2. UNCHANGED <<head, tail, submitted, popPc, popJob>>
    BY <1>1 DEF PushComm, popVars
  <2>3. UNCHANGED <<Waiting, Backlog>> /\ \A s \in Waiting : Serial(s)' = Serial(s)
    BY <2>2 DEF Waiting, Backlog, Serial
  <2>4. \A s \in Waiting : /\ jobq'[s].comm = jobq[s].comm
                           /\ jobq'[s].stat = jobq[s].stat
    <3> TAKE s \in Waiting
    <3>1. s \in Slots /\ s # head
      BY <1>0
    <3> QED BY <2>1, <3>1
  <2>5. \A s \in Waiting : jobq'[s].comm = Serial(s)'
    BY <2>3, <2>4
  <2>6. QueuedJobsReachable'
    BY <2>1, <2>3
  <2>7. popJob'.comm <= submitted' - Backlog'
                        + (IF popPc' \in {"takeNodes", "takeTail"} THEN 1 ELSE 0)
    BY <2>2, <2>3
  <2> QED BY <2>1, <2>2, <2>3, <2>5, <2>6, <2>7
<1>2. CASE PushNodes
  <2>1. \A s \in Slots : jobq'[s].stat = jobq[s].stat /\ jobq'[s].comm = jobq[s].comm
    BY <1>0, <1>2 DEF PushNodes, JobRecord
  <2>2. UNCHANGED <<head, tail, submitted, popPc, popJob>> /\ monPc = "pushNodes"
    BY <1>2 DEF PushNodes, popVars
  <2> QED BY <1>0, <2>1, <2>2 DEF Waiting, Backlog, Serial
<1>3. CASE PushHead
  <2>1. /\ \A s \in Slots : jobq'[s].comm = jobq[s].comm
        /\ \A s \in Slots : s # head => jobq'[s].stat = jobq[s].stat
    BY <1>0, <1>3 DEF PushHead, JobRecord
  <2>2. /\ head' = NextSlot(head) /\ tail' = tail /\ submitted' = submitted + 1
        /\ UNCHANGED <<popPc, popJob>> /\ monPc = "pushHead" /\ monPc' = "idle"
    BY <1>3 DEF PushHead, popVars
  <2>3. ~QueueFull
    BY <2>2 DEF LockInv
  <2>4. Waiting' = Waiting \cup {head} /\ Backlog' = Backlog + 1
    BY <1>0, <2>2, <2>3, PushWaits
  <2>5. /\ \A s \in Waiting : Serial(s)' = Serial(s)
        /\ \A s \in Slots : s = head => Serial(s)' = submitted + 1
    BY <1>0, <2>2, <2>3, PushSerial
  <2>6. \A s \in Waiting' : jobq'[s].comm = Serial(s)'
    BY <1>0, <2>1, <2>2, <2>4, <2>5
  <2>7. QueuedJobsReachable'
    BY <1>0, <2>1, <2>4
  <2>8. popJob'.comm <= submitted' - Backlog'
                        + (IF popPc' \in {"takeNodes", "takeTail"} THEN 1 ELSE 0)
    BY <1>0, <2>2, <2>4
  <2> QED BY <2>2, <2>6, <2>7, <2>8
<1>4. CASE ~(PushComm \/ PushNodes \/ PushHead)
  <2>1. /\ UNCHANGED <<jobq, head, tail, submitted, popPc, popJob>>
        /\ monPc' \notin {"pushNodes", "pushHead"}
    BY <1>4 DEF Monitor, Submit, Cancel, SubmitCheck, SubmitUnlockAgain, SubmitLock,
                CancelLock, CancelScan, CancelSendFails, CancelUnlock,
              Query, QueryLock, QueryRead, QueryUnlock, queueVars, popVars
  <2> QED BY <2>1 DEF Waiting, Backlog, Serial
<1> QED BY <1>1, <1>2, <1>3, <1>4

LEMMA QueuePop ==
  ASSUME TypeInv, LockInv, QueueInv, Pop
  PROVE  QueueInv'
<1> USE DEF QueueInv, QueuedJobsReachable, FifoInv
<1>0. /\ Indices /\ submitted \in Nat /\ popJob.comm \in Nat /\ popJob \in TakenJob
      /\ jobq \in [Slots -> JobRecord] /\ tail \in Slots
      /\ Waiting \subseteq Slots /\ head \in Slots /\ Backlog \in Int
  BY WaitingSlots DEF TypeInv, TypeOK, Indices, TakenJob
<1>1. CASE PopTakeComm
  <2>1. /\ UNCHANGED <<jobq, head, tail, submitted, monPc>>
        /\ popJob'.comm = jobq[tail].comm /\ popPc' = "takeNodes"
    BY <1>1 DEF PopTakeComm, queueVars, monVars, scanVars
  <2>2. popJob'.comm = submitted - Backlog + 1
    BY <1>0, <1>1, <2>1, OldestAtTail DEF LockInv, Taking, PopTakeComm
  <2> QED BY <1>0, <2>1, <2>2 DEF Waiting, Backlog, Serial
<1>2. CASE PopTakeNodes
  <2>1. /\ UNCHANGED <<jobq, head, tail, submitted, monPc>>
        /\ popJob'.comm = popJob.comm /\ popPc = "takeNodes" /\ popPc' = "takeTail"
    BY <1>0, <1>2 DEF PopTakeNodes, TakenJob, queueVars, monVars, scanVars
  <2> QED BY <2>1 DEF Waiting, Backlog, Serial
<1>3. CASE PopTakeTail
  <2>1. /\ \A s \in Slots : jobq'[s].comm = jobq[s].comm
        /\ jobq'[tail].stat = "RUNNING"
        /\ \A s \in Slots : s # tail => jobq'[s].stat = jobq[s].stat
    BY <1>0, <1>3 DEF PopTakeTail, Started, JobRecord
  <2>2. /\ tail' = NextSlot(tail) /\ UNCHANGED <<head, submitted, monPc, popJob>>
        /\ popPc = "takeTail" /\ popPc' \in {"count", "idle"}
    BY <1>3 DEF PopTakeTail, monVars
  <2>3. Waiting' = Waiting \ {tail} /\ Backlog' = Backlog - 1
    BY <1>0, <2>2, TakeWaits DEF LockInv, Taking
  <2>4. \A s \in Waiting : Serial(s)' = Serial(s)
    BY <2>2 DEF Serial
  <2>5. \A s \in Waiting' : jobq'[s].comm = Serial(s)'
    BY <1>0, <2>1, <2>3, <2>4
  <2>6. QueuedJobsReachable'
    BY <2>1, <2>3
  <2>7. popJob'.comm <= submitted' - Backlog'
                        + (IF popPc' \in {"takeNodes", "takeTail"} THEN 1 ELSE 0)
    BY <1>0, <2>2, <2>3
  <2> QED BY <1>0, <2>1, <2>2, <2>5, <2>6, <2>7
<1>4. CASE ~(PopTakeComm \/ PopTakeNodes \/ PopTakeTail)
  <2>1. /\ UNCHANGED <<jobq, head, tail, submitted, monPc, popJob>>
        /\ popPc \notin {"takeNodes", "takeTail"} /\ popPc' \notin {"takeNodes", "takeTail"}
    BY <1>4 DEF Pop, PopInit, PopLock, PopCount, PopDecide, PopClaim, PopSkip, PopNoNode,
                PopSend, PopSendFails, PopLaunched, NextPiece, queueVars, monVars, scanVars
  <2> QED BY <2>1 DEF Waiting, Backlog, Serial
<1> QED BY <1>1, <1>2, <1>3, <1>4

LEMMA QueueResult ==
  ASSUME TypeInv, QueueInv, Result
  PROVE  QueueInv'
<1>1. UNCHANGED <<head, tail, submitted, popVars, monVars>>
  BY DEF Result, Book, Empty, ResultRecv, ResultEmpty, BookResult, ResultLoad, ResultStore, ResultTest, ResultLock,
         ResultFinish, queueVars
<1>2. \A s \in Slots : /\ jobq'[s].comm = jobq[s].comm
                       /\ jobq'[s].stat \in {jobq[s].stat, "FINISHED"}
  <2>1. CASE ResultFinish
    BY <2>1 DEF ResultFinish, TypeInv, TypeOK, JobRecord
  <2>2. CASE ~ResultFinish
    BY <2>2 DEF Result, Book, Empty, ResultRecv, ResultEmpty, BookResult, ResultLoad, ResultStore, ResultTest, ResultLock,
                queueVars
  <2> QED BY <2>1, <2>2
<1>3. Waiting \subseteq Slots /\ head \in Slots
  BY WaitingSlots DEF TypeInv, TypeOK, Indices
<1> QED BY <1>1, <1>2, <1>3
        DEF QueueInv, QueuedJobsReachable, FifoInv, Waiting, Backlog, Serial, popVars, monVars, scanVars

LEMMA QueueStep ==
  ASSUME MaxBacklog < QSize
  PROVE  TypeInv /\ LockInv /\ QueueInv /\ [Next]_vars => QueueInv'
<1>1. CASE UNCHANGED vars
  BY <1>1 DEF QueueInv, QueuedJobsReachable, FifoInv, Waiting, Backlog, Serial,
              vars, queueVars, popVars, monVars, scanVars
<1> QED BY <1>1, QueueMonitor, QueuePop, QueueResult DEF Next

\* While clients leave room in the queue, a job whose status says it waits is
\* still between job_tail and job_head, through every wrap of the indices.
THEOREM ReachableCorrect ==
  ASSUME MaxBacklog < QSize
  PROVE  Spec => []QueuedJobsReachable
<1>1. QueueInv => QueuedJobsReachable
  BY DEF QueueInv
<1> QED BY <1>1, TypeInit, TypeStep, LockInit, LockStep, QueueInit, QueueStep, PTL DEF Spec

\* While clients leave room in the queue, the pop thread takes the jobs in the
\* order of their submission and none of them twice.
THEOREM FifoCorrect ==
  ASSUME MaxBacklog < QSize
  PROVE  Spec => FifoOrder
<1>1. TypeInv /\ LockInv /\ QueueInv /\ [Next]_vars
        => [popPc = "takeComm" => popJob'.comm > popJob.comm]_popPc
  <2> SUFFICES ASSUME TypeInv, LockInv, QueueInv, [Next]_vars,
                      popPc = "takeComm", popPc' # popPc
               PROVE  popJob'.comm > popJob.comm
    OBVIOUS
  <2>1. PopTakeComm
    BY DEF Next, Monitor, Submit, Cancel, SubmitCheck, SubmitUnlockAgain, SubmitLock,
           PushComm, PushNodes, PushHead, CancelLock, CancelScan, CancelSendFails, CancelUnlock,
              Query, QueryLock, QueryRead, QueryUnlock,
           Pop, PopInit, PopLock, PopTakeNodes, PopTakeTail, PopCount, PopDecide,
           PopClaim, PopSkip, PopNoNode, PopSend, PopSendFails, PopLaunched,
           Result, Book, Empty, ResultRecv, ResultEmpty, BookResult, ResultLoad, ResultStore, ResultTest, ResultLock,
           ResultFinish, vars, popVars
  <2>2. Indices /\ submitted \in Nat /\ popJob.comm \in Nat /\ Backlog \in Int
    BY WaitingSlots DEF TypeInv, TypeOK, Indices, TakenJob
  <2>3. jobq[tail].comm = submitted - Backlog + 1
    BY <2>2, OldestAtTail DEF LockInv, Taking, QueueInv, FifoInv
  <2>4. popJob.comm <= submitted - Backlog
    BY <2>2 DEF QueueInv, FifoInv
  <2> QED BY <2>1, <2>2, <2>3, <2>4 DEF PopTakeComm
<1> QED BY <1>1, TypeInit, TypeStep, LockInit, LockStep, QueueInit, QueueStep, PTL
        DEF Spec, FifoOrder

-----------------------------------------------------------------------------
(* The queue implements the bounded FIFO.  Its contents follow from two     *)
(* numbers, the submissions and how many of them wait.                      *)

Contents(n, m) == [j \in 1 .. m |-> n - m + j]

Queued == Backlog - TakenSlot

LEMMA ModCases ==
  ASSUME NEW a \in Nat, a < 2 * QSize
  PROVE  a % QSize = IF a < QSize THEN a ELSE a - QSize
BY QSizeAssumption, SMT

\* The slot of the j-th job that waits, and the submission it holds.
LEMMA SlotOf ==
  ASSUME Indices, submitted \in Nat, NEW d \in 0 .. Backlog - 1
  PROVE  /\ (tail + d) % QSize \in Waiting
         /\ Serial((tail + d) % QSize) = submitted - Backlog + d + 1
<1>1. d \in Nat /\ d < QSize /\ tail + d \in Nat /\ tail + d < 2 * QSize
  BY QSizeAssumption DEF Indices, Slots, Backlog
<1>2. (tail + d) % QSize = IF tail + d < QSize THEN tail + d ELSE tail + d - QSize
  BY <1>1, QSizeAssumption, SMT DEF Indices, Slots
<1> DEFINE s == (tail + d) % QSize
<1>3. s = IF tail + d < QSize THEN tail + d ELSE tail + d - QSize
  BY <1>2
<1> HIDE DEF s
<1>4. s \in Waiting /\ Serial(s) = submitted - Backlog + d + 1
  BY <1>1, <1>3, QSizeAssumption DEF Indices, Slots, Backlog, Waiting, Serial
<1> QED BY <1>4 DEF s

LEMMA QueueHolds ==
  ASSUME TypeInv, LockInv, FifoInv
  PROVE  /\ QueuedComms = Contents(submitted, Queued)
         /\ Queued \in Nat /\ Queued <= Backlog /\ Backlog \in Nat /\ submitted \in Nat
<1>1. Indices /\ submitted \in Nat
  BY DEF TypeInv, TypeOK, Indices
<1>2. Backlog \in Nat
  BY <1>1, QSizeAssumption DEF Indices, Slots, Backlog
<1>3. TakenSlot = 1 => Backlog # 0
  BY <1>1, QSizeAssumption DEF TakenSlot, LockInv, Taking, Backlog, QueueEmpty, Indices, Slots
<1>4. TakenSlot \in {0, 1} /\ Queued \in Nat /\ Queued <= Backlog
  BY <1>2, <1>3 DEF TakenSlot, Queued
<1>5. ASSUME NEW j \in 1 .. Queued
      PROVE  jobq[(tail + TakenSlot + j - 1) % QSize].comm = submitted - Queued + j
  <2> DEFINE d == TakenSlot + j - 1
  <2>1. d \in 0 .. Backlog - 1 /\ tail + TakenSlot + j - 1 = tail + d
    BY <1>1, <1>2, <1>4 DEF Queued, Indices, Slots
  <2> HIDE DEF d
  <2>2. /\ (tail + d) % QSize \in Waiting
        /\ Serial((tail + d) % QSize) = submitted - Backlog + d + 1
    BY <1>1, <2>1, SlotOf
  <2>3. jobq[(tail + d) % QSize].comm = submitted - Backlog + d + 1
    BY <2>2 DEF FifoInv
  <2>4. submitted - Backlog + d + 1 = submitted - Queued + j
    BY <1>1, <1>2, <1>4 DEF Queued, d
  <2> QED BY <2>1, <2>3, <2>4
<1>6. QueuedComms = Contents(submitted, Queued)
  BY <1>5 DEF QueuedComms, Contents, Queued
<1> QED BY <1>1, <1>2, <1>4, <1>6

\* Both ends of the queue in terms of the two numbers.
LEMMA ContentsEnds ==
  ASSUME NEW n \in Nat, NEW m \in Nat
  PROVE  /\ Contents(n, m) \in Seq(Int) /\ Len(Contents(n, m)) = m
         /\ Contents(n + 1, m + 1) = Append(Contents(n, m), n + 1)
         /\ m >= 1 => /\ Head(Contents(n, m)) = n - m + 1 /\ Contents(n, m) # <<>>
                      /\ Contents(n, m - 1) = Tail(Contents(n, m))
<1> DEFINE q == Contents(n, m)
<1>1. q \in Seq(Int) /\ Len(q) = m
  BY DEF Contents
<1>2. Contents(n + 1, m + 1) = Append(q, n + 1)
  BY <1>1 DEF Contents
<1>3. m >= 1 => Head(q) = n - m + 1 /\ q # <<>>
  BY <1>1 DEF Contents
<1>4. m >= 1 => Contents(n, m - 1) = Tail(q)
  BY <1>1 DEF Contents
<1> QED BY <1>1, <1>2, <1>3, <1>4

\* A submission keeps to the bound from its check to its push.
BoundInv == monPc \in {"lock", "pushComm", "pushNodes", "pushHead"} => submitted < MaxJobs

LEMMA BoundStep == TypeInv /\ LockInv /\ BoundInv /\ [Next]_vars => BoundInv'
<1> SUFFICES ASSUME LockInv, BoundInv, [Next]_vars PROVE BoundInv'
  OBVIOUS
<1>1. CASE Monitor
  BY <1>1 DEF LockInv, BoundInv, Monitor, Submit, Cancel, Query, SubmitCheck, SubmitUnlockAgain,
              SubmitLock, PushComm, PushNodes, PushHead, CancelLock, CancelScan, CancelSendFails, CancelUnlock,
              QueryLock, QueryRead, QueryUnlock, queueVars
<1>2. CASE Pop
  BY <1>2 DEF BoundInv, Pop, PopInit, PopLock, PopTakeComm, PopTakeNodes, PopTakeTail, PopCount,
              PopDecide, PopClaim, PopSkip, PopNoNode, PopSend, PopSendFails, PopLaunched, queueVars, monVars
<1>3. CASE Result
  BY <1>3 DEF BoundInv, Result, Book, Empty, ResultRecv, ResultEmpty, BookResult, ResultLoad, ResultStore, ResultTest,
              ResultLock, ResultFinish, queueVars, monVars
<1>4. CASE UNCHANGED vars
  BY <1>4 DEF BoundInv, vars, queueVars, monVars
<1> QED BY <1>1, <1>2, <1>3, <1>4 DEF Next

\* The queue in the next state.
LEMMA QueueHoldsNext ==
  ASSUME TypeInv', LockInv', QueueInv'
  PROVE  QueuedComms' = Contents(submitted', Queued')
<1>1. (QueuedComms = Contents(submitted, Queued))'
  BY QueueHolds, PTL DEF QueueInv
<1> QED BY <1>1 DEF Contents

\* The push of a slot is the submission.
LEMMA PushSubmits ==
  ASSUME TypeInv, LockInv, QueueInv, BoundInv, TypeInv', LockInv', QueueInv', PushHead
  PROVE  Fifo!Submit
<1>1. /\ head' = NextSlot(head) /\ tail' = tail /\ submitted' = submitted + 1
      /\ UNCHANGED <<popPc, popJob>> /\ monPc = "pushHead" /\ ~QueueFull /\ submitted < MaxJobs
  BY DEF PushHead, popVars, LockInv, BoundInv
<1>2. /\ QueuedComms = Contents(submitted, Queued)
      /\ Queued \in Nat /\ submitted \in Nat /\ Queued <= Backlog /\ Backlog \in Nat
  BY QueueHolds DEF QueueInv
<1>3. Indices
  BY DEF TypeInv, TypeOK, Indices
<1>4. Queued' = Queued + 1
  BY <1>1, <1>2, <1>3, PushWaits DEF Queued, TakenSlot
<1>5. QueuedComms' = Contents(submitted + 1, Queued + 1)
  BY <1>1, <1>4, QueueHoldsNext
<1>6. QueuedComms' = Append(QueuedComms, submitted + 1) /\ Len(QueuedComms) = Queued
  BY <1>2, <1>5, ContentsEnds
<1>7. Backlog < QSize - 1
  <2>1. CASE head + 1 < QSize
    BY <1>1, <1>3, <2>1, NextSlotCases, QSizeAssumption DEF Indices, Slots, Backlog, QueueFull
  <2>2. CASE head + 1 >= QSize
    BY <1>1, <1>3, <2>2, NextSlotCases, QSizeAssumption DEF Indices, Slots, Backlog, QueueFull
  <2> QED BY <1>3, <2>1, <2>2, QSizeAssumption DEF Indices, Slots
<1>8. Len(QueuedComms) < QSize - 1
  BY <1>2, <1>6, <1>7, QSizeAssumption
<1> QED BY <1>1, <1>6, <1>8 DEF Fifo!Submit

\* Reading the command of the slot at job_tail is the take.
LEMMA ReadTakes ==
  ASSUME TypeInv, LockInv, QueueInv, TypeInv', LockInv', QueueInv', PopTakeComm
  PROVE  Fifo!Take
<1>1. /\ UNCHANGED <<head, tail, submitted>> /\ popJob'.comm = jobq[tail].comm
      /\ popPc = "takeComm" /\ popPc' = "takeNodes" /\ ~QueueEmpty
  BY DEF PopTakeComm, queueVars, LockInv, Taking
<1>2. /\ QueuedComms = Contents(submitted, Queued)
      /\ Queued \in Nat /\ submitted \in Nat /\ Queued <= Backlog /\ Backlog \in Nat
  BY QueueHolds DEF QueueInv
<1>3. Indices
  BY DEF TypeInv, TypeOK, Indices
<1>4. Queued = Backlog /\ Queued >= 1 /\ Queued' = Queued - 1
  <2>1. Queued = Backlog /\ Backlog' = Backlog /\ Queued' = Backlog' - 1
    BY <1>1, <1>2 DEF Queued, TakenSlot, Backlog
  <2>2. Backlog # 0
    BY <1>1, <1>3, QSizeAssumption DEF Backlog, QueueEmpty, Indices, Slots
  <2> QED BY <1>2, <2>1, <2>2
<1>5. QueuedComms' = Contents(submitted, Queued - 1)
  BY <1>1, <1>4, QueueHoldsNext
<1>6. popJob'.comm = submitted - Queued + 1
  BY <1>1, <1>2, <1>3, <1>4, OldestAtTail DEF QueueInv, FifoInv
<1>7. /\ Head(QueuedComms) = submitted - Queued + 1 /\ QueuedComms # <<>>
      /\ QueuedComms' = Tail(QueuedComms)
  BY <1>2, <1>4, <1>5, ContentsEnds
<1> QED BY <1>1, <1>6, <1>7 DEF Fifo!Take

\* No other step changes what waits.
LEMMA OtherStutters ==
  ASSUME TypeInv, LockInv, QueueInv, TypeInv', LockInv', QueueInv', [Next]_vars,
         ~PushHead, ~PopTakeComm
  PROVE  UNCHANGED Fifo!vars
<1>1. /\ QueuedComms = Contents(submitted, Queued) /\ QueuedComms' = Contents(submitted', Queued')
      /\ Backlog \in Nat /\ Indices
  BY QueueHolds, QueueHoldsNext DEF QueueInv, TypeInv, TypeOK, Indices
<1>2. CASE PopTakeTail
  <2>1. /\ tail' = NextSlot(tail) /\ UNCHANGED <<head, submitted, popJob>>
        /\ popPc = "takeTail" /\ popPc' \in {"count", "idle"} /\ ~QueueEmpty
    BY <1>2 DEF PopTakeTail, LockInv, Taking
  <2>2. Backlog' = Backlog - 1
    BY <1>1, <2>1, TakeWaits
  <2>3. Queued' = Queued
    BY <1>1, <2>1, <2>2 DEF Queued, TakenSlot
  <2> QED BY <1>1, <2>1, <2>3 DEF Fifo!vars
<1>3. CASE ~PopTakeTail
  <2>1. UNCHANGED <<head, tail, submitted, popJob.comm, TakenSlot>>
    <3>1. CASE Monitor
      BY <3>1 DEF Monitor, Submit, Cancel, Query, SubmitCheck, SubmitUnlockAgain, SubmitLock,
                  PushComm, PushNodes, CancelLock, CancelScan, CancelSendFails, CancelUnlock, QueryLock,
                  QueryRead, QueryUnlock, queueVars, popVars, TakenSlot
    <3>2. CASE Pop
      <4>1. popJob \in TakenJob
        BY DEF TypeInv, TypeOK
      <4> QED BY <1>3, <3>2, <4>1 DEF Pop, PopInit, PopLock, PopTakeNodes, PopCount, PopDecide,
                 PopClaim, PopSkip, PopNoNode, PopSend, PopSendFails, PopLaunched, NextPiece, queueVars,
                 TakenSlot, TakenJob
    <3>3. CASE Result
      BY <3>3 DEF Result, Book, Empty, ResultRecv, ResultEmpty, BookResult, ResultLoad, ResultStore, ResultTest, ResultLock,
                  ResultFinish, queueVars, popVars, TakenSlot
    <3>4. CASE UNCHANGED vars
      BY <3>4 DEF vars, queueVars, popVars, TakenSlot
    <3> QED BY <3>1, <3>2, <3>3, <3>4 DEF Next
  <2>2. Queued' = Queued
    BY <2>1 DEF Queued, Backlog
  <2> QED BY <1>1, <2>1, <2>2 DEF Fifo!vars
<1> QED BY <1>2, <1>3

LEMMA FifoStarts == Init => Fifo!Init /\ BoundInv
<1> SUFFICES ASSUME Init PROVE Fifo!Init /\ BoundInv
  OBVIOUS
<1>1. Backlog - TakenSlot = 0
  <2>1. head = 0 /\ tail = 0 /\ popPc = "init"
    BY DEF Init
  <2>2. Backlog = 0
    BY <2>1 DEF Backlog
  <2>3. TakenSlot = 0
    BY <2>1 DEF TakenSlot
  <2> QED BY <2>2, <2>3
<1>2. QueuedComms = <<>>
  BY <1>1 DEF QueuedComms
<1> QED BY <1>2 DEF Init, Fifo!Init, BoundInv

\* While clients leave room in the queue, two indices, a lock and slots that two
\* threads fill and empty field by field are a FIFO of QSize - 1 jobs.
THEOREM FifoImplemented ==
  ASSUME MaxBacklog < QSize
  PROVE  Spec => ImplementsFifo
<1> DEFINE Inv == TypeInv /\ LockInv /\ QueueInv /\ BoundInv
<1>1. Init => Inv /\ Fifo!Init
  BY TypeInit, LockInit, QueueInit, FifoStarts
<1>2. Inv /\ [Next]_vars => Inv'
  BY TypeStep, LockStep, QueueStep, BoundStep
<1>3. Inv /\ Inv' /\ [Next]_vars => [Fifo!Next]_(Fifo!vars)
  BY PushSubmits, ReadTakes, OtherStutters DEF Fifo!Next
<1> QED BY <1>1, <1>2, <1>3, PTL DEF Spec, ImplementsFifo, Fifo!Spec

-----------------------------------------------------------------------------
(* Requests that the monitor thread serves while the pop and the result     *)
(* thread are at work.                                                      *)

(* Queries.  The job found by its id is the only one with it: a slot keeps  *)
(* the -1 it began with or has its own number.                              *)

OwnIds == \A s \in Slots : jobq[s].id \in {-1, s}

AnswerInv == OwnIds /\ AnswerCurrent

LEMMA AnswerInit == Init => AnswerInv
BY DEF Init, AnswerInv, OwnIds, AnswerCurrent

\* While a query is copied, nobody else writes a slot.
LEMMA AnswerKept ==
  ASSUME AnswerCurrent, monPc = "query", UNCHANGED <<jobq, monVars>>
  PROVE  AnswerCurrent'
BY DEF AnswerCurrent, Asked, monVars, scanVars

LEMMA AnswerMonitor ==
  ASSUME TypeInv, AnswerInv, Monitor
  PROVE  AnswerInv'
<1> USE DEF AnswerInv
<1>0. /\ jobq \in [Slots -> JobRecord] /\ head \in Slots /\ monReq \in Int
      /\ answer \in [Slots -> JobStats] /\ monK \in Nat \ {0}
  BY DEF TypeInv, TypeOK
<1>1. CASE PushComm
  <2>1. \A s \in Slots : jobq'[s].id = jobq[s].id
    BY <1>0, <1>1 DEF PushComm, JobRecord
  <2> QED BY <1>1, <2>1 DEF PushComm, OwnIds, AnswerCurrent
<1>2. CASE PushNodes
  <2>1. \A s \in Slots : jobq'[s].id = jobq[s].id
    BY <1>0, <1>2 DEF PushNodes, JobRecord
  <2> QED BY <1>2, <2>1 DEF PushNodes, OwnIds, AnswerCurrent
<1>3. CASE PushHead
  <2>1. \A s \in Slots : jobq'[s].id \in {jobq[s].id, s}
    BY <1>0, <1>3 DEF PushHead, JobRecord
  <2> QED BY <1>3, <2>1 DEF PushHead, OwnIds, AnswerCurrent
<1>4. CASE \E j \in QueryIds : QueryLock(j)
  <2>1. jobq' = jobq /\ monK' = 1
    BY <1>4 DEF QueryLock, queueVars
  <2> QED BY <2>1 DEF OwnIds, AnswerCurrent, Slots
<1>5. CASE QueryRead
  <2> DEFINE r == monK - 1
  <2>1. /\ UNCHANGED <<jobq, monReq, monPc>> /\ monPc = "query" /\ r \in Slots
        /\ answer' = IF Asked(r) THEN [answer EXCEPT ![r] = jobq[r].stat] ELSE answer
        /\ monK' = IF Asked(r) /\ monReq >= 0 THEN QSize + 1 ELSE monK + 1
    BY <1>0, <1>5, QSizeAssumption DEF QueryRead, queueVars, Slots
  <2>2. \A s \in Slots : s < r /\ Asked(s) => answer'[s] = jobq[s].stat
    BY <1>0, <2>1 DEF AnswerCurrent, Slots
  <2>3. Asked(r) => answer'[r] = jobq[r].stat
    BY <1>0, <2>1
  <2>4. \A s \in Slots : s < monK' - 1 /\ Asked(s) => s < r \/ s = r
    <3>1. CASE Asked(r) /\ monReq >= 0
      BY <1>0, <2>1, <3>1 DEF Asked, OwnIds, Slots
    <3>2. CASE ~(Asked(r) /\ monReq >= 0)
      BY <1>0, <2>1, <3>2 DEF Slots
    <3> QED BY <3>1, <3>2
  <2>5. \A s \in Slots : Asked(s)' <=> Asked(s)
    BY <2>1 DEF Asked
  <2>6. AnswerCurrent'
    BY <2>1, <2>2, <2>3, <2>4, <2>5 DEF AnswerCurrent
  <2> QED BY <2>1, <2>6 DEF OwnIds
<1>6. CASE ~(\/ PushComm \/ PushNodes \/ PushHead \/ QueryRead
             \/ \E j \in QueryIds : QueryLock(j))
  <2>1. jobq' = jobq /\ monPc' # "query"
    BY <1>6 DEF Monitor, Submit, Cancel, Query, SubmitCheck, SubmitUnlockAgain, SubmitLock,
                CancelLock, CancelScan, CancelSendFails, CancelUnlock, QueryUnlock, queueVars
  <2> QED BY <2>1 DEF OwnIds, AnswerCurrent
<1> QED BY <1>1, <1>2, <1>3, <1>4, <1>5, <1>6

\* The other two threads write a status only inside their own guarded sections.
LEMMA AnswerOthers ==
  ASSUME TypeInv, LockInv, AnswerInv, Pop \/ Result
  PROVE  AnswerInv'
<1> USE DEF AnswerInv
<1>0. jobq \in [Slots -> JobRecord]
  BY DEF TypeInv, TypeOK
<1>1. UNCHANGED monVars
  BY DEF Pop, PopInit, PopLock, PopTakeComm, PopTakeNodes, PopTakeTail, PopCount, PopDecide,
         PopClaim, PopSkip, PopNoNode, PopSend, PopSendFails, PopLaunched, Result, Book, Empty, ResultRecv,
         ResultEmpty, BookResult,
         ResultLoad, ResultStore, ResultTest, ResultLock, ResultFinish
<1>2. CASE PopTakeTail \/ ResultFinish
  <2>1. monPc # "query"
    BY <1>2 DEF LockInv, LockDiscipline, PopTakeTail, ResultFinish
  <2>2. \A s \in Slots : jobq'[s].id = jobq[s].id
    BY <1>0, <1>2 DEF PopTakeTail, ResultFinish, Started, JobRecord
  <2> QED BY <1>1, <2>1, <2>2 DEF OwnIds, AnswerCurrent, monVars
<1>3. CASE ~(PopTakeTail \/ ResultFinish)
  <2>1. jobq' = jobq
    BY <1>3 DEF Pop, PopInit, PopLock, PopTakeComm, PopTakeNodes, PopCount, PopDecide,
                PopClaim, PopSkip, PopNoNode, PopSend, PopSendFails, PopLaunched, Result, Book, Empty, ResultRecv,
         ResultEmpty, BookResult,
                ResultLoad, ResultStore, ResultTest, ResultLock, queueVars
  <2> QED BY <1>1, <2>1, AnswerKept DEF OwnIds, AnswerCurrent, monVars
<1> QED BY <1>2, <1>3

LEMMA AnswerStep == TypeInv /\ LockInv /\ AnswerInv /\ [Next]_vars => AnswerInv'
<1>1. CASE UNCHANGED vars
  BY <1>1, AnswerKept DEF AnswerInv, OwnIds, AnswerCurrent, vars, queueVars, monVars
<1> QED BY <1>1, AnswerMonitor, AnswerOthers DEF Next

\* While clients leave room in the queue, the reply to a query shows the job
\* table of one moment, although it is copied slot by slot.
THEOREM AnswerCorrect ==
  ASSUME MaxBacklog < QSize
  PROVE  Spec => []AnswerCurrent
<1>1. AnswerInv => AnswerCurrent
  BY DEF AnswerInv
<1> QED BY <1>1, TypeInit, TypeStep, LockInit, LockStep, AnswerInit, AnswerStep, PTL DEF Spec

-----------------------------------------------------------------------------
(* Cancellations.  A node can stop working on the job between the moment    *)
(* the scan began and the moment it is looked at, and be given another job. *)
(* Such a piece is past: it is not worked on, and it never comes back,      *)
(* because the pop thread has gone on to a later submission.  A node that   *)
(* nodesstat does not show to the scan has nothing but past pieces.         *)

Past(p) == p.comm < popJob.comm /\ p \notin pieces

CancelInv ==
  /\ owed # {} => monPc \in {"scan", "exited"}
  /\ popPc = "init" => owed = {}
  /\ \A p \in pieces \cup owed :
       p.comm <= popJob.comm /\ (p.comm = popJob.comm => p.id = popJob.id)
  /\ \A p \in owed :
       /\ p.id = monReq
       /\ p.node \notin strayed =>
            /\ nodesstat[p.node] = p.id \/ Past(p)
            /\ p.node < monK => p.node \in targets \/ Past(p)

LEMMA CancelInit == Init => CancelInv
BY DEF Init, CancelInv

LEMMA CancelTypes ==
  ASSUME TypeInv
  PROVE  /\ owed \subseteq Piece /\ pieces \subseteq Piece /\ popJob.comm \in Nat
         /\ nodesstat \in [Hosts -> JobIds] /\ monK \in Nat
         /\ \A p \in pieces \cup owed : p.comm \in Nat /\ p.node \in Hosts /\ p.node \in Nat
BY DEF TypeInv, TypeOK, Piece, TakenJob, Hosts

LEMMA CancelMonitor ==
  ASSUME TypeInv, LedgerInv, CancelInv, Monitor
  PROVE  CancelInv'
<1> USE DEF CancelInv
<1>0. UNCHANGED <<pieces, popJob, popPc, nodesstat, strayed>>
  BY DEF Monitor, Submit, Cancel, Query, SubmitCheck, SubmitUnlockAgain, SubmitLock,
         PushComm, PushNodes, PushHead, CancelLock, CancelScan, CancelSendFails, CancelUnlock, QueryLock,
         QueryRead, QueryUnlock, nodeVars, popVars, resVars, pastVars
<1>1. CASE \E j \in CancelIds : CancelLock(j)
  <2>1. PICK j \in CancelIds : CancelLock(j)
    BY <1>1
  <2>2. /\ owed' \subseteq pieces /\ \A p \in owed' : p.id = monReq'
        /\ monK' = 1 /\ monPc' = "scan"
    BY <2>1 DEF CancelLock, PiecesOf
  <2>3. \A p \in owed' : (p.node \in strayed \/ nodesstat[p.node] = p.id) /\ ~(p.node < 1)
    BY <2>2, CancelTypes DEF LedgerInv, NodeLedger, Hosts
  <2>4. popPc = "init" => owed' = {}
    BY <2>2 DEF LedgerInv, Claimed
  <2>5. \A p \in pieces' \cup owed' :
          p.comm <= popJob'.comm /\ (p.comm = popJob'.comm => p.id = popJob'.id)
    BY <1>0, <2>2
  <2> QED BY <1>0, <2>2, <2>3, <2>4, <2>5
<1>2. CASE CancelScan
  <2>1. /\ UNCHANGED <<owed, monPc, monReq>> /\ monK' = monK + 1
        /\ targets' = IF nodesstat[monK] = monReq THEN targets \cup {monK} ELSE targets
    BY <1>2 DEF CancelScan, HoldsJob
  <2>2. \A p \in owed : Past(p)' <=> Past(p)
    BY <1>0 DEF Past
  <2>3. ASSUME NEW p \in owed, p.node < monK', p.node \notin strayed
        PROVE  p.node \in targets' \/ Past(p)
    <3>1. CASE p.node = monK
      BY <2>1, <2>3, <3>1
    <3>2. CASE p.node # monK
      BY <2>1, <2>3, <3>2, CancelTypes
    <3> QED BY <3>1, <3>2
  <2> QED BY <1>0, <2>1, <2>2, <2>3
<1>4. CASE CancelSendFails
  <2>1. UNCHANGED <<owed, monReq, monK, targets>> /\ monPc' = "exited"
    BY <1>4 DEF CancelSendFails, scanVars
  <2> QED BY <1>0, <2>1 DEF Past
<1>3. CASE ~(CancelScan \/ CancelSendFails \/ \E j \in CancelIds : CancelLock(j))
  <2>1. owed' = {}
    BY <1>3 DEF Monitor, Submit, Cancel, Query, SubmitCheck, SubmitUnlockAgain, SubmitLock,
                PushComm, PushNodes, PushHead, CancelUnlock, QueryLock, QueryRead,
                QueryUnlock, scanVars
  <2> QED BY <1>0, <2>1
<1> QED BY <1>1, <1>2, <1>3, <1>4

LEMMA TakeAdvances ==
  ASSUME TypeInv, LockInv, QueueInv, PopTakeComm
  PROVE  popJob'.comm > popJob.comm /\ popJob'.comm \in Int
<1>1. Indices /\ submitted \in Nat /\ popJob.comm \in Nat /\ Backlog \in Int
  BY WaitingSlots DEF TypeInv, TypeOK, Indices, TakenJob
<1>2. jobq[tail].comm = submitted - Backlog + 1
  BY <1>1, OldestAtTail DEF LockInv, Taking, QueueInv, FifoInv, PopTakeComm
<1>3. popJob.comm <= submitted - Backlog
  BY <1>1 DEF QueueInv, FifoInv, PopTakeComm
<1> QED BY <1>1, <1>2, <1>3 DEF PopTakeComm

LEMMA CancelPop ==
  ASSUME TypeInv, LockInv, LedgerInv, QueueInv, CancelInv, Pop
  PROVE  CancelInv'
<1> USE DEF CancelInv
<1>0. UNCHANGED <<monVars, resVars>>
  BY DEF Pop, PopInit, PopLock, PopTakeComm, PopTakeNodes, PopTakeTail, PopCount, PopDecide,
         PopClaim, PopSkip, PopNoNode, PopSend, PopSendFails, PopLaunched
<1>mon. UNCHANGED <<monPc, monReq, monK, targets, owed, strayed>>
  BY <1>0 DEF monVars, scanVars, resVars, pastVars
<1>1. CASE PopInit
  <2>1. owed = {} /\ pieces = {} /\ pieces' = pieces
    BY <1>1 DEF PopInit, LedgerInv, Claimed
  <2> QED BY <1>mon, <2>1
<1>2. CASE PopTakeComm
  <2>1. pieces' = pieces /\ nodesstat' = nodesstat /\ popPc' # "init"
    BY <1>2 DEF PopTakeComm, nodeVars
  <2>2. popJob'.comm > popJob.comm /\ popJob'.comm \in Int
    BY <1>2, TakeAdvances
  <2>3. \A p \in pieces \cup owed : p.comm < popJob'.comm /\ p.comm \in Nat
    BY <2>2, CancelTypes
  <2>4. \A p \in owed : Past(p) => Past(p)'
    BY <2>1, <2>3 DEF Past
  <2> QED BY <1>mon, <2>1, <2>2, <2>3, <2>4
<1>3. CASE PopClaim
  <2>1. /\ UNCHANGED <<pieces, popJob>> /\ popPc' = "send" /\ pcstat[k] = "FREE"
        /\ nodesstat' = [nodesstat EXCEPT ![k] = popJob.id]
    BY <1>3 DEF PopClaim
  <2>2. \A p \in owed : Past(p)' <=> Past(p)
    BY <2>1 DEF Past
  <2>3. ASSUME NEW p \in owed, p.node \notin strayed, ~Past(p) PROVE nodesstat'[p.node] = p.id
    <3>1. CASE p.node # k
      BY <2>1, <2>3, <3>1, CancelTypes
    <3>2. CASE p.node = k
      <4>1. p \notin pieces
        BY <2>1, <2>3, <3>2 DEF LedgerInv, NodeLedger
      <4>2. p.comm = popJob.comm
        BY <2>3, <4>1, CancelTypes DEF Past
      <4> QED BY <2>1, <3>2, <4>2, CancelTypes
    <3> QED BY <3>1, <3>2
  <2> QED BY <1>mon, <2>1, <2>2, <2>3
<1>4. CASE PopSend
  <2>1. /\ UNCHANGED <<popJob, nodesstat>> /\ popPc' # "init"
        /\ pieces' = pieces \cup {Dispatch}
    BY <1>4 DEF PopSend, NextPiece
  <2>2. Dispatch.comm = popJob.comm /\ Dispatch.id = popJob.id
    BY DEF Dispatch
  <2>3. \A p \in owed : Past(p) => Past(p)'
    BY <2>1, <2>2, CancelTypes DEF Past
  <2> QED BY <1>mon, <2>1, <2>2, <2>3, CancelTypes
<1>5. CASE ~(PopInit \/ PopTakeComm \/ PopClaim \/ PopSend)
  <2>1. /\ UNCHANGED <<pieces, nodesstat>> /\ popPc # "init" /\ popPc' # "init"
        /\ popJob'.comm = popJob.comm /\ popJob'.id = popJob.id
    BY <1>5 DEF Pop, PopLock, PopTakeNodes, PopTakeTail, PopCount, PopDecide, PopSkip,
                PopNoNode, PopSendFails, PopLaunched, NextPiece, nodeVars, TypeInv, TypeOK, TakenJob
  <2>2. \A p \in owed : Past(p)' <=> Past(p)
    BY <2>1 DEF Past
  <2> QED BY <1>mon, <2>1, <2>2
<1> QED BY <1>1, <1>2, <1>3, <1>4, <1>5

LEMMA CancelResult ==
  ASSUME CancelInv, Result
  PROVE  CancelInv'
<1>1. UNCHANGED <<popPc, popJob, monPc, monReq, monK, targets, owed, nodesstat>>
  BY DEF Result, Book, Empty, ResultRecv, ResultEmpty, BookResult, ResultLoad, ResultStore, ResultTest, ResultLock,
         ResultFinish, nodeVars, popVars, monVars, scanVars
<1>2. pieces' \subseteq pieces /\ strayed \subseteq strayed'
  BY DEF Result, Book, Empty, ResultRecv, ResultEmpty, BookResult, ResultLoad, ResultStore, ResultTest, ResultLock,
         ResultFinish, nodeVars, pastVars
<1>3. \A p \in owed : Past(p) => Past(p)'
  BY <1>1, <1>2 DEF Past
<1> QED BY <1>1, <1>2, <1>3 DEF CancelInv

LEMMA CancelStep ==
  TypeInv /\ LockInv /\ LedgerInv /\ QueueInv /\ CancelInv /\ [Next]_vars => CancelInv'
<1>1. CASE UNCHANGED vars
  BY <1>1 DEF CancelInv, Past, vars, nodeVars, popVars, monVars, scanVars, resVars, pastVars
<1> QED BY <1>1, CancelMonitor, CancelPop, CancelResult DEF Next

\* While clients leave room in the queue, the scan of a cancel request misses no
\* node that worked on the job when it began and still does, although nodes are
\* freed and given other jobs in front of it and behind it; the exception is a
\* node that an empty receive freed at work.
THEOREM CancelCorrect ==
  ASSUME MaxBacklog < QSize
  PROVE  Spec => []CancelComplete
<1>1. CancelInv => CancelComplete
  BY DEF CancelInv, CancelComplete, Past
<1> QED BY <1>1, TypeInit, TypeStep, LockInit, LockStep, LedgerInit, LedgerStep,
           QueueInit, QueueStep, CancelInit, CancelStep, PTL DEF Spec

-----------------------------------------------------------------------------
(* A job is reported FINISHED only when all of its pieces have been         *)
(* answered, although the pop and the result thread race on jobnodes, but   *)
(* for a job that an empty receive counted down while its pieces were out.  *)
(* It holds as long as no slot is used for a second job, also when the      *)
(* queue is overrun and jobq_lock unlocked once too often.                  *)

Taken(s) == jobq[s].stat \in {"RUNNING", "FINISHED"}

LaunchPc == {"count", "place", "send", "launched", "exited"}
Launching(s) == popPc \in LaunchPc /\ popJob.id = s
Launched(s) == Taken(s) /\ ~Launching(s)

On(s) == {p \in pieces : p.id = s}

\* The answers to come that jobnodes has not been told of.
Due(s) == Cardinality(On(s)) + (IF resPc \in {"load", "store"} /\ resId = s THEN 1 ELSE 0)

\* Slots are filled and emptied once, in their order.
StageInv ==
  /\ monPc \in {"unlockAgain", "lock", "pushComm", "pushNodes", "pushHead"} => submitted < QSize
  /\ submitted <= QSize /\ (submitted = QSize => head = 0)
  /\ \A s \in Slots : s >= submitted => jobq[s].stat = "UNKNOWN"
  /\ Taking => tail < submitted /\ jobq[tail].stat = "INQUEUE"
  /\ popPc \in {"takeNodes", "takeTail"} => popJob.id = tail
  /\ \/ \A s \in Slots : s < submitted => IF s < tail THEN Taken(s) ELSE jobq[s].stat = "INQUEUE"
     \/ submitted = QSize /\ tail = 0 /\ \A s \in Slots : Taken(s)

\* What each thread has to do with a job that was taken.
OwnerInv ==
  /\ IsFiniteSet(pieces)
  /\ popPc \in LaunchPc => Taken(popJob.id)
  /\ \A p \in pieces : Taken(p.id)
  /\ resPc # "idle" => resNode # 0
  /\ resNode # 0 /\ resId \notin recounted => Taken(resId)

\* No more pieces are out than the pop thread has sent.
SentInv ==
  /\ popPc \in {"place", "send"} => i <= popJob.nodes
  /\ popJob.id \notin recounted =>
       /\ popPc = "count" => Due(popJob.id) = 0
       /\ popPc \in {"place", "send"} => Due(popJob.id) <= i - 1
       /\ popPc = "launched" => popJob.nodes < 0 \/ Due(popJob.id) <= popJob.nodes

\* jobnodes is not too small, unless answers that came before it was stored
\* have made it negative for ever; zero means that nothing is out.
DrainInv(s) ==
  /\ Launched(s) /\ On(s) # {} => jobnodes[s] < 0 \/ jobnodes[s] >= Due(s)
  /\ resPc \in {"store", "test"} /\ resId = s /\ resTmp >= 0 => resTmp >= Cardinality(On(s))
  /\ resPc \in {"lock", "finish"} /\ resId = s => On(s) = {}
  /\ jobq[s].stat = "FINISHED" => On(s) = {}

\* The count of a job reaches zero only after its launch, whatever was booked.
CountInv(s) ==
  /\ ~Launched(s) => /\ jobnodes[s] <= 0
                     /\ resPc = "test" /\ resId = s => jobnodes[s] < 0
  /\ resPc \in {"store", "test"} /\ resId = s /\ resTmp >= 0 => Launched(s)
  /\ resPc \in {"lock", "finish"} /\ resId = s => Launched(s)
  /\ jobq[s].stat = "FINISHED" => Launched(s)
  /\ s \notin recounted => DrainInv(s)

ResultInv == StageInv /\ OwnerInv /\ SentInv /\ \A s \in Slots : CountInv(s)

-----------------------------------------------------------------------------
LEMMA ResultTypes ==
  ASSUME TypeInv
  PROVE  /\ jobq \in [Slots -> JobRecord] /\ head \in Slots /\ tail \in Slots
         /\ submitted \in Nat /\ popJob.id \in Slots /\ popJob.nodes \in Int /\ i \in Nat /\ resId \in Slots
         /\ resPc # "idle" => resNode # 0
         /\ jobnodes \in [Slots -> Int] /\ resTmp \in Int /\ \A p \in pieces : p.id \in Slots
BY DEF TypeInv, TypeOK, TakenJob, Piece

LEMMA OnFinite ==
  ASSUME OwnerInv, NEW s
  PROVE  IsFiniteSet(On(s)) /\ Cardinality(On(s)) \in Nat /\ Due(s) \in Nat
         /\ (On(s) = {} <=> Cardinality(On(s)) = 0)
<1>1. On(s) \in SUBSET pieces
  BY DEF On
<1>2. IsFiniteSet(On(s))
  BY <1>1, FS_Subset DEF OwnerInv
<1>3. Cardinality(On(s)) \in Nat /\ (On(s) = {} <=> Cardinality(On(s)) = 0)
  BY <1>2, FS_CardinalityType, FS_EmptySet
<1> QED BY <1>2, <1>3 DEF Due

\* Of a job that was not taken nothing is out.
LEMMA NothingOut ==
  ASSUME OwnerInv, NEW s \in Slots, ~Taken(s)
  PROVE  On(s) = {} /\ (s \notin recounted => Due(s) = 0)
<1>1. On(s) = {}
  BY DEF OwnerInv, On
<1>2. Cardinality(On(s)) = 0
  BY <1>1, OnFinite
<1> QED BY <1>1, <1>2 DEF OwnerInv, Due

LEMMA ResultInit == Init => ResultInv
<1> SUFFICES ASSUME Init PROVE ResultInv
  OBVIOUS
<1>1. /\ \A s \in Slots : jobq[s].stat = "UNKNOWN" /\ ~Taken(s) /\ jobnodes[s] = 0
      /\ popPc = "init" /\ resPc = "idle" /\ resNode = 0 /\ monPc = "idle" /\ submitted = 0 /\ pieces = {}
  BY DEF Init, Taken
<1>2. StageInv
  BY <1>1, QSizeAssumption DEF StageInv, Taking, Slots
<1>3. OwnerInv /\ SentInv
  BY <1>1, FS_EmptySet DEF OwnerInv, SentInv, LaunchPc
<1>4. \A s \in Slots : CountInv(s)
  BY <1>1 DEF CountInv, DrainInv, Launched
<1> QED BY <1>2, <1>3, <1>4 DEF ResultInv

\* A step that neither takes a job nor touches what is booked.
LEMMA SameBooks ==
  ASSUME ResultInv, UNCHANGED <<pieces, jobnodes, popPc, popJob, i, resVars>>,
         \A s \in Slots : (Taken(s)' <=> Taken(s)) /\ (jobq'[s].stat = "FINISHED" => jobq[s].stat = "FINISHED"),
         TypeInv
  PROVE  OwnerInv' /\ SentInv' /\ \A s \in Slots : CountInv(s)'
<1>1. \A s : On(s)' = On(s) /\ Due(s)' = Due(s) /\ (Launching(s)' <=> Launching(s))
  BY DEF On, Due, Launching, resVars
<1>2. \A s \in Slots : Launched(s)' <=> Launched(s)
  BY <1>1 DEF Launched
<1>3. OwnerInv'
  BY ResultTypes DEF ResultInv, OwnerInv, resVars, pastVars
<1>4. SentInv'
  BY <1>1 DEF ResultInv, SentInv, resVars, pastVars
<1>5. \A s \in Slots : CountInv(s)'
  BY <1>1, <1>2 DEF ResultInv, CountInv, DrainInv, resVars, pastVars
<1> QED BY <1>3, <1>4, <1>5

-----------------------------------------------------------------------------
(* The monitor thread: a submission fills a slot that was never used.      *)

LEMMA ResultPush ==
  ASSUME TypeInv, ResultInv, PushHead, MaxJobs <= QSize
  PROVE  ResultInv'
<1>0. /\ jobq' = [jobq EXCEPT ![head].stat = "INQUEUE", ![head].id = head]
      /\ head' = NextSlot(head) /\ submitted' = submitted + 1 /\ monPc = "pushHead" /\ monPc' = "idle"
      /\ UNCHANGED <<tail, pieces, jobnodes, popPc, popJob, i, resVars>>
  BY DEF PushHead, nodeVars, popVars
<1>1. submitted < QSize /\ head = submitted /\ head \in Slots /\ tail \in Slots /\ tail <= head
      /\ submitted \in Nat
  BY <1>0, ResultTypes DEF ResultInv, StageInv, TypeInv, SlotsFilled
<1>2. jobq'[head].stat = "INQUEUE" /\ \A s \in Slots \ {head} : jobq'[s].stat = jobq[s].stat
  BY <1>0, <1>1, ResultTypes DEF JobRecord
<1>3. jobq[head].stat = "UNKNOWN"
  BY <1>1 DEF ResultInv, StageInv
<1>4. \A s \in Slots : Taken(s)' <=> Taken(s)
  BY <1>2, <1>3 DEF Taken
<1>5. \A s \in Slots : jobq'[s].stat = "FINISHED" => jobq[s].stat = "FINISHED"
  BY <1>2
<1>6. submitted + 1 = QSize => head' = 0
  BY <1>0, <1>1, NextSlotCases
<1>7. \A s \in Slots : s < submitted => IF s < tail THEN Taken(s) ELSE jobq[s].stat = "INQUEUE"
  BY <1>1 DEF ResultInv, StageInv
<1>8. \A s \in Slots : s < submitted + 1 => IF s < tail THEN Taken(s)' ELSE jobq'[s].stat = "INQUEUE"
  BY <1>1, <1>2, <1>4, <1>7 DEF Slots
<1>9. Taking' => tail < submitted + 1 /\ jobq'[tail].stat = "INQUEUE"
  <2> SUFFICES ASSUME Taking PROVE tail < submitted /\ jobq'[tail].stat = "INQUEUE"
    BY <1>0, <1>1 DEF Taking, Slots
  <2>1. tail < submitted /\ jobq[tail].stat = "INQUEUE"
    BY DEF ResultInv, StageInv
  <2> QED BY <1>1, <1>2, <2>1
<1>10. \A s \in Slots : s >= submitted + 1 => jobq'[s].stat = "UNKNOWN"
  BY <1>1, <1>2 DEF ResultInv, StageInv, Slots
<1>11. StageInv'
  <2>1. Taking' => tail' < submitted' /\ jobq'[tail'].stat = "INQUEUE"
    BY <1>0, <1>9 DEF Taking
  <2>2. popPc' \in {"takeNodes", "takeTail"} => popJob'.id = tail'
    BY <1>0 DEF ResultInv, StageInv
  <2>3. submitted' <= QSize /\ (submitted' = QSize => head' = 0)
    BY <1>0, <1>1, <1>6, QSizeAssumption
  <2>4. \A s \in Slots : s < submitted' => IF s < tail' THEN Taken(s)' ELSE jobq'[s].stat = "INQUEUE"
    BY <1>0, <1>8
  <2> QED BY <1>0, <1>10, <2>1, <2>2, <2>3, <2>4 DEF StageInv
<1> QED BY <1>0, <1>4, <1>5, <1>11, SameBooks DEF ResultInv

\* Steps after which the queue is as it was.
LEMMA SameStage ==
  ASSUME TypeInv, StageInv, UNCHANGED <<head, tail, submitted>>,
         (popPc' = popPc /\ popJob' = popJob) \/ popPc' \notin {"takeComm", "takeNodes", "takeTail"},
         monPc' \in {"unlockAgain", "lock", "pushComm", "pushNodes", "pushHead"} => submitted < QSize,
         \A s \in Slots : (Taken(s)' <=> Taken(s)) /\
                          (jobq[s].stat \in {"UNKNOWN", "INQUEUE"} => jobq'[s].stat = jobq[s].stat)
  PROVE  StageInv'
<1>1. Taking' => tail < submitted /\ jobq'[tail].stat = "INQUEUE"
  BY ResultTypes DEF StageInv, Taking
<1>2. popPc' \in {"takeNodes", "takeTail"} => popJob'.id = tail
  BY DEF StageInv
<1>3. \A s \in Slots : s >= submitted => jobq'[s].stat = "UNKNOWN"
  BY DEF StageInv
<1>4. \/ \A s \in Slots : s < submitted => IF s < tail THEN Taken(s)' ELSE jobq'[s].stat = "INQUEUE"
      \/ submitted = QSize /\ tail = 0 /\ \A s \in Slots : Taken(s)'
  BY DEF StageInv
<1> QED BY <1>1, <1>2, <1>3, <1>4 DEF StageInv

LEMMA ResultMonitor ==
  ASSUME MaxJobs <= QSize
  PROVE  TypeInv /\ ResultInv /\ Monitor => ResultInv'
<1> SUFFICES ASSUME TypeInv, ResultInv, Monitor PROVE ResultInv'
  OBVIOUS
<1>1. CASE ~PushHead
  <2>1. /\ UNCHANGED <<head, tail, submitted, pieces, jobnodes, popVars, resVars>>
        /\ monPc' \in {"unlockAgain", "lock", "pushComm", "pushNodes", "pushHead"} =>
             submitted < MaxJobs \/ monPc \in {"unlockAgain", "lock", "pushComm", "pushNodes"}
    BY <1>1 DEF Monitor, Submit, Cancel, Query, SubmitCheck, SubmitUnlockAgain, SubmitLock,
                PushComm, PushNodes, CancelLock, CancelScan, CancelSendFails, CancelUnlock, QueryLock,
                QueryRead, QueryUnlock, queueVars, nodeVars
  <2>2. \A s \in Slots : jobq'[s].stat = jobq[s].stat
    <3>1. CASE PushComm
      BY <3>1, ResultTypes DEF PushComm, JobRecord
    <3>2. CASE PushNodes
      BY <3>2, ResultTypes DEF PushNodes, JobRecord
    <3>3. CASE ~PushComm /\ ~PushNodes
      BY <1>1, <3>3 DEF Monitor, Submit, Cancel, Query, SubmitCheck, SubmitUnlockAgain, SubmitLock,
                        CancelLock, CancelScan, CancelSendFails, CancelUnlock, QueryLock, QueryRead,
                        QueryUnlock, queueVars
    <3> QED BY <3>1, <3>2, <3>3
  <2>3. \A s \in Slots : Taken(s)' <=> Taken(s)
    BY <2>2 DEF Taken
  <2>4. monPc' \in {"unlockAgain", "lock", "pushComm", "pushNodes", "pushHead"} => submitted < QSize
    BY <2>1, ResultTypes, BoundsAssumption, QSizeAssumption DEF ResultInv, StageInv
  <2>5. StageInv'
    BY <2>1, <2>2, <2>3, <2>4, SameStage DEF ResultInv, popVars
  <2> QED BY <2>1, <2>2, <2>3, <2>5, SameBooks DEF ResultInv, popVars
<1> QED BY <1>1, ResultPush

-----------------------------------------------------------------------------
(* The pop thread.                                                         *)

\* Steps that leave the queue's statuses, the pieces and jobnodes alone.
LEMMA SameSlots ==
  ASSUME TypeInv, ResultInv, UNCHANGED <<queueVars, monVars, pieces, jobnodes, resVars>>
  PROVE  /\ \A s \in Slots : Taken(s)' <=> Taken(s)
         /\ \A s : On(s)' = On(s) /\ Due(s)' = Due(s)
         /\ popPc' \in LaunchPc /\ popPc \in LaunchPc /\ popJob' = popJob
              => OwnerInv' /\ \A s \in Slots : CountInv(s)'
         /\ popPc' \notin LaunchPc /\ popPc \notin LaunchPc
              => OwnerInv' /\ SentInv' /\ \A s \in Slots : CountInv(s)'
<1>1. \A s \in Slots : Taken(s)' <=> Taken(s)
  BY DEF Taken, queueVars
<1>2. \A s : On(s)' = On(s) /\ Due(s)' = Due(s)
  BY DEF On, Due, resVars
<1>3. ASSUME \/ popPc' \in LaunchPc /\ popPc \in LaunchPc /\ popJob' = popJob
             \/ popPc' \notin LaunchPc /\ popPc \notin LaunchPc
      PROVE  OwnerInv' /\ \A s \in Slots : CountInv(s)'
  <2>1. \A s \in Slots : Launched(s)' <=> Launched(s)
    BY <1>1, <1>3 DEF Launched, Launching
  <2>2. OwnerInv'
    BY <1>1, <1>3, ResultTypes DEF ResultInv, OwnerInv, resVars, pastVars
  <2>3. \A s \in Slots : CountInv(s)'
    BY <1>2, <2>1 DEF ResultInv, CountInv, DrainInv, queueVars, resVars, pastVars
  <2> QED BY <2>2, <2>3
<1>4. popPc' \notin LaunchPc => SentInv'
  BY DEF SentInv, LaunchPc
<1>5. ASSUME popPc' \in LaunchPc, popPc \in LaunchPc, popJob' = popJob
      PROVE  OwnerInv' /\ \A s \in Slots : CountInv(s)'
  BY <1>3, <1>5
<1>6. ASSUME popPc' \notin LaunchPc, popPc \notin LaunchPc
      PROVE  OwnerInv' /\ SentInv' /\ \A s \in Slots : CountInv(s)'
  BY <1>3, <1>4, <1>6
<1> QED BY <1>1, <1>2, <1>5, <1>6

\* The queue's end at which the pop thread finds a job has one.
LEMMA NextWaits ==
  ASSUME TypeInv, StageInv, ~QueueEmpty
  PROVE  tail < submitted /\ jobq[tail].stat = "INQUEUE"
<1>1. tail \in Slots /\ head \in Slots /\ submitted \in Nat
  BY ResultTypes
<1>2. tail # head
  BY DEF QueueEmpty
<1>3. CASE submitted < QSize
  <2>1. tail < submitted
    BY <1>1, <1>2, <1>3 DEF TypeInv, SlotsFilled, Slots
  <2> QED BY <1>1, <1>3, <2>1 DEF StageInv, Slots
<1>4. CASE submitted = QSize
  <2>1. tail # 0 /\ tail < submitted
    BY <1>1, <1>2, <1>4 DEF StageInv, Slots
  <2> QED BY <1>1, <2>1 DEF StageInv, Slots
<1> QED BY <1>1, <1>3, <1>4, QSizeAssumption DEF StageInv

LEMMA ResultPopLock == TypeInv /\ ResultInv /\ (PopInit \/ PopLock \/ PopTakeComm \/ PopTakeNodes) => ResultInv'
<1> SUFFICES ASSUME TypeInv, ResultInv, PopInit \/ PopLock \/ PopTakeComm \/ PopTakeNodes PROVE ResultInv'
  OBVIOUS
<1>1. /\ UNCHANGED <<queueVars, monVars, pieces, jobnodes, resVars>>
      /\ popPc' \notin LaunchPc /\ popPc \notin LaunchPc
  BY DEF PopInit, PopLock, PopTakeComm, PopTakeNodes, nodeVars, LaunchPc
<1>2. OwnerInv' /\ SentInv' /\ \A s \in Slots : CountInv(s)'
  BY <1>1, SameSlots
<1>3. \A s \in Slots : Taken(s)' <=> Taken(s)
  BY <1>1, SameSlots
<1>4. Taking' => tail < submitted /\ jobq[tail].stat = "INQUEUE"
  BY NextWaits DEF PopInit, PopLock, PopTakeComm, PopTakeNodes, Taking, ResultInv, StageInv
<1>5. popPc' \in {"takeNodes", "takeTail"} => popJob'.id = tail
  <2>1. CASE PopTakeComm
    <3>1. tail < submitted /\ tail \in Slots
      BY <2>1, ResultTypes DEF PopTakeComm, Taking, ResultInv, StageInv
    <3>2. jobq[tail].id = tail
      BY <3>1 DEF TypeInv, SlotsFilled
    <3> QED BY <2>1, <3>2 DEF PopTakeComm
  <2>2. CASE PopTakeNodes
    <3>1. popJob.id = tail
      BY <2>2 DEF PopTakeNodes, ResultInv, StageInv
    <3>2. popJob \in TakenJob
      BY DEF TypeInv, TypeOK
    <3> QED BY <2>2, <3>1, <3>2 DEF PopTakeNodes, TakenJob
  <2> QED BY <2>1, <2>2 DEF PopInit, PopLock
<1>6. StageInv'
  <2>1. UNCHANGED <<jobq, head, tail, submitted, monPc>>
    BY <1>1 DEF queueVars, monVars
  <2> QED BY <1>3, <1>4, <1>5, <2>1 DEF ResultInv, StageInv, Taking
<1> QED BY <1>2, <1>6 DEF ResultInv

LEMMA ResultPopTakeTail == TypeInv /\ ResultInv /\ PopTakeTail => ResultInv'
<1> SUFFICES ASSUME TypeInv, ResultInv, PopTakeTail PROVE ResultInv'
  OBVIOUS
<1>1. /\ jobq' = [jobq EXCEPT ![tail] = Started(@)] /\ tail' = NextSlot(tail) /\ i' = 1
      /\ popPc = "takeTail" /\ popPc' \in {"count", "idle"}
      /\ UNCHANGED <<head, submitted, pieces, jobnodes, popJob, monVars, resVars>>
  BY DEF PopTakeTail, nodeVars
<1>2. /\ tail \in Slots /\ submitted \in Nat /\ tail < submitted /\ submitted <= QSize
      /\ jobq[tail].stat = "INQUEUE" /\ popJob.id = tail
  BY <1>1, ResultTypes DEF ResultInv, StageInv, Taking
<1>3. jobq'[tail].stat = "RUNNING" /\ \A s \in Slots \ {tail} : jobq'[s].stat = jobq[s].stat
  BY <1>1, <1>2, ResultTypes DEF Started, JobRecord
<1>4. /\ ~Taken(tail) /\ \A s \in Slots : s = tail => Taken(s)'
      /\ \A s \in Slots : s # tail => (Taken(s)' <=> Taken(s))
  <2>1. ~Taken(tail)
    BY <1>2 DEF Taken
  <2>2. \A s \in Slots : s = tail => Taken(s)'
    BY <1>3 DEF Taken
  <2>3. \A s \in Slots : s # tail => (Taken(s)' <=> Taken(s))
    BY <1>3 DEF Taken
  <2> QED BY <2>1, <2>2, <2>3
<1>5. \A s : On(s)' = On(s) /\ Due(s)' = Due(s)
  BY <1>1 DEF On, Due, resVars
<1>6. On(tail) = {} /\ (tail \notin recounted => Due(tail) = 0)
  BY <1>2, <1>4, NothingOut DEF ResultInv
<1>7. StageInv'
  <2>1. \A s \in Slots : s < submitted => IF s < tail THEN Taken(s) ELSE jobq[s].stat = "INQUEUE"
    BY <1>2, <1>4 DEF ResultInv, StageInv
  <2>2. CASE tail + 1 < QSize
    <3>1. tail' = tail + 1
      BY <1>1, <1>2, <2>2, NextSlotCases
    <3>2. \A s \in Slots : s < submitted => IF s < tail + 1 THEN Taken(s)' ELSE jobq'[s].stat = "INQUEUE"
      BY <1>2, <1>3, <1>4, <2>1 DEF Slots
    <3> QED BY <1>1, <1>2, <1>3, <3>1, <3>2 DEF ResultInv, StageInv, Taking, monVars
  <2>3. CASE tail + 1 >= QSize
    <3>1. tail' = 0 /\ submitted = QSize
      BY <1>1, <1>2, <2>3, NextSlotCases, QSizeAssumption DEF Slots
    <3>2. \A s \in Slots : Taken(s)'
      BY <1>2, <1>4, <2>1, <2>3, <3>1, QSizeAssumption DEF Slots
    <3> QED BY <1>1, <1>2, <1>3, <3>1, <3>2 DEF ResultInv, StageInv, Taking, monVars
  <2> QED BY <1>2, <2>2, <2>3, QSizeAssumption DEF Slots
<1>8. OwnerInv'
  <2>1. \A s \in Slots : Taken(s) => Taken(s)'
    BY <1>4
  <2> QED BY <1>1, <1>2, <1>4, <2>1, ResultTypes DEF ResultInv, OwnerInv, resVars, pastVars
<1>9. SentInv'
  <2>1. tail \notin recounted => Due(tail) = 0
    BY <1>6
  <2> QED BY <1>1, <1>2, <1>5, <2>1 DEF SentInv, resVars, pastVars
<1>10. ASSUME NEW s \in Slots PROVE CountInv(s)'
  <2>1. CASE s = tail
    <3>1. ~Launched(s) /\ jobq'[s].stat = "RUNNING" /\ On(s)' = {}
      BY <1>3, <1>4, <1>5, <1>6, <2>1 DEF Launched
    <3>2. \/ ~Launched(s)'
          \/ Launched(s)'
      OBVIOUS
    <3>3. /\ jobnodes[s] <= 0 /\ (resPc = "test" /\ resId = s => jobnodes[s] < 0)
          /\ (resPc \in {"store", "test"} /\ resId = s => ~(resTmp >= 0))
          /\ (resPc \in {"lock", "finish"} => resId # s)
      BY <3>1 DEF ResultInv, CountInv
    <3> QED BY <1>1, <3>1, <3>2, <3>3 DEF CountInv, DrainInv, resVars, pastVars
  <2>2. CASE s # tail
    <3>1. Launched(s)' <=> Launched(s)
      BY <1>1, <1>2, <1>4, <2>2 DEF Launched, Launching, LaunchPc
    <3> QED BY <1>1, <1>3, <1>5, <2>2, <3>1 DEF ResultInv, CountInv, DrainInv, resVars, pastVars
  <2> QED BY <2>1, <2>2
<1> QED BY <1>7, <1>8, <1>9, <1>10 DEF ResultInv

\* Steps of the launch that send nothing.
LEMMA ResultPopPlace ==
  ASSUME TypeInv, ResultInv,
         PopCount \/ PopDecide \/ PopClaim \/ PopSkip \/ PopNoNode \/ PopSendFails
  PROVE  ResultInv'
<1>1. /\ UNCHANGED <<queueVars, monVars, pieces, jobnodes, resVars>>
      /\ popPc' \in LaunchPc /\ popPc \in LaunchPc /\ popJob' = popJob
  BY DEF PopCount, PopDecide, PopClaim, PopSkip, PopNoNode, PopSendFails, NextPiece, nodeVars,
         LaunchPc
<1>2. OwnerInv' /\ \A s \in Slots : CountInv(s)'
  BY <1>1, SameSlots
<1>3. StageInv'
  <2>1. \A s \in Slots : Taken(s)' <=> Taken(s)
    BY <1>1, SameSlots
  <2>2. UNCHANGED <<jobq, head, tail, submitted, monPc>>
    BY <1>1 DEF queueVars, monVars
  <2> QED BY <1>1, <2>1, <2>2 DEF ResultInv, StageInv, Taking, LaunchPc
<1>4. SentInv'
  <2>1. /\ Due(popJob.id)' = Due(popJob.id) /\ Due(popJob.id) \in Nat /\ popJob.nodes \in Int /\ i \in Nat
        /\ recounted' = recounted
    BY <1>1, SameSlots, ResultTypes, OnFinite DEF ResultInv, resVars, pastVars
  <2>2. CASE PopCount
    BY <1>1, <2>1, <2>2 DEF PopCount, ResultInv, SentInv
  <2>3. CASE PopDecide
    BY <1>1, <2>1, <2>3 DEF PopDecide, ResultInv, SentInv
  <2>4. CASE PopClaim \/ PopSkip
    BY <1>1, <2>1, <2>4 DEF PopClaim, PopSkip, ResultInv, SentInv
  <2>5. CASE PopNoNode
    BY <1>1, <2>1, <2>5 DEF PopNoNode, NextPiece, ResultInv, SentInv
  <2>6. CASE PopSendFails
    BY <2>6 DEF PopSendFails, SentInv
  <2> QED BY <2>2, <2>3, <2>4, <2>5, <2>6
<1> QED BY <1>2, <1>3, <1>4 DEF ResultInv

LEMMA ResultPopSend == TypeInv /\ ResultInv /\ PopSend => ResultInv'
<1> SUFFICES ASSUME TypeInv, ResultInv, PopSend PROVE ResultInv'
  OBVIOUS
<1>1. /\ pieces' = pieces \cup {Dispatch} /\ NextPiece /\ popPc = "send"
      /\ UNCHANGED <<queueVars, jobnodes, popJob, monVars, resVars>>
  BY DEF PopSend
<1>2. popPc' \in LaunchPc /\ Taken(popJob.id) /\ popJob.id \in Slots /\ Dispatch.id = popJob.id
  BY <1>1, ResultTypes DEF NextPiece, LaunchPc, ResultInv, OwnerInv, Dispatch
<1>3. \A s \in Slots : (Taken(s)' <=> Taken(s)) /\ (Launched(s)' <=> Launched(s))
  BY <1>1, <1>2 DEF Taken, Launched, Launching, LaunchPc, queueVars
<1>4. OwnerInv'
  <2>1. IsFiniteSet(pieces')
    BY <1>1, FS_AddElement DEF ResultInv, OwnerInv
  <2>2. \A p \in pieces' : Taken(p.id)'
    BY <1>1, <1>2, <1>3, ResultTypes DEF ResultInv, OwnerInv
  <2> QED BY <1>1, <1>2, <1>3, <2>1, <2>2, ResultTypes DEF ResultInv, OwnerInv, resVars, pastVars
<1>5. \A s \in Slots : s # popJob.id => On(s)' = On(s) /\ Due(s)' = Due(s)
  BY <1>1, <1>2 DEF On, Due, resVars
<1>6. Due(popJob.id)' <= Due(popJob.id) + 1 /\ Due(popJob.id)' \in Nat
  <2> DEFINE A == On(popJob.id)
  <2>1. On(popJob.id)' = A \cup {Dispatch}
    BY <1>1, <1>2 DEF On
  <2>2. IsFiniteSet(A) /\ Cardinality(A) \in Nat
    BY OnFinite DEF ResultInv
  <2>3. Cardinality(A \cup {Dispatch}) \in Nat /\ Cardinality(A \cup {Dispatch}) <= Cardinality(A) + 1
    <3> HIDE DEF A
    <3>1. Cardinality(A \cup {Dispatch}) = IF Dispatch \in A THEN Cardinality(A) ELSE Cardinality(A) + 1
      BY <2>2, FS_AddElement
    <3> QED BY <2>2, <3>1
  <2>4. UNCHANGED <<resPc, resId, popJob>>
    BY <1>1 DEF resVars
  <2> HIDE DEF A
  <2>5. Due(popJob.id) = Cardinality(A) + (IF resPc \in {"load", "store"} /\ resId = popJob.id THEN 1 ELSE 0)
    BY DEF Due, A
  <2>6. Due(popJob.id)' = Cardinality(A \cup {Dispatch})
                          + (IF resPc \in {"load", "store"} /\ resId = popJob.id THEN 1 ELSE 0)
    BY <2>1, <2>4 DEF Due
  <2> QED BY <2>2, <2>3, <2>5, <2>6
<1>7. SentInv'
  BY <1>1, <1>6, ResultTypes, OnFinite DEF NextPiece, ResultInv, SentInv, resVars, pastVars
<1>8. ASSUME NEW s \in Slots PROVE CountInv(s)'
  <2>1. CASE s = popJob.id
    <3>1. ~Launched(s)
      BY <1>1, <2>1 DEF Launched, Launching, LaunchPc
    <3> QED BY <1>1, <1>3, <3>1 DEF ResultInv, CountInv, DrainInv, queueVars, resVars, pastVars
  <2>2. CASE s # popJob.id
    BY <1>1, <1>3, <1>5, <2>2 DEF ResultInv, CountInv, DrainInv, queueVars, resVars, pastVars
  <2> QED BY <2>1, <2>2
<1>9. StageInv'
  BY <1>1, <1>2, <1>3 DEF ResultInv, StageInv, Taking, LaunchPc, queueVars, monVars
<1> QED BY <1>4, <1>7, <1>8, <1>9 DEF ResultInv

LEMMA ResultPopLaunched == TypeInv /\ ResultInv /\ PopLaunched => ResultInv'
<1> SUFFICES ASSUME TypeInv, ResultInv, PopLaunched PROVE ResultInv'
  OBVIOUS
<1>1. /\ popPc = "launched" /\ popPc' = "idle" /\ popPc \in LaunchPc /\ popPc' \notin LaunchPc
      /\ jobnodes' = [jobnodes EXCEPT ![popJob.id] = popJob.nodes]
      /\ UNCHANGED <<queueVars, pieces, popJob, monVars, resVars>>
  BY DEF PopLaunched, nodeVars, LaunchPc
<1>2. popJob.id \in Slots /\ popJob.nodes \in Int
  BY ResultTypes
<1>3. \A s \in Slots : Taken(s)' <=> Taken(s)
  BY <1>1 DEF Taken, queueVars
<1>4. \A s : On(s)' = On(s) /\ Due(s)' = Due(s)
  BY <1>1 DEF On, Due, resVars
<1>5. \A s \in Slots : s # popJob.id => jobnodes'[s] = jobnodes[s] /\ (Launched(s)' <=> Launched(s))
  BY <1>1, <1>3, ResultTypes DEF Launched, Launching
<1>6. jobnodes'[popJob.id] = popJob.nodes /\ Launched(popJob.id)' /\ ~Launched(popJob.id)
  BY <1>1, <1>2, <1>3, ResultTypes DEF Launched, Launching, ResultInv, OwnerInv
<1>7. OwnerInv' /\ SentInv'
  BY <1>1, <1>3, ResultTypes DEF ResultInv, OwnerInv, SentInv, resVars, pastVars
<1>8. StageInv'
  BY <1>1, <1>3 DEF ResultInv, StageInv, Taking, queueVars, monVars
<1>9. ASSUME NEW s \in Slots PROVE CountInv(s)'
  <2>1. CASE s = popJob.id
    <3>1. s \notin recounted => popJob.nodes < 0 \/ popJob.nodes >= Due(s)
      BY <1>1, <1>2, <2>1, OnFinite DEF ResultInv, SentInv
    <3>2. /\ jobq[s].stat # "FINISHED" /\ (resPc \in {"lock", "finish"} => resId # s)
          /\ (resPc \in {"store", "test"} /\ resId = s => ~(resTmp >= 0))
      BY <1>6, <2>1 DEF ResultInv, CountInv
    <3> QED BY <1>1, <1>4, <1>6, <2>1, <3>1, <3>2
            DEF CountInv, DrainInv, queueVars, resVars, pastVars
  <2>2. CASE s # popJob.id
    BY <1>1, <1>4, <1>5, <2>2
       DEF ResultInv, CountInv, DrainInv, queueVars, resVars, pastVars
  <2> QED BY <2>1, <2>2
<1> QED BY <1>7, <1>8, <1>9 DEF ResultInv

-----------------------------------------------------------------------------
(* The result thread.                                                      *)

\* Steps of the result thread that leave the queue alone.
LEMMA ResultQuiet ==
  ASSUME TypeInv, ResultInv, UNCHANGED <<queueVars, monVars, popVars>>
  PROVE  StageInv' /\ \A s \in Slots : (Taken(s)' <=> Taken(s)) /\ (Launched(s)' <=> Launched(s))
<1>1. \A s \in Slots : (Taken(s)' <=> Taken(s)) /\ (Launched(s)' <=> Launched(s))
  BY DEF Taken, Launched, Launching, queueVars, popVars
<1>2. StageInv'
  BY <1>1 DEF ResultInv, StageInv, Taking, queueVars, popVars, monVars
<1> QED BY <1>1, <1>2

LEMMA ResultResRecv ==
  ASSUME TypeInv, ResultInv, NEW p, ResultRecv(p)
  PROVE  ResultInv'
<1>1. /\ p \in pieces /\ pieces' = pieces \ {p} /\ resPc = "idle" /\ resPc' = "load" /\ resId' = p.id
      /\ UNCHANGED <<queueVars, monVars, popVars, jobnodes, recounted>> /\ resNode' = p.node
      /\ p.node # 0
  BY DEF ResultRecv, BookResult, pastVars, TypeInv, TypeOK, Piece, Hosts
<1>2. StageInv' /\ \A s \in Slots : (Taken(s)' <=> Taken(s)) /\ (Launched(s)' <=> Launched(s))
  BY <1>1, ResultQuiet
<1>3. p.id \in Slots
  BY <1>1, ResultTypes
<1>4. \A s : s # p.id => On(s)' = On(s) /\ Due(s)' = Due(s)
  BY <1>1 DEF On, Due
<1>5. ASSUME NEW s, s = p.id PROVE Due(s)' = Due(s)
  <2> DEFINE A == On(s)
  <2>1. On(s)' = A \ {p} /\ p \in A
    BY <1>1, <1>5 DEF On
  <2>2. IsFiniteSet(A) /\ Cardinality(A) \in Nat
    BY OnFinite DEF ResultInv
  <2>3. Cardinality(A \ {p}) = Cardinality(A) - 1
    <3> HIDE DEF A
    <3> QED BY <2>1, <2>2, FS_RemoveElement
  <2>4. Due(s) = Cardinality(A)
    BY <1>1, <2>2 DEF Due
  <2>5. Due(s)' = Cardinality(A \ {p}) + 1
    BY <1>1, <1>5, <2>1 DEF Due
  <2> HIDE DEF A
  <2> QED BY <2>2, <2>3, <2>4, <2>5
<1>6. OwnerInv'
  <2>1. IsFiniteSet(pieces')
    BY <1>1, FS_Subset DEF ResultInv, OwnerInv
  <2> QED BY <1>1, <1>2, <1>3, <2>1, ResultTypes DEF ResultInv, OwnerInv, popVars
<1>7. SentInv'
  <2>1. Due(popJob.id)' = Due(popJob.id)
    <3>1. popJob' = popJob
      BY <1>1 DEF popVars
    <3>2. \A s : Due(s)' = Due(s)
      BY <1>4, <1>5
    <3> QED BY <3>1, <3>2
  <2> QED BY <1>1, <2>1 DEF ResultInv, SentInv, popVars
<1>8. ASSUME NEW s \in Slots PROVE CountInv(s)'
  <2>1. Due(s)' = Due(s)
    BY <1>4, <1>5
  <2>2. On(s) = {} => On(s)' = {}
    BY <1>1 DEF On
  <2> QED BY <1>1, <1>2, <2>1, <2>2 DEF ResultInv, CountInv, DrainInv, queueVars
<1> QED BY <1>2, <1>6, <1>7, <1>8 DEF ResultInv

\* An empty receive books a job of which nothing is on a node or will be, or puts
\* that job among those counted too early.
LEMMA ResultResEmpty ==
  ASSUME TypeInv, ResultInv, Up, NEW n \in Hosts, NEW r \in Slots, ResultEmpty(n, r)
  PROVE  ResultInv'
<1>1. /\ resPc = "idle" /\ resPc' = "load" /\ resId' = r /\ resNode' = n /\ n # 0
      /\ resNode # 0 => r = resId
      /\ recounted' = IF resNode = 0 \/ AtWork(r) THEN recounted \cup {r} ELSE recounted
      /\ UNCHANGED <<queueVars, monVars, popVars, jobnodes, pieces>>
  BY DEF ResultEmpty, BookResult, Hosts
<1>2. StageInv' /\ \A s \in Slots : (Taken(s)' <=> Taken(s)) /\ (Launched(s)' <=> Launched(s))
  BY <1>1, ResultQuiet
<1>3. \A s : On(s)' = On(s) /\ (s # r => Due(s)' = Due(s))
  BY <1>1 DEF On, Due
<1>4. r \notin recounted' => On(r) = {} /\ ~Launching(r) /\ resNode # 0
  BY <1>1 DEF AtWork, PiecesOf, On, Launching, LaunchPc, Up
<1>5. OwnerInv'
  BY <1>1, <1>2, ResultTypes DEF ResultInv, OwnerInv, popVars
<1>6. SentInv'
  <2>1. UNCHANGED <<popPc, popJob, i>> /\ recounted \subseteq recounted'
    BY <1>1 DEF popVars
  <2>2. ASSUME popPc \in LaunchPc, popJob.id \notin recounted'
        PROVE  Due(popJob.id)' = Due(popJob.id)
    BY <1>3, <1>4, <2>1, <2>2 DEF Launching
  <2> QED BY <2>1, <2>2 DEF ResultInv, SentInv, LaunchPc
<1>7. ASSUME NEW s \in Slots PROVE CountInv(s)'
  <2>1. ASSUME s \notin recounted' PROVE DrainInv(s)'
    <3>1. CASE s = r
      BY <1>1, <1>2, <1>3, <1>4, <2>1, <3>1 DEF ResultInv, CountInv, DrainInv, queueVars
    <3>2. CASE s # r
      BY <1>1, <1>2, <1>3, <2>1, <3>2 DEF ResultInv, CountInv, DrainInv, queueVars
    <3> QED BY <3>1, <3>2
  <2> QED BY <1>1, <1>2, <2>1 DEF ResultInv, CountInv, queueVars
<1> QED BY <1>2, <1>5, <1>6, <1>7 DEF ResultInv

LEMMA ResultResLoad == TypeInv /\ ResultInv /\ ResultLoad => ResultInv'
<1> SUFFICES ASSUME TypeInv, ResultInv, ResultLoad PROVE ResultInv'
  OBVIOUS
<1>1. /\ resPc = "load" /\ resPc' = "store" /\ resTmp' = jobnodes[resId] - 1
      /\ UNCHANGED <<queueVars, monVars, popVars, jobnodes, pieces, resId, resNode, recounted>>
  BY DEF ResultLoad, nodeVars, pastVars
<1>2. StageInv' /\ \A s \in Slots : (Taken(s)' <=> Taken(s)) /\ (Launched(s)' <=> Launched(s))
  BY <1>1, ResultQuiet
<1>3. \A s : On(s)' = On(s) /\ Due(s)' = Due(s)
  BY <1>1 DEF On, Due
<1>4. OwnerInv' /\ SentInv'
  BY <1>1, <1>2, <1>3, ResultTypes DEF ResultInv, OwnerInv, SentInv, popVars
<1>5. ASSUME NEW s \in Slots PROVE CountInv(s)'
  <2>1. ASSUME resId = s, resTmp' >= 0
        PROVE  Launched(s) /\ (s \notin recounted => resTmp' >= Cardinality(On(s)))
    <3>1. jobnodes[s] \in Int /\ jobnodes[s] >= 1 /\ resTmp' = jobnodes[s] - 1
      BY <1>1, <2>1, ResultTypes
    <3>2. Launched(s)
      BY <3>1 DEF ResultInv, CountInv
    <3>3. /\ Due(s) = Cardinality(On(s)) + 1 /\ Cardinality(On(s)) \in Nat
          /\ (On(s) = {} => Cardinality(On(s)) = 0)
      BY <1>1, <2>1, OnFinite DEF Due, ResultInv
    <3>4. s \notin recounted => On(s) = {} \/ jobnodes[s] >= Due(s)
      BY <3>1, <3>2 DEF ResultInv, CountInv, DrainInv
    <3> QED BY <3>1, <3>2, <3>3, <3>4
  <2>2. s \notin recounted => DrainInv(s)'
    BY <1>1, <1>2, <1>3, <2>1 DEF ResultInv, CountInv, DrainInv, queueVars
  <2> QED BY <1>1, <1>2, <2>1, <2>2 DEF ResultInv, CountInv, queueVars
<1> QED BY <1>2, <1>4, <1>5 DEF ResultInv

LEMMA ResultResStore == TypeInv /\ ResultInv /\ ResultStore => ResultInv'
<1> SUFFICES ASSUME TypeInv, ResultInv, ResultStore PROVE ResultInv'
  OBVIOUS
<1>1. /\ resPc = "store" /\ resPc' = "test" /\ UNCHANGED <<resId, resTmp, resNode, recounted>>
      /\ jobnodes' = [jobnodes EXCEPT ![resId] = resTmp]
      /\ UNCHANGED <<queueVars, monVars, popVars, pieces>>
  BY DEF ResultStore, nodeVars, pastVars
<1>2. StageInv' /\ \A s \in Slots : (Taken(s)' <=> Taken(s)) /\ (Launched(s)' <=> Launched(s))
  BY <1>1, ResultQuiet
<1>3. resId \in Slots /\ resTmp \in Int /\ jobnodes'[resId] = resTmp
      /\ \A s \in Slots : s # resId => jobnodes'[s] = jobnodes[s]
  BY <1>1, ResultTypes
<1>4. \A s : On(s)' = On(s) /\ Cardinality(On(s)) \in Nat
  BY <1>1, OnFinite DEF On, ResultInv
<1>5. \A s : Due(s)' = Cardinality(On(s)) /\ (s # resId => Due(s)' = Due(s)) /\ Due(s)' <= Due(s)
  BY <1>1, <1>4 DEF Due
<1>6. OwnerInv'
  BY <1>1, <1>2, ResultTypes DEF ResultInv, OwnerInv, popVars
<1>7. SentInv'
  <2>1. Due(popJob.id)' <= Due(popJob.id) /\ Due(popJob.id)' \in Nat /\ Due(popJob.id) \in Nat
    <3>1. popJob' = popJob
      BY <1>1 DEF popVars
    <3>2. \A s : Due(s)' <= Due(s) /\ Due(s)' \in Nat /\ Due(s) \in Nat
      BY <1>4, <1>5, OnFinite DEF ResultInv
    <3> QED BY <3>1, <3>2
  <2> QED BY <1>1, <2>1, ResultTypes DEF ResultInv, SentInv, popVars
<1>8. ASSUME NEW s \in Slots PROVE CountInv(s)'
  <2>1. CASE s = resId
    <3>1. resTmp < 0 \/ Launched(s)
      BY <1>1, <1>3, <2>1 DEF ResultInv, CountInv
    <3>2. s \notin recounted => DrainInv(s)'
      BY <1>1, <1>2, <1>3, <1>4, <1>5, <2>1 DEF ResultInv, CountInv, DrainInv, queueVars
    <3> QED BY <1>1, <1>2, <1>3, <2>1, <3>1, <3>2 DEF ResultInv, CountInv, queueVars
  <2>2. CASE s # resId
    <3>1. s \notin recounted => DrainInv(s)'
      BY <1>1, <1>2, <1>3, <1>4, <1>5, <2>2 DEF ResultInv, CountInv, DrainInv, queueVars
    <3> QED BY <1>1, <1>2, <1>3, <2>2, <3>1 DEF ResultInv, CountInv, queueVars
  <2> QED BY <2>1, <2>2
<1> QED BY <1>2, <1>6, <1>7, <1>8 DEF ResultInv

LEMMA ResultResTest == TypeInv /\ ResultInv /\ (ResultTest \/ ResultLock) => ResultInv'
<1> SUFFICES ASSUME TypeInv, ResultInv, ResultTest \/ ResultLock PROVE ResultInv'
  OBVIOUS
<1>1. /\ UNCHANGED <<queueVars, monVars, popVars, jobnodes, pieces, resId, resTmp, resNode, recounted>>
      /\ resPc \in {"test", "lock"} /\ resPc' \in {"idle", "lock", "finish"}
  BY DEF ResultTest, ResultLock, nodeVars, pastVars
<1>2. StageInv' /\ \A s \in Slots : (Taken(s)' <=> Taken(s)) /\ (Launched(s)' <=> Launched(s))
  BY <1>1, ResultQuiet
<1>3. \A s : On(s)' = On(s) /\ Due(s)' = Due(s) /\ Due(s) = Cardinality(On(s))
             /\ Cardinality(On(s)) \in Nat /\ (On(s) = {} <=> Cardinality(On(s)) = 0)
  <2>1. \A s : On(s)' = On(s) /\ Due(s)' = Due(s)
    BY <1>1 DEF On, Due
  <2>2. \A s : Cardinality(On(s)) \in Nat /\ (On(s) = {} <=> Cardinality(On(s)) = 0)
    BY OnFinite DEF ResultInv
  <2>3. \A s : Due(s) = Cardinality(On(s))
    BY <1>1, <2>2 DEF Due
  <2> QED BY <2>1, <2>2, <2>3
<1>4. OwnerInv' /\ SentInv'
  BY <1>1, <1>2, <1>3, ResultTypes DEF ResultInv, OwnerInv, SentInv, popVars
<1>5. ASSUME resPc' \in {"lock", "finish"}
      PROVE  Launched(resId) /\ (resId \notin recounted => On(resId) = {})
  <2>1. CASE ResultTest
    <3>1. resPc = "test" /\ \E left \in {resTmp, jobnodes[resId]} : left = 0
      BY <1>5, <2>1 DEF ResultTest, LastResult
    <3>2. Launched(resId)
      BY <3>1, ResultTypes DEF ResultInv, CountInv
    <3>3. CASE resTmp = 0
      BY <1>3, <3>1, <3>2, <3>3, ResultTypes DEF ResultInv, CountInv, DrainInv
    <3>4. CASE jobnodes[resId] = 0
      BY <1>3, <3>1, <3>2, <3>4, ResultTypes DEF ResultInv, CountInv, DrainInv
    <3> QED BY <3>1, <3>3, <3>4
  <2>2. CASE ResultLock
    BY <2>2, ResultTypes DEF ResultLock, ResultInv, CountInv, DrainInv
  <2> QED BY <2>1, <2>2
<1>6. ASSUME NEW s \in Slots PROVE CountInv(s)'
  <2>1. s \notin recounted => DrainInv(s)'
    BY <1>1, <1>2, <1>3, <1>5 DEF ResultInv, CountInv, DrainInv, queueVars
  <2> QED BY <1>1, <1>2, <1>5, <2>1 DEF ResultInv, CountInv, queueVars
<1> QED BY <1>2, <1>4, <1>6 DEF ResultInv

LEMMA ResultResFinish == TypeInv /\ ResultInv /\ ResultFinish => ResultInv'
<1> SUFFICES ASSUME TypeInv, ResultInv, ResultFinish PROVE ResultInv'
  OBVIOUS
<1>1. /\ resPc = "finish" /\ resPc' = "idle" /\ jobq' = [jobq EXCEPT ![resId].stat = "FINISHED"]
      /\ UNCHANGED <<head, tail, submitted, monVars, popVars, jobnodes, pieces, resId, resTmp, resNode,
                     recounted>>
  BY DEF ResultFinish, nodeVars, pastVars
<1>2. /\ resId \in Slots /\ Taken(resId) /\ Launched(resId)
      /\ resId \notin recounted => On(resId) = {}
  BY <1>1, ResultTypes DEF ResultInv, OwnerInv, CountInv, DrainInv, Launched
<1>3. jobq'[resId].stat = "FINISHED" /\ \A s \in Slots : s # resId => jobq'[s].stat = jobq[s].stat
  BY <1>1, <1>2, ResultTypes DEF JobRecord
<1>4. \A s \in Slots : (Taken(s)' <=> Taken(s))
  BY <1>2, <1>3 DEF Taken
<1>5. \A s \in Slots : jobq[s].stat \in {"UNKNOWN", "INQUEUE"} => jobq'[s].stat = jobq[s].stat
  BY <1>2, <1>3 DEF Taken
<1>6. \A s \in Slots : Launched(s)' <=> Launched(s)
  BY <1>1, <1>4 DEF Launched, Launching, popVars
<1>7. \A s : On(s)' = On(s) /\ Due(s)' = Due(s)
  BY <1>1 DEF On, Due
<1>8. StageInv'
  BY <1>1, <1>4, <1>5, SameStage DEF ResultInv, StageInv, popVars, monVars
<1>9. OwnerInv' /\ SentInv'
  BY <1>1, <1>4, <1>7, ResultTypes DEF ResultInv, OwnerInv, SentInv, popVars
<1>10. ASSUME NEW s \in Slots PROVE CountInv(s)'
  <2>1. s \notin recounted => DrainInv(s)'
    BY <1>1, <1>2, <1>3, <1>6, <1>7 DEF ResultInv, CountInv, DrainInv
  <2> QED BY <1>1, <1>2, <1>3, <1>6, <2>1 DEF ResultInv, CountInv
<1> QED BY <1>8, <1>9, <1>10 DEF ResultInv

-----------------------------------------------------------------------------
LEMMA ResultStep ==
  ASSUME MaxJobs <= QSize
  PROVE  TypeInv /\ ResultInv /\ [Next]_vars => ResultInv'
<1> SUFFICES ASSUME TypeInv, ResultInv, [Next]_vars PROVE ResultInv'
  OBVIOUS
<1>1. CASE Monitor
  BY <1>1, ResultMonitor
<1>2. CASE Pop
  BY <1>2, ResultPopLock, ResultPopTakeTail, ResultPopPlace, ResultPopSend, ResultPopLaunched DEF Pop
<1>3. CASE Up /\ Result
  <2>1. CASE Empty
    BY <1>3, <2>1, ResultResEmpty DEF Empty
  <2> QED BY <1>3, <2>1, ResultResRecv, ResultResLoad, ResultResStore, ResultResTest,
             ResultResFinish DEF Result, Book
<1>4. CASE UNCHANGED vars
  <2>1. UNCHANGED <<jobq, queueVars, monVars, popVars, resVars, pieces, jobnodes>>
    BY <1>4 DEF vars, nodeVars, queueVars
  <2>2. StageInv' /\ \A s \in Slots : Taken(s)' <=> Taken(s)
    BY <2>1, ResultQuiet
  <2> QED BY <2>1, <2>2, SameBooks DEF ResultInv, popVars, resVars
<1> QED BY <1>1, <1>2, <1>3, <1>4 DEF Next

\* What waits in the queue was not taken, and what is finished is out of it.
LEMMA ResultGivesReported == TypeInv /\ ResultInv => FinishedAllReported
<1> SUFFICES ASSUME TypeInv, ResultInv, NEW s \in Slots, jobq[s].stat = "FINISHED"
             PROVE  /\ s \notin Waiting
                    /\ s \in recounted \/ \A p \in pieces : p.id # s
                    /\ popPc \in LaunchPc => popJob.id # s
  BY DEF FinishedAllReported, LaunchPc
<1>1. Launched(s) /\ (s \in recounted \/ On(s) = {})
  BY DEF ResultInv, CountInv, DrainInv
<1>2. Taken(s)
  BY DEF Taken
<1>3. s \notin Waiting
  <2>1. s < submitted /\ submitted \in Nat /\ head \in Slots /\ tail \in Slots
    <3>1. submitted \in Nat /\ head \in Slots /\ tail \in Slots /\ s \in Nat
      BY ResultTypes DEF Slots
    <3>2. ~(s >= submitted)
      BY DEF ResultInv, StageInv
    <3> QED BY <3>1, <3>2
  <2>2. s < tail \/ (submitted = QSize /\ tail = 0)
    BY <2>1 DEF ResultInv, StageInv
  <2>3. submitted < QSize => tail <= head
    BY DEF TypeInv, SlotsFilled
  <2>4. submitted = QSize => head = 0
    BY DEF ResultInv, StageInv
  <2>5. submitted <= QSize
    BY DEF ResultInv, StageInv
  <2>6. CASE submitted < QSize
    BY <2>1, <2>2, <2>3, <2>6 DEF Waiting, Slots
  <2>7. CASE submitted = QSize
    BY <2>1, <2>2, <2>4, <2>7 DEF Waiting, Slots
  <2> QED BY <2>1, <2>5, <2>6, <2>7, QSizeAssumption
<1> QED BY <1>1, <1>3 DEF On, Launched, Launching

\* FinishedAllReported, for every schedule of the three threads in which no slot
\* is used for a second job, with every queue size, number of hosts and request,
\* and every pattern of empty receives.
THEOREM ReportedCorrect ==
  ASSUME MaxJobs <= QSize
  PROVE  Spec => []FinishedAllReported
<1>1. Init => TypeInv /\ ResultInv
  BY TypeInit, ResultInit
<1>2. TypeInv /\ ResultInv /\ [Next]_vars => (TypeInv /\ ResultInv)'
  BY TypeStep, ResultStep
<1>3. TypeInv /\ ResultInv => FinishedAllReported
  BY ResultGivesReported
<1> QED BY <1>1, <1>2, <1>3, PTL DEF Spec
=============================================================================
