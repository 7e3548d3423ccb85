---------------------------- MODULE ReportsProofs ----------------------------
(***************************************************************************)
(* Proofs about the loops that receive reports, for every finite set of    *)
(* connections and whatever they report: what the result loop books, and   *)
(* what the status loop loses.  A connection is received from at most once *)
(* because it is destroyed with the receive (ETransferProofs).             *)
(***************************************************************************)
EXTENDS Reports, ETransferProofs, FiniteSetTheorems

\* What was received from has been given up.
TakenInv == \A c \in Conns : outcome[c] # "none" => c \in destroyList

\* What recv_buffer and the table of the status loop know of a round.
RoundInv ==
  /\ fresh => buffer # NoReport
  /\ service = "status" /\ fresh /\ round = {} => hostStat[buffer.host] = "FREE"
  /\ \A c \in Conns : round = {c} /\ outcome[c] = "report" => fresh /\ buffer = ReportOf[c]

Inv ==
  /\ TypeOK /\ TransferInv /\ TakenInv /\ RoundInv
  /\ BookedAsReceived /\ FinishedWhenAllCame

Counts(j) == Cardinality(Outstanding(j)) - jobnodes[j] \in 0 .. Cardinality(Empties)

-----------------------------------------------------------------------------
(* Counting.                                                               *)

LEMMA SetsFinite ==
  /\ \A j : IsFiniteSet(Outstanding(j)) /\ Cardinality(Outstanding(j)) \in Nat
  /\ IsFiniteSet(Empties) /\ Cardinality(Empties) \in Nat
  /\ \A j : Cardinality({c \in Conns : ReportOf[c].job = j}) \in Nat
<1>1. \A S \in SUBSET Conns : IsFiniteSet(S) /\ Cardinality(S) \in Nat
  BY ReportAssumption, FS_Subset, FS_CardinalityType
<1>2. Empties \in SUBSET Conns /\ \A j : Outstanding(j) \in SUBSET Conns
  BY DEF Empties, Outstanding
<1>3. \A j : {c \in Conns : ReportOf[c].job = j} \in SUBSET Conns
  OBVIOUS
<1> QED BY <1>1, <1>2, <1>3

LEMMA ReportType ==
  ASSUME NEW r \in Range(ReportOf)
  PROVE  r.host \in Hosts /\ r.job \in Jobs /\ r # NoReport
BY ReportAssumption DEF Range, NoReport

LEMMA InitInv == Init => Inv
<1> SUFFICES ASSUME Init PROVE Inv
  OBVIOUS
<1>1. TransferInv
  BY TransferInitInv DEF Init
<1>2. \A j \in Jobs : Outstanding(j) = {c \in Conns : ReportOf[c].job = j} /\ Outstanding(j) # {}
  BY ReportAssumption DEF Init, Outstanding
<1>3. Empties = {}
  BY DEF Init, Empties
<1>4. Cardinality(Empties) = 0
  BY <1>3, FS_EmptySet
<1>5. \A j \in Jobs : jobnodes[j] = Cardinality(Outstanding(j)) /\ jobnodes[j] \in Nat
  BY <1>2, SetsFinite DEF Init
<1>6. BookedAsReceived
  BY <1>4, <1>5 DEF BookedAsReceived
<1>7. FinishedWhenAllCame
  BY <1>2 DEF FinishedWhenAllCame, Init
<1>8. TypeOK
  <2>1. jobnodes \in [Jobs -> Int]
    <3>1. jobnodes = [j \in Jobs |-> jobnodes[j]]
      BY DEF Init
    <3> QED BY <1>5, <3>1
  <2> QED BY <1>1, <2>1 DEF Init, TypeOK, TransferInv
<1>9. TakenInv /\ RoundInv
  BY DEF Init, TakenInv, RoundInv
<1> QED BY <1>1, <1>6, <1>7, <1>8, <1>9 DEF Inv

\* Steps of the library and of the reporters.
LEMMA OtherStepInv ==
  ASSUME Inv, TransferInv', UNCHANGED <<reportVars, destroyList>>
  PROVE  Inv'
<1>1. UNCHANGED <<service, buffer, fresh, hostStat, jobnodes, jobStat, round, outcome>>
  BY DEF reportVars, tables
<1>2. TypeOK' /\ TakenInv' /\ RoundInv'
  BY <1>1 DEF Inv, TypeOK, TransferInv, TakenInv, RoundInv
<1>3. BookedAsReceived' /\ FinishedWhenAllCame'
  BY <1>1 DEF Inv, BookedAsReceived, FinishedWhenAllCame, Outstanding, Empties
<1> QED BY <1>2, <1>3 DEF Inv

-----------------------------------------------------------------------------
(* A receive.                                                              *)

\* What it does to the connections that are counted.
LEMMA TakeFacts ==
  ASSUME Inv, NEW c \in Conns, Take(c)
  PROVE  /\ TransferInv' /\ TakenInv' /\ service' = service /\ outcome[c] = "none"
         /\ round' = round \cup {c} /\ ReportOf[c] \in Range(ReportOf)
         /\ \/ /\ outcome' = [outcome EXCEPT ![c] = "report"]
               /\ buffer' = ReportOf[c] /\ fresh' = TRUE
            \/ /\ outcome' = [outcome EXCEPT ![c] = "empty"]
               /\ buffer' = buffer /\ fresh' = FALSE
<1>1. /\ Handling(c, "READ") /\ Destroy(c) /\ unread' \subseteq unread
      /\ UNCHANGED <<client, end, backlog, acceptList, registered, service>>
  BY DEF Take, clientVars
<1>2. TransferInv'
  BY <1>1, DestroyInv DEF Inv
<1>3. c \notin destroyList
  BY <1>1, HandlingFacts DEF Inv
<1>4. outcome[c] = "none"
  BY <1>3 DEF Inv, TakenInv
<1>5. destroyList' = destroyList \cup {c}
  BY <1>1 DEF Destroy
<1>6. \/ outcome' = [outcome EXCEPT ![c] = "report"] /\ buffer' = ReportOf[c] /\ fresh' = TRUE
      \/ outcome' = [outcome EXCEPT ![c] = "empty"] /\ buffer' = buffer /\ fresh' = FALSE
  BY DEF Take
<1>7. TakenInv'
  BY <1>5, <1>6 DEF Inv, TakenInv, TypeOK
<1>8. ReportOf[c] \in Range(ReportOf)
  BY ReportAssumption DEF Range
<1> QED BY <1>1, <1>2, <1>4, <1>6, <1>7, <1>8 DEF Take

\* It keeps what is known of the round.
LEMMA TakeRound ==
  ASSUME Inv, NEW c \in Conns, Take(c)
  PROVE  RoundInv'
<1>1. fresh' => buffer' # NoReport
  BY TakeFacts, ReportType
<1>2. round' # {}
  BY TakeFacts
<1>3. ASSUME NEW d \in Conns, round' = {d}, outcome'[d] = "report"
      PROVE  fresh' /\ buffer' = ReportOf[d]
  <2>1. c \in round'
    BY TakeFacts
  <2>1a. d = c
    BY <1>3, <2>1
  <2> QED BY <1>3, <2>1a, TakeFacts DEF Inv, TypeOK
<1> QED BY <1>1, <1>2, <1>3 DEF RoundInv

LEMMA TakeType ==
  ASSUME Inv, NEW c \in Conns, Take(c)
  PROVE  /\ TransferTypeOK' /\ service' \in Services /\ buffer' \in {NoReport} \cup Range(ReportOf)
         /\ fresh' \in BOOLEAN /\ round' \subseteq Conns
         /\ outcome' \in [Conns -> {"none", "report", "empty"}]
BY TakeFacts DEF Inv, TypeOK, TransferInv

LEMMA StatusInv == ASSUME Inv, NEW c \in Conns, ReadStatus(c) PROVE Inv'
<1>1. Take(c) /\ service = "status" /\ service' = "status" /\ UNCHANGED <<hostStat, jobnodes, jobStat>>
  BY TakeFacts DEF ReadStatus, tables
<1>2. TypeOK'
  BY <1>1, TakeType DEF Inv, TypeOK
<1>3. BookedAsReceived' /\ FinishedWhenAllCame'
  BY <1>1 DEF BookedAsReceived, FinishedWhenAllCame
<1> QED BY <1>1, <1>2, <1>3, TakeFacts, TakeRound DEF Inv

LEMMA BookType ==
  ASSUME TypeOK, NEW r \in Range(ReportOf), Book(r)
  PROVE  /\ hostStat' \in [Hosts -> {"ONLINE", "BUSY", "FREE"}]
         /\ jobnodes' \in [Jobs -> Int] /\ jobStat' \in [Jobs -> {"RUNNING", "FINISHED"}]
         /\ jobnodes'[r.job] = jobnodes[r.job] - 1
         /\ \A j \in Jobs \ {r.job} : jobnodes'[j] = jobnodes[j] /\ jobStat'[j] = jobStat[j]
<1>1. r.host \in Hosts /\ r.job \in Jobs
  BY ReportType
<1>2. jobnodes[r.job] - 1 \in Int
  BY <1>1 DEF TypeOK
<1> QED BY <1>1, <1>2 DEF Book, TypeOK

\* A report is booked once, for the job whose report it is.
LEMMA ResultInv == ASSUME Inv, NEW c \in Conns, ReadResult(c) PROVE Inv'
<1>1. Take(c) /\ service = "result" /\ service' = "result"
      /\ IF buffer' = NoReport THEN UNCHANGED tables ELSE Book(buffer')
  BY TakeFacts DEF ReadResult
<1>2. buffer' # NoReport => buffer' \in Range(ReportOf)
  BY <1>1, TakeType
<1>3. TypeOK'
  <2>1. CASE buffer' = NoReport
    BY <1>1, <2>1, TakeType DEF tables, Inv, TypeOK
  <2>2. CASE buffer' # NoReport
    BY <1>1, <1>2, <2>2, TakeType, BookType DEF Inv, TypeOK
  <2> QED BY <2>1, <2>2
<1>4. \A j \in Jobs : Counts(j)
  BY <1>1 DEF Inv, BookedAsReceived, Counts
<1>5. \A j \in Jobs : jobnodes[j] \in Int
  BY DEF Inv, TypeOK
<1>6. CASE outcome' = [outcome EXCEPT ![c] = "report"] /\ buffer' = ReportOf[c]
  <2> DEFINE r == ReportOf[c]
  <2>1. r \in Range(ReportOf) /\ r # NoReport /\ Book(r) /\ r.job \in Jobs
    BY <1>1, <1>6, TakeFacts, ReportType
  <2>2. c \in Outstanding(r.job) /\ outcome[c] = "none"
    BY <1>1, TakeFacts DEF Outstanding
  <2>3. Outstanding(r.job)' = Outstanding(r.job) \ {c}
    BY <1>6 DEF Outstanding, Inv, TypeOK
  <2>4. \A j \in Jobs \ {r.job} : Outstanding(j)' = Outstanding(j)
    BY <1>6 DEF Outstanding, Inv, TypeOK
  <2>5. Empties' = Empties
    BY <1>6, <2>2 DEF Empties, Inv, TypeOK
  <2>6. Cardinality(Outstanding(r.job)') = Cardinality(Outstanding(r.job)) - 1
    BY <2>2, <2>3, SetsFinite, FS_RemoveElement
  <2>7. \A j \in Jobs : Counts(j)'
    <3>1. jobnodes'[r.job] = jobnodes[r.job] - 1
          /\ \A j \in Jobs \ {r.job} : jobnodes'[j] = jobnodes[j]
      BY <2>1, BookType DEF Inv
    <3>2. Counts(r.job)'
      BY <1>4, <1>5, <2>1, <2>5, <2>6, <3>1, SetsFinite DEF Counts
    <3>3. ASSUME NEW j \in Jobs, j # r.job PROVE Counts(j)'
      BY <1>4, <2>4, <2>5, <3>1, <3>3 DEF Counts
    <3> QED BY <3>2, <3>3
  <2>8. FinishedWhenAllCame'
    <3> SUFFICES ASSUME Empties' = {}, NEW j \in Jobs
                 PROVE  jobStat'[j] = "FINISHED" <=> Outstanding(j)' = {}
      BY DEF FinishedWhenAllCame
    <3>1. Empties = {} /\ Cardinality(Empties) = 0
      BY <2>5, FS_EmptySet
    <3>2. jobStat[j] = "FINISHED" <=> Outstanding(j) = {}
      BY <1>1, <3>1 DEF Inv, FinishedWhenAllCame
    <3>3. CASE j # r.job
      BY <2>1, <2>4, <3>2, <3>3, BookType DEF Inv
    <3>4. CASE j = r.job
      <4>1. jobnodes[j] = Cardinality(Outstanding(j))
        BY <1>4, <1>5, <3>1, SetsFinite DEF Counts
      <4>2. jobnodes[j] = 1 <=> Outstanding(j)' = {}
        <5>1. IsFiniteSet(Outstanding(j)')
          <6>1. Outstanding(j)' \in SUBSET Outstanding(j)
            BY <2>3, <3>4
          <6>2. IsFiniteSet(Outstanding(j))
            BY SetsFinite
          <6> QED BY <6>1, <6>2, FS_Subset
        <5> QED BY <2>6, <3>4, <4>1, <5>1, FS_EmptySet, SetsFinite
      <4>3. jobStat[j] # "FINISHED"
        BY <2>2, <3>2, <3>4
      <4>4. jobStat'[j] = IF jobnodes[j] = 1 THEN "FINISHED" ELSE jobStat[j]
        BY <2>1, <3>4 DEF Book, Inv, TypeOK
      <4> QED BY <4>2, <4>3, <4>4
    <3> QED BY <3>3, <3>4
  <2> QED BY <1>1, <1>3, <2>7, <2>8, TakeFacts, TakeRound DEF Inv, BookedAsReceived, Counts
<1>7. CASE outcome' = [outcome EXCEPT ![c] = "empty"]
  <2>1. outcome[c] = "none"
    BY <1>1, TakeFacts
  <2>2. Empties' = Empties \cup {c} /\ c \notin Empties
    BY <1>7, <2>1 DEF Empties, Inv, TypeOK
  <2>3. Cardinality(Empties') = Cardinality(Empties) + 1
    BY <2>2, SetsFinite, FS_AddElement
  <2>4. \A j \in Jobs : Outstanding(j)' = Outstanding(j)
    BY <1>7, <2>1 DEF Outstanding, Inv, TypeOK
  <2>5. \A j \in Jobs : jobnodes'[j] = jobnodes[j] \/ jobnodes'[j] = jobnodes[j] - 1
    <3>1. CASE buffer' = NoReport
      BY <1>1, <3>1 DEF tables
    <3>2. CASE buffer' # NoReport
      BY <1>1, <1>2, <3>2, BookType DEF Inv
    <3> QED BY <3>1, <3>2
  <2>6. \A j \in Jobs : Counts(j)'
    BY <1>4, <1>5, <2>3, <2>4, <2>5, SetsFinite DEF Counts
  <2>7. FinishedWhenAllCame'
    BY <2>2 DEF FinishedWhenAllCame
  <2> QED BY <1>1, <1>3, <2>6, <2>7, TakeFacts, TakeRound DEF Inv, BookedAsReceived, Counts
<1> QED BY <1>1, <1>6, <1>7, TakeFacts

-----------------------------------------------------------------------------
(* The end of a round.                                                     *)

LEMMA EndRoundInv == Inv /\ EndRound => Inv'
<1> SUFFICES ASSUME Inv, EndRound PROVE Inv'
  OBVIOUS
<1>1. /\ TransferInv' /\ UNCHANGED <<service, buffer, fresh, jobnodes, jobStat, outcome, destroyList>>
      /\ round' = {}
      /\ hostStat' = IF service = "status" /\ fresh
                     THEN [hostStat EXCEPT ![buffer.host] = "FREE"] ELSE hostStat
  BY HandlingDoneInv DEF EndRound, Inv
<1>2. fresh => buffer.host \in Hosts
  BY ReportType DEF Inv, RoundInv, TypeOK
<1>3. TypeOK' /\ TakenInv'
  BY <1>1 DEF Inv, TypeOK, TransferInv, TakenInv
<1>4. RoundInv'
  BY <1>1, <1>2 DEF Inv, RoundInv, TypeOK
<1>5. BookedAsReceived' /\ FinishedWhenAllCame'
  BY <1>1 DEF Inv, BookedAsReceived, FinishedWhenAllCame, Outstanding, Empties
<1> QED BY <1>1, <1>3, <1>4, <1>5 DEF Inv

LEMMA NextInv == Inv /\ [Next]_vars => Inv'
<1> SUFFICES ASSUME Inv, [Next]_vars PROVE Inv'
  OBVIOUS
<1>1. ASSUME NEW e \in ready, ReadResult(e[1]) \/ ReadStatus(e[1]) PROVE Inv'
  <2>1. e[1] \in Conns
    BY <1>1 DEF ReadResult, ReadStatus, Take, Inv, TransferInv, TransferTypeOK
  <2> QED BY <1>1, <2>1, ResultInv, StatusInv
<1>2. CASE UNCHANGED vars
  BY <1>2, StutterInv, OtherStepInv DEF vars, Inv
<1>3. CASE Reporters
  BY <1>3, ClientInv, OtherStepInv DEF Reporters, Inv
<1>4. CASE (WalkThrough \/ Select \/ SelectAgain \/ Accept) /\ UNCHANGED reportVars
  BY <1>4, WalkThroughInv, SelectInv, AcceptInv, OtherStepInv DEF Inv
<1> QED BY <1>1, <1>2, <1>3, <1>4, EndRoundInv DEF Next, Loop

LEMMA InvHolds == Spec => []Inv
BY InitInv, NextInv, PTL DEF Spec

-----------------------------------------------------------------------------
(* What a reader should know.                                              *)

\* The variables of the loop and of its service keep their types; with them, its
\* buffer holds the report of some connection, and its table only hosts.
THEOREM TypeCorrect == Spec => []TypeOK
<1>1. Inv => TypeOK
  BY DEF Inv
<1> QED BY <1>1, InvHolds, PTL

\* jobnodes is the number of reports that have not come, less at most one for
\* every connection that closed without data.
THEOREM BookedCorrect == Spec => []BookedAsReceived
<1>1. Inv => BookedAsReceived
  BY DEF Inv
<1> QED BY <1>1, InvHolds, PTL

\* As long as no connection closes without data, a job is FINISHED exactly when
\* all of its reports have come.
THEOREM FinishedCorrect == Spec => []FinishedWhenAllCame
<1>1. Inv => FinishedWhenAllCame
  BY DEF Inv
<1> QED BY <1>1, InvHolds, PTL

\* A round in which the status loop receives nothing leaves its table alone,
\* although it books its buffer once more.
THEOREM QuietCorrect == Spec => QuietRoundsChangeNothing
<1>1. Inv /\ [Next]_vars => [service = "status" /\ round = {} => UNCHANGED hostStat]_hostStat
  <2> SUFFICES ASSUME Inv, [Next]_vars, service = "status", round = {} PROVE UNCHANGED hostStat
    OBVIOUS
  <2>1. CASE EndRound
    <3>1. fresh => hostStat[buffer.host] = "FREE"
      BY DEF Inv, RoundInv
    <3>2. hostStat \in [Hosts -> {"ONLINE", "BUSY", "FREE"}]
      BY DEF Inv, TypeOK
    <3> QED BY <2>1, <3>1, <3>2 DEF EndRound
  <2>2. CASE ~EndRound
    BY <2>2 DEF Next, Loop, Reporters, ReadResult, ReadStatus, vars, reportVars, tables
  <2> QED BY <2>1, <2>2
<1> QED BY <1>1, InvHolds, PTL DEF Spec, QuietRoundsChangeNothing

\* The report of a connection that is alone in its round is in the table of the
\* hosts when the round ends.
THEOREM AloneCorrect == Spec => AloneIsKept
<1> DEFINE Kept(c) == service = "status" /\ round = {c} /\ round' = {} /\ outcome[c] = "report" =>
                        hostStat'[ReportOf[c].host] = "FREE"
<1>1. Inv /\ [Next]_vars => [\A c \in Conns : Kept(c)]_vars
  <2> SUFFICES ASSUME Inv, [Next]_vars, NEW c \in Conns, service = "status", round = {c},
                      round' = {}, outcome[c] = "report"
               PROVE  hostStat'[ReportOf[c].host] = "FREE"
    OBVIOUS
  <2>1. EndRound
    BY DEF Next, Loop, Reporters, ReadResult, ReadStatus, Take, vars, reportVars
  <2>2. fresh /\ buffer = ReportOf[c] /\ ReportOf[c].host \in Hosts
    BY ReportAssumption DEF Inv, RoundInv
  <2> QED BY <2>1, <2>2 DEF EndRound, Inv, TypeOK
<1> QED BY <1>1, InvHolds, PTL DEF Spec, AloneIsKept
=============================================================================
