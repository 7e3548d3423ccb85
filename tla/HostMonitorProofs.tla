--------------------------- MODULE HostMonitorProofs ---------------------------
(***************************************************************************)
(* Proofs about the host monitor, for every set of connections and every   *)
(* wait time: no event is out of date when it is handled, and no reply     *)
(* buffer is freed twice or left behind.  ETransferProofs has what the     *)
(* event library and the common part of the loop keep.                     *)
(***************************************************************************)
EXTENDS HostMonitor, ETransferProofs

\* A socket in error waits for no reply to be sent.
ErrorInv == \A c \in DOMAIN polls : polls[c] = "WRITE" => status[c] # "error"

Inv == TypeOK /\ TransferInv /\ ErrorInv /\ RepliesOwned

LEMMA InitInv == Init => Inv
BY TransferInitInv DEF Init, Inv, TransferInv, TypeOK, TransferInit, ErrorInv, RepliesOwned

\* Steps that leave the loop's table, the sockets and the replies alone.
LEMMA SameSockets ==
  ASSUME Inv, TransferInv', UNCHANGED <<polls, status, replies>>
  PROVE  Inv'
BY DEF Inv, TypeOK, TransferInv, ErrorInv, RepliesOwned

LEMMA PollsType ==
  ASSUME TransferInv
  PROVE  DOMAIN polls \subseteq Conns /\ \A d \in DOMAIN polls : polls[d] \in {"READ", "WRITE"}
BY DEF TransferInv, TransferTypeOK, Range

LEMMA AcceptStepInv == Inv /\ Accept /\ UNCHANGED replies => Inv'
<1> SUFFICES ASSUME Inv, Accept, UNCHANGED replies PROVE Inv'
  OBVIOUS
<1>1. PICK c \in Conns :
        /\ c \notin DOMAIN polls
        /\ DOMAIN polls' = DOMAIN polls \cup {c} /\ polls'[c] = "READ"
        /\ status' = [status EXCEPT ![c] = "connected"]
        /\ \A d \in DOMAIN polls : polls'[d] = polls[d] /\ d # c
  BY AcceptInv DEF Inv
<1>2. ErrorInv' /\ RepliesOwned'
  BY <1>1, PollsType DEF Inv, ErrorInv, RepliesOwned, TransferInv, TransferTypeOK
<1> QED BY <1>2, AcceptInv DEF Inv, TypeOK, TransferInv

-----------------------------------------------------------------------------
(* The handlers.                                                           *)

LEMMA ReadInv == ASSUME Inv, NEW c \in Conns, Read(c) PROVE Inv'
<1> USE DEF Inv, TransferInv
<1>1. /\ Handling(c, "READ") /\ Recv(c)
      /\ UNCHANGED <<client, end, backlog, acceptList, registered, destroyList>>
  BY DEF Read, clientVars
<1>2. /\ c \in DOMAIN polls /\ "READ" = EventOf(c) /\ loopPc' = "handle" /\ ready' \subseteq ready
      /\ UNCHANGED <<waitTime, needRead, needWrite>>
  BY <1>1, HandlingFacts
<1>3. polls[c] = "READ" /\ status[c] # "error"
  BY <1>2 DEF EventOf
<1>4. status' \in [Conns -> {"closed", "connected", "error"}] /\ unread' \subseteq Conns
      /\ \A d \in Conns \ {c} : status'[d] = status[d]
  BY <1>1 DEF Recv, Received, TransferTypeOK
<1>5. DOMAIN polls \subseteq Conns /\ \A d \in DOMAIN polls : polls[d] \in {"READ", "WRITE"}
  BY PollsType
<1>6. CASE Received(c) = "request"
  <2>1. /\ polls' = [polls EXCEPT ![c] = "WRITE"] /\ replies' = [replies EXCEPT ![c] = @ + 1]
        /\ status' = status
    BY <1>1, <1>6 DEF Read, Recv
  <2>2. DOMAIN polls' = DOMAIN polls /\ \A d \in DOMAIN polls : polls'[d] \in {"READ", "WRITE"}
    BY <1>5, <2>1
  <2>3. Range(polls') \subseteq {"READ", "WRITE"}
    BY <2>2 DEF Range
  <2>4. replies[c] = 0
    BY <1>2, <1>3 DEF RepliesOwned
  <2>5. replies' = [replies EXCEPT ![c] = 1] /\ replies' \in [Conns -> Nat]
    BY <2>1, <2>4 DEF TypeOK
  <2>6. TypeOK' /\ TransferTypeOK'
    BY <1>1, <1>2, <1>4, <2>1, <2>2, <2>3, <2>5 DEF TypeOK, TransferTypeOK
  <2>7. ReadyInv'
    BY <1>1, <2>1, <2>2, OthersCurrent
  <2>8. PlaceInv' /\ ErrorInv'
    BY <1>1, <1>3, <2>1, <2>2 DEF PlaceInv, Distinct, ErrorInv
  <2>9. RepliesOwned'
    BY <1>2, <2>1, <2>2, <2>5 DEF RepliesOwned, TypeOK
  <2> QED BY <2>6, <2>7, <2>8, <2>9
<1>7. CASE Received(c) # "request"
  <2>1. UNCHANGED <<polls, replies>>
    BY <1>7 DEF Read
  <2>2. TypeOK' /\ TransferTypeOK'
    BY <1>1, <1>2, <1>4, <2>1 DEF TypeOK, TransferTypeOK
  <2>3. ReadyInv'
    BY <1>1, <1>4, <1>5, <2>1, OthersCurrent
  <2>4. PlaceInv' /\ ErrorInv' /\ RepliesOwned'
    BY <1>1, <1>3, <1>4, <1>5, <2>1 DEF PlaceInv, Distinct, ErrorInv, RepliesOwned
  <2> QED BY <2>2, <2>3, <2>4
<1> QED BY <1>6, <1>7

\* A socket is given up, and with it its reply buffer, if it has one.
LEMMA GiveUpInv ==
  ASSUME Inv, NEW c \in Conns, NEW event, Handling(c, event), Destroy(c),
         UNCHANGED <<end, unread, backlog, acceptList, registered>>,
         client' = client \/ (client[c] = "asked" /\ client' = [client EXCEPT ![c] = "answered"]),
         replies' = [replies EXCEPT ![c] = 0]
  PROVE  Inv'
<1>1. /\ TransferInv' /\ DOMAIN polls' = DOMAIN polls \ {c}
      /\ \A d \in DOMAIN polls' : polls'[d] = polls[d] /\ d \in Conns
  BY DestroyInv DEF Inv
<1>2. status' = [status EXCEPT ![c] = "closed"]
  BY DEF Destroy
<1>3. ErrorInv'
  BY <1>1, <1>2 DEF ErrorInv, Inv, TransferInv, TransferTypeOK
<1>4. RepliesOwned' /\ replies' \in [Conns -> Nat]
  BY <1>1 DEF RepliesOwned, Inv, TypeOK
<1> QED BY <1>1, <1>3, <1>4 DEF Inv, TypeOK, TransferInv

LEMMA WriteInv == ASSUME Inv, NEW c \in Conns, Write(c) PROVE Inv'
<1>1. Handling(c, "WRITE") /\ Destroy(c) /\ UNCHANGED <<end, unread, backlog, acceptList, registered>>
  BY DEF Write
<1>2. c \in DOMAIN polls /\ "WRITE" = EventOf(c)
  BY <1>1, HandlingFacts DEF Inv
<1>3. replies[c] = 1
  BY <1>2 DEF EventOf, Inv, RepliesOwned
<1>4. replies' = [replies EXCEPT ![c] = 0]
  BY <1>3 DEF Write, Inv, TypeOK
<1>5. client' = client \/ (client[c] = "asked" /\ client' = [client EXCEPT ![c] = "answered"])
  BY DEF Write, Inv, TypeOK, TransferTypeOK
<1> QED BY <1>1, <1>4, <1>5, GiveUpInv

LEMMA ErrorStepInv == ASSUME Inv, NEW c \in Conns, Error(c) PROVE Inv'
<1>1. Handling(c, "ERROR") /\ Destroy(c) /\ UNCHANGED replies
      /\ UNCHANGED <<client, end, unread, backlog, acceptList, registered>>
  BY DEF Error, clientVars
<1>2. c \in DOMAIN polls /\ "ERROR" = EventOf(c)
  BY <1>1, HandlingFacts DEF Inv
<1>3. status[c] = "error"
  BY <1>2, PollsType DEF EventOf, Inv
<1>4. polls[c] # "WRITE"
  BY <1>2, <1>3 DEF Inv, ErrorInv
<1>5. replies' = [replies EXCEPT ![c] = 0]
  BY <1>1, <1>2, <1>4 DEF Inv, RepliesOwned, TypeOK
<1> QED BY <1>1, <1>5, GiveUpInv

-----------------------------------------------------------------------------
LEMMA NextInv == Inv /\ [Next]_vars => Inv'
<1> SUFFICES ASSUME Inv, [Next]_vars PROVE Inv'
  OBVIOUS
<1>1. ASSUME NEW e \in ready, Handle(e[1]) PROVE Inv'
  <2>1. Read(e[1]) \/ Handling(e[1], "WRITE") \/ Handling(e[1], "ERROR")
    BY <1>1 DEF Handle, Write, Error
  <2>2. CASE e[1] \in Conns
    BY <1>1, <2>2, ReadInv, WriteInv, ErrorStepInv DEF Handle
  <2>3. CASE e[1] = Listener
    <3>1. <<Listener, "WRITE">> \in ready \/ <<Listener, "ERROR">> \in ready
      BY <2>1, <2>3 DEF Read, Handling
    <3> QED BY <3>1 DEF Inv, TransferInv, ReadyInv
  <2> QED BY <2>2, <2>3 DEF Inv, TransferInv, TransferTypeOK
<1>2. CASE UNCHANGED vars
  BY <1>2, StutterInv, SameSockets DEF vars, Inv
<1>3. CASE Clients
  BY <1>3, ClientInv, SameSockets DEF Clients, Inv
<1>4. CASE (WalkThrough \/ Select \/ SelectAgain \/ HandlingDone) /\ UNCHANGED replies
  BY <1>4, WalkThroughInv, SelectInv, HandlingDoneInv, SameSockets DEF Inv
<1> QED BY <1>1, <1>2, <1>3, <1>4, AcceptStepInv DEF Next, Loop

LEMMA InvHolds == Spec => []Inv
BY InitInv, NextInv, PTL DEF Spec

-----------------------------------------------------------------------------
(* What a reader should know.                                              *)

\* The tables of the loop and the library keep their types; with them, every
\* socket that the loop polls is one that the library has registered.
THEOREM TypeCorrect == Spec => []TypeOK
<1>1. Inv => TypeOK
  BY DEF Inv
<1> QED BY <1>1, InvHolds, PTL

\* No event of a round is out of date when its turn comes, although handling
\* the others changes the table that it came from.
THEOREM EventsCorrect == Spec => []EventsStayCurrent
<1>1. Inv => EventsStayCurrent
  BY DEF Inv, TransferInv, ReadyInv
<1> QED BY <1>1, InvHolds, PTL

\* A socket has a reply buffer exactly while it waits to be written: none is
\* freed twice and none is left behind.
THEOREM RepliesCorrect == Spec => []RepliesOwned
<1>1. Inv => RepliesOwned
  BY DEF Inv
<1> QED BY <1>1, InvHolds, PTL
=============================================================================
