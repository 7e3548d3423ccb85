---------------------------- MODULE ETransferProofs ----------------------------
(***************************************************************************)
(* What every server loop over the event library keeps, for every set of   *)
(* connections and every wait time: a connection is in one place at a      *)
(* time, and no event is out of date when it is handled.  The proofs about *)
(* a loop (HostMonitorProofs, ReportsProofs) add its handlers.             *)
(***************************************************************************)
EXTENDS ETransfer, TLAPS

Distinct(s) == \A m, n \in 1 .. Len(s) : s[m] = s[n] => m = n

\* A connection is in one place at a time: with its client, in the backlog, in
\* the accept list, in the loop's table, or in the list of the destroyed.
PlaceInv ==
  /\ \A c \in Conns : client[c] = "new" => c \notin registered
  /\ \A n \in 1 .. Len(backlog) : client[backlog[n]] # "new" /\ backlog[n] \notin registered
  /\ Distinct(backlog)
  /\ \A n \in 1 .. Len(acceptList) : acceptList[n] \notin DOMAIN polls \cup destroyList
  /\ Distinct(acceptList)
  /\ DOMAIN polls \cap destroyList = {}

\* Events are there only while the loop works on them; the listener is only read.
ReadyInv ==
  /\ EventsStayCurrent
  /\ loopPc # "handle" => ready = {}
  /\ \A e \in ready : e[1] = Listener => e[2] = "READ"

TransferInv == TransferTypeOK /\ PlaceInv /\ ReadyInv

-----------------------------------------------------------------------------
(* Sequences.                                                              *)

LEMMA AppendFacts ==
  ASSUME NEW S, NEW s \in Seq(S), NEW e \in S
  PROVE  /\ Append(s, e) \in Seq(S) /\ Len(s) \in Nat /\ Len(Append(s, e)) = Len(s) + 1
         /\ \A n \in 1 .. Len(s) : Append(s, e)[n] = s[n]
         /\ Append(s, e)[Len(s) + 1] = e
OBVIOUS

LEMMA TailFacts ==
  ASSUME NEW S, NEW s \in Seq(S), s # <<>>
  PROVE  /\ Tail(s) \in Seq(S) /\ Len(s) \in Nat /\ Len(Tail(s)) = Len(s) - 1 /\ Len(s) >= 1
         /\ \A n \in 1 .. Len(Tail(s)) : Tail(s)[n] = s[n + 1]
         /\ Head(s) = s[1] /\ Head(s) \in S
OBVIOUS

LEMMA AppendDistinct ==
  ASSUME NEW S, NEW s \in Seq(S), NEW e \in S, Distinct(s), \A n \in 1 .. Len(s) : s[n] # e
  PROVE  Distinct(Append(s, e))
BY AppendFacts DEF Distinct

LEMMA TailDistinct ==
  ASSUME NEW S, NEW s \in Seq(S), s # <<>>, Distinct(s)
  PROVE  /\ Distinct(Tail(s))
         /\ \A n \in 1 .. Len(Tail(s)) : Tail(s)[n] # Head(s)
BY TailFacts DEF Distinct

-----------------------------------------------------------------------------
LEMMA TransferInitInv == TransferInit => TransferInv
<1> SUFFICES ASSUME TransferInit PROVE TransferInv
  OBVIOUS
<1>1. TransferTypeOK
  BY DEF TransferInit, TransferTypeOK, Range
<1>2. PlaceInv /\ ReadyInv
  BY DEF TransferInit, PlaceInv, Distinct, ReadyInv, EventsStayCurrent
<1> QED BY <1>1, <1>2 DEF TransferInv

-----------------------------------------------------------------------------
(* The clients.                                                            *)

LEMMA ClientInv ==
  ASSUME TransferInv, NEW c \in Conns, Connect(c) \/ Ask(c) \/ Leave(c)
  PROVE  TransferInv' /\ UNCHANGED <<polls, status, destroyList>>
<1> USE DEF TransferInv
<1>1. UNCHANGED <<acceptList, registered, status, destroyList, flagVars, loopVars>>
  BY DEF Connect, Ask, Leave
<1>2. ReadyInv'
  BY <1>1 DEF ReadyInv, EventsStayCurrent, EventOf, loopVars
<1>3. CASE Connect(c)
  <2>1. /\ client[c] = "new" /\ client' = [client EXCEPT ![c] = "connected"]
        /\ backlog' = Append(backlog, c) /\ UNCHANGED <<end, unread>>
    BY <1>3 DEF Connect
  <2>2. backlog \in Seq(Conns)
    BY DEF TransferTypeOK
  <2>3. TransferTypeOK'
    BY <1>1, <2>1, <2>2, AppendFacts DEF TransferTypeOK, flagVars, loopVars
  <2>4. \A n \in 1 .. Len(backlog) : backlog[n] # c
    BY <2>1 DEF PlaceInv
  <2>5. Distinct(backlog')
    BY <2>1, <2>2, <2>4, AppendDistinct DEF PlaceInv
  <2>6. \A n \in 1 .. Len(backlog') : n \in 1 .. Len(backlog) \/ backlog'[n] = c
    BY <2>1, <2>2, AppendFacts
  <2>7. \A n \in 1 .. Len(backlog) : backlog'[n] = backlog[n] /\ backlog[n] \in Conns
    BY <2>1, <2>2, AppendFacts
  <2>8. \A n \in 1 .. Len(backlog') : client'[backlog'[n]] # "new" /\ backlog'[n] \notin registered
    BY <2>1, <2>4, <2>6, <2>7 DEF PlaceInv, TransferTypeOK
  <2>9. \A d \in Conns : client'[d] = "new" => d \notin registered
    BY <2>1 DEF PlaceInv, TransferTypeOK
  <2>10. PlaceInv'
    BY <1>1, <2>5, <2>8, <2>9 DEF PlaceInv, Distinct, loopVars
  <2> QED BY <1>1, <1>2, <2>3, <2>10 DEF loopVars
<1>4. CASE Ask(c) \/ Leave(c)
  <2>1. /\ client[c] # "new" /\ client' \in [Conns -> {"new", "connected", "asked", "answered", "gone"}]
        /\ client'[c] # "new" /\ \A d \in Conns \ {c} : client'[d] = client[d]
        /\ end' \in [Conns -> {"open", "closed", "reset"}] /\ unread' \subseteq Conns
        /\ UNCHANGED backlog
    BY <1>4 DEF Ask, Leave, TransferTypeOK
  <2>2. TransferTypeOK'
    BY <1>1, <2>1 DEF TransferTypeOK, flagVars, loopVars
  <2>3. \A n \in 1 .. Len(backlog) : backlog[n] \in Conns
    BY DEF TransferTypeOK
  <2>4. PlaceInv'
    BY <1>1, <2>1, <2>3 DEF PlaceInv, Distinct, loopVars
  <2> QED BY <1>1, <1>2, <2>2, <2>4 DEF loopVars
<1> QED BY <1>3, <1>4

-----------------------------------------------------------------------------
(* The library and the loop.                                               *)

LEMMA WalkThroughInv ==
  ASSUME TransferInv, WalkThrough
  PROVE  TransferInv' /\ UNCHANGED <<polls, status, destroyList>>
<1> USE DEF TransferInv
<1>1. /\ UNCHANGED <<client, end, waitTime, unread, status, destroyList, polls, ready>>
      /\ loopPc = "walk" /\ loopPc' = "select" /\ ready = {}
  BY DEF WalkThrough, ReadyInv, clientVars
<1>2. ReadyInv'
  BY <1>1 DEF ReadyInv, EventsStayCurrent
<1>3. needRead' \subseteq registered /\ needWrite' \subseteq registered
  BY DEF WalkThrough, TransferTypeOK
<1>4. CASE UNCHANGED <<backlog, registered, acceptList>>
  BY <1>1, <1>2, <1>3, <1>4 DEF TransferTypeOK, PlaceInv, Distinct
<1>5. CASE backlog # <<>> /\ AcceptOne
  <2>1. /\ backlog' = Tail(backlog) /\ registered' = registered \cup {Head(backlog)}
        /\ acceptList' = Append(acceptList, Head(backlog))
    BY <1>5 DEF AcceptOne
  <2>2. backlog \in Seq(Conns) /\ backlog # <<>> /\ acceptList \in Seq(registered)
    BY <1>5 DEF TransferTypeOK
  <2>3. Head(backlog) \in Conns /\ Head(backlog) \notin registered /\ client[Head(backlog)] # "new"
    BY <2>2, TailFacts DEF PlaceInv
  <2>4. acceptList \in Seq(registered')
    BY <2>1, <2>2
  <2>5. acceptList' \in Seq(registered')
    BY <2>1, <2>4, AppendFacts
  <2>6. TransferTypeOK'
    BY <1>1, <1>3, <2>1, <2>2, <2>3, <2>5, TailFacts DEF TransferTypeOK
  <2>7. \A n \in 1 .. Len(acceptList) : acceptList[n] # Head(backlog)
    BY <2>2, <2>3
  <2>8. Distinct(acceptList')
    BY <2>1, <2>4, <2>7, AppendDistinct DEF PlaceInv
  <2>9. \A n \in 1 .. Len(acceptList') : acceptList'[n] \notin DOMAIN polls \cup destroyList
    <3>1. Head(backlog) \notin DOMAIN polls \cup destroyList
      BY <2>3 DEF TransferTypeOK
    <3> QED BY <2>1, <2>4, <3>1, AppendFacts DEF PlaceInv
  <2>10. Distinct(backlog') /\ \A n \in 1 .. Len(backlog') : backlog'[n] # Head(backlog)
    BY <2>1, <2>2, TailDistinct DEF PlaceInv
  <2>11. \A n \in 1 .. Len(backlog') : client[backlog'[n]] # "new" /\ backlog'[n] \notin registered
    BY <2>1, <2>2, TailFacts DEF PlaceInv
  <2>12. \A d \in Conns : client[d] = "new" => d \notin registered'
    BY <2>1, <2>3 DEF PlaceInv
  <2>13. PlaceInv'
    BY <1>1, <2>1, <2>8, <2>9, <2>10, <2>11, <2>12 DEF PlaceInv, Distinct
  <2> QED BY <1>1, <1>2, <2>6, <2>13
<1> QED BY <1>1, <1>4, <1>5 DEF WalkThrough

LEMMA AvailableType ==
  ASSUME TransferInv
  PROVE  /\ Available \subseteq (Conns \cup {Listener}) \X Events
         /\ \A e \in Available :
              IF e[1] = Listener THEN acceptList # <<>> /\ e[2] = "READ"
              ELSE e[1] \in DOMAIN polls /\ e[1] \notin destroyList /\ e[2] = EventOf(e[1])
<1>1. DOMAIN polls \subseteq Conns /\ \A c \in DOMAIN polls : polls[c] \in {"READ", "WRITE"}
  BY DEF TransferInv, TransferTypeOK, Range
<1>2. \A c \in DOMAIN polls : EventOf(c) \in Events /\ c \notin destroyList /\ c # Listener
  BY <1>1, ListenerAssumption DEF EventOf, Events, TransferInv, PlaceInv
<1>3. \A e \in Available :
        \/ e[1] \in DOMAIN polls /\ e = <<e[1], EventOf(e[1])>>
        \/ acceptList # <<>> /\ e = <<Listener, "READ">>
  BY DEF Available
<1> QED BY <1>1, <1>2, <1>3 DEF Events

LEMMA SelectInv ==
  ASSUME TransferInv, Select \/ SelectAgain
  PROVE  TransferInv' /\ UNCHANGED <<polls, status, destroyList>>
<1> USE DEF TransferInv
<1>1. UNCHANGED <<client, end, waitTime, sockVars, polls>> /\ ready' = Available
      /\ loopPc' \in {"pause", "handle"} /\ (loopPc' # "handle" => ready' = {})
  BY DEF Select, SelectAgain, clientVars, flagVars
<1>2. needRead' \subseteq registered /\ needWrite' \subseteq registered
  BY DEF Select, SelectAgain, Flagged, flagVars, TransferTypeOK
<1>3. TransferTypeOK'
  BY <1>1, <1>2, AvailableType DEF TransferTypeOK, sockVars
<1>4. ReadyInv'
  BY <1>1, AvailableType DEF ReadyInv, EventsStayCurrent, EventOf, sockVars
<1>5. PlaceInv' /\ UNCHANGED <<polls, status, destroyList>>
  BY <1>1 DEF PlaceInv, Distinct, sockVars
<1> QED BY <1>3, <1>4, <1>5

LEMMA HandlingDoneInv ==
  ASSUME TransferInv, HandlingDone
  PROVE  TransferInv' /\ UNCHANGED <<polls, status, destroyList>>
BY DEF HandlingDone, TransferInv, TransferTypeOK, PlaceInv, Distinct, ReadyInv,
       EventsStayCurrent, clientVars, sockVars, flagVars

LEMMA StutterInv ==
  ASSUME TransferInv, UNCHANGED transferVars
  PROVE  TransferInv' /\ UNCHANGED <<polls, status, destroyList>>
BY DEF TransferInv, TransferTypeOK, PlaceInv, Distinct, ReadyInv, EventsStayCurrent, EventOf,
       transferVars, clientVars, sockVars, flagVars, loopVars

LEMMA AcceptInv ==
  ASSUME TransferInv, Accept
  PROVE  /\ TransferInv' /\ UNCHANGED destroyList
         /\ \E c \in Conns :
              /\ c \notin DOMAIN polls /\ c \notin destroyList
              /\ DOMAIN polls' = DOMAIN polls \cup {c} /\ polls'[c] = "READ"
              /\ status' = [status EXCEPT ![c] = "connected"]
              /\ \A d \in DOMAIN polls : polls'[d] = polls[d] /\ d # c
<1> USE DEF TransferInv
<1> DEFINE c == Head(acceptList)
<1>1. /\ Handling(Listener, "READ") /\ acceptList' = Tail(acceptList)
      /\ status' = [status EXCEPT ![c] = "connected"]
      /\ polls' = [d \in DOMAIN polls \cup {c} |-> IF d = c THEN "READ" ELSE polls[d]]
      /\ UNCHANGED <<client, end, unread, backlog, registered, destroyList>>
  BY DEF Accept, clientVars
<1>2. <<Listener, "READ">> \in ready /\ ready' = {} /\ loopPc' = "handle"
      /\ UNCHANGED <<waitTime, needRead, needWrite>>
  BY <1>1 DEF Handling, flagVars
<1>3. acceptList # <<>> /\ acceptList \in Seq(registered)
  BY <1>2 DEF ReadyInv, EventsStayCurrent, TransferTypeOK
<1>4. c \in registered /\ c \in Conns /\ c \notin DOMAIN polls /\ c \notin destroyList
      /\ acceptList' \in Seq(registered)
  BY <1>1, <1>3, TailFacts DEF TransferTypeOK, PlaceInv
<1> HIDE DEF c
<1>5. DOMAIN polls \subseteq Conns /\ \A d \in DOMAIN polls : polls[d] \in {"READ", "WRITE"}
  BY DEF TransferTypeOK, Range
<1>6. DOMAIN polls' = DOMAIN polls \cup {c} /\ polls'[c] = "READ"
      /\ \A d \in DOMAIN polls : polls'[d] = polls[d] /\ d # c
  BY <1>1, <1>4
<1>7. Range(polls') \subseteq {"READ", "WRITE"}
  BY <1>5, <1>6 DEF Range
<1>8. TransferTypeOK'
  BY <1>1, <1>2, <1>4, <1>6, <1>7 DEF TransferTypeOK
<1>9. ReadyInv'
  BY <1>2 DEF ReadyInv, EventsStayCurrent
<1>11. Distinct(acceptList') /\ \A n \in 1 .. Len(acceptList') : acceptList'[n] # c
  BY <1>1, <1>3, TailDistinct DEF PlaceInv, c
<1>12. \A n \in 1 .. Len(acceptList') : acceptList'[n] \notin DOMAIN polls \cup destroyList
  BY <1>1, <1>3, TailFacts DEF PlaceInv
<1>13. PlaceInv'
  BY <1>1, <1>4, <1>6, <1>11, <1>12 DEF PlaceInv, Distinct
<1> QED BY <1>1, <1>4, <1>6, <1>8, <1>9, <1>13

-----------------------------------------------------------------------------
(* The handlers.                                                           *)

\* What the event that is handled says of its socket.
LEMMA HandlingFacts ==
  ASSUME TransferInv, NEW c \in Conns, NEW event, Handling(c, event)
  PROVE  /\ c \in DOMAIN polls /\ c \notin destroyList /\ event = EventOf(c)
         /\ c \in registered /\ c # Listener /\ loopPc = "handle" /\ loopPc' = loopPc
         /\ ready' \subseteq ready /\ \A e \in ready' : e[1] # c
         /\ UNCHANGED <<waitTime, needRead, needWrite>>
<1>1. /\ <<c, event>> \in ready /\ ready' = ready \ {<<c, event>>}
      /\ loopPc = "handle" /\ UNCHANGED <<flagVars, loopPc>>
  BY DEF Handling
<1>2. c # Listener
  BY ListenerAssumption
<1>3. c \in DOMAIN polls /\ c \notin destroyList /\ event = EventOf(c)
  BY <1>1, <1>2 DEF TransferInv, ReadyInv, EventsStayCurrent
<1>4. \A e \in ready' : e[1] # c
  <2> SUFFICES ASSUME NEW e \in ready', e[1] = c PROVE FALSE
    OBVIOUS
  <2>1. e \in ready /\ e # <<c, event>>
    BY <1>1
  <2>2. e[2] = EventOf(c)
    BY <1>2, <2>1 DEF TransferInv, ReadyInv, EventsStayCurrent
  <2>3. e = <<e[1], e[2]>>
    BY <2>1 DEF TransferInv, TransferTypeOK
  <2> QED BY <1>3, <2>1, <2>2, <2>3
<1> QED BY <1>1, <1>2, <1>3, <1>4 DEF TransferInv, TransferTypeOK, flagVars

\* A step that touches only the socket of its event leaves the others current.
LEMMA OthersCurrent ==
  ASSUME TransferInv, NEW c \in Conns, NEW event, Handling(c, event), UNCHANGED acceptList,
         \A d \in DOMAIN polls \ {c} :
           d \in DOMAIN polls' /\ polls'[d] = polls[d] /\ status'[d] = status[d],
         destroyList' \subseteq destroyList \cup {c}
  PROVE  ReadyInv'
<1>1. ASSUME NEW e \in ready', e[1] = Listener PROVE acceptList' # <<>>
  BY <1>1, HandlingFacts DEF TransferInv, ReadyInv, EventsStayCurrent
<1>2. ASSUME NEW e \in ready', e[1] # Listener
      PROVE  e[1] \in DOMAIN polls' /\ e[1] \notin destroyList' /\ e[2] = EventOf(e[1])'
  <2>1. e \in ready /\ e[1] # c
    BY <1>2, HandlingFacts
  <2>2. e[1] \in DOMAIN polls /\ e[1] \notin destroyList /\ e[2] = EventOf(e[1])
    BY <1>2, <2>1 DEF TransferInv, ReadyInv, EventsStayCurrent
  <2> QED BY <2>1, <2>2 DEF EventOf
<1>3. ready' \subseteq ready /\ loopPc' = "handle"
  BY HandlingFacts
<1>4. \A e \in ready' : e[1] = Listener => e[2] = "READ"
  BY <1>3 DEF TransferInv, ReadyInv
<1>5. EventsStayCurrent'
  BY <1>1, <1>2 DEF EventsStayCurrent
<1> QED BY <1>3, <1>4, <1>5 DEF ReadyInv

\* A socket is given up, with all that was received from it or not.
LEMMA DestroyInv ==
  ASSUME TransferInv, NEW c \in Conns, NEW event, Handling(c, event), Destroy(c),
         UNCHANGED <<end, backlog, acceptList, registered>>, unread' \subseteq unread,
         client' = client \/ (client[c] = "asked" /\ client' = [client EXCEPT ![c] = "answered"])
  PROVE  /\ TransferInv' /\ DOMAIN polls' = DOMAIN polls \ {c} /\ c \in DOMAIN polls
         /\ \A d \in DOMAIN polls' : polls'[d] = polls[d] /\ d \in Conns
<1> USE DEF TransferInv
<1>1. /\ status' = [status EXCEPT ![c] = "closed"] /\ destroyList' = destroyList \cup {c}
      /\ polls' = [d \in DOMAIN polls \ {c} |-> polls[d]]
  BY DEF Destroy
<1>2. c \in registered /\ loopPc' = "handle" /\ ready' \subseteq ready
      /\ UNCHANGED <<waitTime, needRead, needWrite>>
  BY HandlingFacts
<1>3. DOMAIN polls \subseteq Conns /\ \A d \in DOMAIN polls : polls[d] \in {"READ", "WRITE"}
  BY DEF TransferTypeOK, Range
<1>4. DOMAIN polls' = DOMAIN polls \ {c} /\ \A d \in DOMAIN polls' : polls'[d] = polls[d]
  BY <1>1
<1>5. Range(polls') \subseteq {"READ", "WRITE"}
  BY <1>3, <1>4 DEF Range
<1>6. /\ client' \in [Conns -> {"new", "connected", "asked", "answered", "gone"}]
      /\ \A d \in Conns : client'[d] = "new" <=> client[d] = "new"
  BY DEF TransferTypeOK
<1>7. TransferTypeOK'
  BY <1>1, <1>2, <1>4, <1>5, <1>6 DEF TransferTypeOK
<1>8. ReadyInv'
  BY <1>1, <1>3, <1>4, OthersCurrent DEF TransferTypeOK
<1>10. PlaceInv'
  <2>1. \A n \in 1 .. Len(backlog) : backlog[n] \in Conns
    BY DEF TransferTypeOK
  <2>2. \A n \in 1 .. Len(acceptList) : acceptList[n] # c
    BY HandlingFacts DEF PlaceInv
  <2> QED BY <1>1, <1>4, <1>6, <2>1, <2>2 DEF PlaceInv, Distinct
<1> QED BY <1>3, <1>4, <1>7, <1>8, <1>10, HandlingFacts
=============================================================================
