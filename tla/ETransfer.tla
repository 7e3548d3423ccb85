------------------------------ MODULE ETransfer ------------------------------
(***************************************************************************)
(* The event library under the daemon's server loops (etransfer/), and the *)
(* part of a loop that every one of them repeats: collect the sockets, let *)
(* the library accept connections (walk_through), select, handle each of   *)
(* the events that select returned.                                        *)
(*                                                                         *)
(* A connection carries one request and one reply; the client may go away  *)
(* at any time, so that its socket reads as closed or as reset.            *)
(*                                                                         *)
(* An operator named Mut... is the definition below it with a plausible    *)
(* bug; it is used by no other, and shows what a property is there for.    *)
(***************************************************************************)
EXTENDS Naturals, Sequences, Functions

CONSTANTS
  Conns,      \* the connections that clients open, each once
  WaitTimes   \* the values m_base_wait_time, never initialised, may have

ASSUME WaitTimesAssumption == WaitTimes \subseteq {"finite", "endless", "invalid"}

VARIABLES
  waitTime,     \* m_base_wait_time of this eTransfer
  client,       \* per connection: what its client does
  end,          \* per connection: "open", or how the client closed it
  unread,       \* connections whose request is still to be received
  backlog,      \* established connections that ::accept has not returned
  acceptList,   \* m_tcp_accept_list
  registered,   \* m_tcp_map: the sockets of the library
  needRead, needWrite,   \* the sockets whose m_bneed...select is set
  status,       \* m_status of the sockets
  destroyList,  \* m_destroy_list
  polls,        \* the loop's own m_tcp_map: the event each socket waits for
  loopPc, ready \* where the loop is, and the events (dst) still to handle

clientVars == <<client, end>>
sockVars   == <<unread, backlog, acceptList, registered, status, destroyList>>
flagVars   == <<waitTime, needRead, needWrite>>
loopVars   == <<polls, loopPc, ready>>
transferVars == <<clientVars, sockVars, flagVars, loopVars>>

Listener == "listener"

ASSUME ListenerAssumption == Listener \notin Conns

\* init_tcp, and the constructor, which leaves m_base_wait_time as it is.
TransferInit ==
  /\ waitTime \in WaitTimes
  /\ client = [c \in Conns |-> "new"] /\ end = [c \in Conns |-> "open"]
  /\ unread = {} /\ backlog = <<>> /\ acceptList = <<>> /\ registered = {}
  /\ needRead = {} /\ needWrite = {}
  /\ status = [c \in Conns |-> "closed"]
  /\ destroyList = {}
  /\ polls = <<>> /\ loopPc = "walk" /\ ready = {}

-----------------------------------------------------------------------------
(* The clients.                                                            *)

Connect(c) ==
  /\ client[c] = "new"
  /\ client' = [client EXCEPT ![c] = "connected"]
  /\ backlog' = Append(backlog, c)
  /\ UNCHANGED <<end, unread, acceptList, registered, status, destroyList, flagVars, loopVars>>

Ask(c) ==
  /\ client[c] = "connected"
  /\ client' = [client EXCEPT ![c] = "asked"]
  /\ unread' = unread \cup {c}
  /\ UNCHANGED <<end, backlog, acceptList, registered, status, destroyList, flagVars, loopVars>>

\* A client that is interrupted, that has its reply, or whose socket was not
\* writable yet when it wanted to ask.  A reset discards what was not read.
Leave(c) ==
  /\ client[c] \in {"connected", "asked", "answered"}
  /\ client' = [client EXCEPT ![c] = "gone"]
  /\ \/ end' = [end EXCEPT ![c] = "closed"] /\ UNCHANGED unread
     \/ end' = [end EXCEPT ![c] = "reset"] /\ unread' = unread \ {c}
  /\ UNCHANGED <<backlog, acceptList, registered, status, destroyList, flagVars, loopVars>>

-----------------------------------------------------------------------------
(* The library.                                                            *)

Readable(c) == c \in unread \/ end[c] # "open"

\* What ::select of walk_through finds; a socket can be written at any time.
Triggered == {c \in needRead : Readable(c)} \cup needWrite

\* ::select fails, returns in finite time, or only for a descriptor.
WalkReturns == waitTime # "endless" \/ backlog # <<>> \/ Triggered # {}

MutAcceptOne ==
  /\ backlog' = Tail(backlog)
  /\ acceptList' = Append(acceptList, Head(backlog))
  /\ UNCHANGED registered

\* proc_tcp_listen_sock.
AcceptOne ==
  /\ backlog' = Tail(backlog)
  /\ registered' = registered \cup {Head(backlog)}
  /\ acceptList' = Append(acceptList, Head(backlog))

\* At most one connection is accepted, and the flags of what was found are
\* cleared.
WalkThrough ==
  /\ loopPc = "walk" /\ WalkReturns
  /\ loopPc' = "select"
  /\ IF waitTime = "invalid"
     THEN UNCHANGED <<backlog, registered, acceptList, needRead, needWrite>>
     ELSE /\ IF backlog # <<>> THEN AcceptOne ELSE UNCHANGED <<backlog, registered, acceptList>>
          /\ needRead' = needRead \ Triggered
          /\ needWrite' = needWrite \ Triggered
  /\ UNCHANGED <<clientVars, waitTime, unread, status, destroyList, polls, ready>>

\* has_available_sockets: the listener is readable when the accept list is not
\* empty, a socket in error reports that and nothing else.
MutEventOf(c) == IF status[c] = "error" THEN "ERROR" ELSE "READ"
EventOf(c) == IF status[c] = "error" THEN "ERROR" ELSE polls[c]
Available ==
  {<<c, EventOf(c)>> : c \in {d \in DOMAIN polls : EventOf(d) # "READ" \/ Readable(d)}}
    \cup (IF acceptList = <<>> THEN {} ELSE {<<Listener, "READ">>})

Flagged(event, flagged) ==
  (flagged \ DOMAIN polls) \cup {c \in DOMAIN polls : polls[c] = event}

\* select looks once before and, after a pause, once more after it has set the
\* flags for the next walk_through.
Select ==
  /\ loopPc = "select"
  /\ ready' = Available
  /\ IF Available = {}
     THEN /\ needRead' = Flagged("READ", needRead)
          /\ needWrite' = Flagged("WRITE", needWrite)
          /\ loopPc' = "pause"
     ELSE loopPc' = "handle" /\ UNCHANGED <<needRead, needWrite>>
  /\ UNCHANGED <<clientVars, waitTime, sockVars, polls>>

SelectAgain ==
  /\ loopPc = "pause"
  /\ ready' = Available
  /\ loopPc' = "handle"
  /\ UNCHANGED <<clientVars, sockVars, flagVars, polls>>

\* The loop over dst: the sockets in any order, the listener last.
Handling(c, event) ==
  /\ loopPc = "handle" /\ <<c, event>> \in ready
  /\ c = Listener => ready = {<<c, event>>}
  /\ ready' = ready \ {<<c, event>>}
  /\ UNCHANGED <<flagVars, loopPc>>

HandlingDone ==
  /\ loopPc = "handle" /\ ready = {}
  /\ loopPc' = "walk"
  /\ UNCHANGED <<clientVars, sockVars, flagVars, polls, ready>>

\* eTransfer::accept, and the loop waits for a request on the new socket.
Accept ==
  LET c == Head(acceptList) IN
  /\ Handling(Listener, "READ")
  /\ acceptList' = Tail(acceptList)
  /\ status' = [status EXCEPT ![c] = "connected"]
  /\ polls' = [d \in DOMAIN polls \cup {c} |-> IF d = c THEN "READ" ELSE polls[d]]
  /\ UNCHANGED <<clientVars, unread, backlog, registered, destroyList>>

\* UTcpSocket::recv and what it returns: a request, zero or an error.
Received(c) == IF c \in unread THEN "request" ELSE IF end[c] = "closed" THEN "zero" ELSE "error"
Recv(c) ==
  /\ unread' = unread \ {c}
  /\ status' = CASE Received(c) = "request" -> status
                 [] Received(c) = "zero"    -> [status EXCEPT ![c] = "closed"]
                 [] Received(c) = "error"   -> [status EXCEPT ![c] = "error"]

MutDestroy(c) ==
  /\ status' = [status EXCEPT ![c] = "closed"]
  /\ destroyList' = destroyList \cup {c}
  /\ UNCHANGED polls

\* destroy_socket and the erase that follows it: the socket goes to a list that
\* is never worked off, so it stays registered and its descriptor open.
Destroy(c) ==
  /\ status' = [status EXCEPT ![c] = "closed"]
  /\ destroyList' = destroyList \cup {c}
  /\ polls' = [d \in DOMAIN polls \ {c} |-> polls[d]]
-----------------------------------------------------------------------------
Events == {"READ", "WRITE", "ERROR"}

TransferTypeOK ==
  /\ waitTime \in WaitTimes
  /\ client \in [Conns -> {"new", "connected", "asked", "answered", "gone"}]
  /\ end \in [Conns -> {"open", "closed", "reset"}]
  /\ unread \subseteq Conns /\ registered \subseteq Conns
  /\ destroyList \subseteq registered
  /\ needRead \subseteq registered /\ needWrite \subseteq registered
  /\ backlog \in Seq(Conns) /\ acceptList \in Seq(registered)
  /\ status \in [Conns -> {"closed", "connected", "error"}]
  /\ DOMAIN polls \subseteq registered /\ Range(polls) \subseteq {"READ", "WRITE"}
  /\ loopPc \in {"walk", "select", "pause", "handle"}
  /\ ready \subseteq (Conns \cup {Listener}) \X Events

\* The events of one select are handled one after the other, and handling one
\* changes the table they came from: none is out of date when its turn comes,
\* so no destroyed socket is used and the listener has a connection to give.
EventsStayCurrent ==
  \A e \in ready :
    IF e[1] = Listener THEN acceptList # <<>>
    ELSE e[1] \in DOMAIN polls /\ e[1] \notin destroyList /\ e[2] = EventOf(e[1])
=============================================================================
