----------------------------- MODULE HostMonitor -----------------------------
(***************************************************************************)
(* The host monitor of the head node (host_monitor_transfer_2), one of the *)
(* four server loops over an eTransfer: epbscli -qh connects, asks and     *)
(* waits for a table of the hosts.  What the table holds is left out.      *)
(*                                                                         *)
(* An operator named Mut... is the definition below it with a plausible    *)
(* bug; it is used by no other, and shows what a property is there for.    *)
(***************************************************************************)
EXTENDS ETransfer

VARIABLE replies   \* per connection: reply buffers allocated and not freed

vars == <<transferVars, replies>>

Init == TransferInit /\ replies = [c \in Conns |-> 0]

\* A request is answered on the same socket, when it can be written; a socket
\* that was closed or reset stays among the polled ones.
Read(c) ==
  /\ Handling(c, "READ") /\ c # Listener
  /\ Recv(c)
  /\ IF Received(c) = "request"
     THEN polls' = [polls EXCEPT ![c] = "WRITE"] /\ replies' = [replies EXCEPT ![c] = @ + 1]
     ELSE UNCHANGED <<polls, replies>>
  /\ UNCHANGED <<clientVars, backlog, acceptList, registered, destroyList>>

MutWrite(c) ==
  /\ Handling(c, "WRITE")
  /\ replies' = [replies EXCEPT ![c] = @ - 1]
  /\ client' = [client EXCEPT ![c] = IF @ = "asked" THEN "answered" ELSE @]
  /\ UNCHANGED <<end, unread, backlog, acceptList, registered, destroyList, status, polls>>

\* The result of send is not looked at.
Write(c) ==
  /\ Handling(c, "WRITE")
  /\ replies' = [replies EXCEPT ![c] = @ - 1]
  /\ client' = [client EXCEPT ![c] = IF @ = "asked" THEN "answered" ELSE @]
  /\ Destroy(c)
  /\ UNCHANGED <<end, unread, backlog, acceptList, registered>>

MutError(c) ==
  /\ Handling(c, "ERROR")
  /\ UNCHANGED <<clientVars, unread, backlog, acceptList, registered, status, destroyList,
                 polls, replies>>

Error(c) ==
  /\ Handling(c, "ERROR")
  /\ Destroy(c)
  /\ UNCHANGED <<clientVars, unread, backlog, acceptList, registered, replies>>

Handle(c) == Read(c) \/ Write(c) \/ Error(c)

Loop ==
  \/ (WalkThrough \/ Select \/ SelectAgain \/ HandlingDone \/ Accept) /\ UNCHANGED replies
  \/ \E e \in ready : Handle(e[1])

Clients == \E c \in Conns : (Connect(c) \/ Ask(c) \/ Leave(c)) /\ UNCHANGED replies

Next == Loop \/ Clients

Spec == Init /\ [][Next]_vars

\* The thread runs; a client promises nothing.
LiveSpec == Spec /\ WF_vars(Loop)
-----------------------------------------------------------------------------
TypeOK == TransferTypeOK /\ replies \in [Conns -> Nat]

\* A reply buffer belongs to exactly the sockets that wait to be written: it is
\* freed once, when the reply goes out, and none is left behind, although
\* clients hang up and reset their connections at any moment.
RepliesOwned ==
  \A c \in Conns : replies[c] = (IF c \in DOMAIN polls /\ polls[c] = "WRITE" THEN 1 ELSE 0)

\* Nothing sets the wait time of walk_through: a very long one lets the loop
\* sleep with a reply to send, an invalid one keeps it from accepting.
WaitPasses == waitTime = "finite"

\* A socket in error is given up, and cannot keep the loop busy for ever.
ErrorsGoAway ==
  \A c \in Conns : WaitPasses /\ status[c] = "error" ~> status[c] # "error"

\* Every client that asks and stays gets its answer, whatever the others do:
\* connect and say nothing, hang up, or reset the connection.
AskedIsAnswered ==
  \A c \in Conns : WaitPasses /\ client[c] = "asked" ~> client[c] # "asked"
=============================================================================
