------------------------------ MODULE JobMonitor ------------------------------
(***************************************************************************)
(* The loop of the head node's job monitor (job_monitor_etransfer), which  *)
(* receives what clients submit, cancel and query; what a request does to  *)
(* the job queue is in JobScheduler.  It is the loop of the host monitor,  *)
(* but for two things: it never calls walk_through, and it ignores errors. *)
(***************************************************************************)
EXTENDS ETransfer

\* The loop goes from one select to the next.
NextTurn ==
  /\ loopPc = "walk"
  /\ loopPc' = "select"
  /\ UNCHANGED <<clientVars, sockVars, flagVars, polls, ready>>

\* Every request is answered on its socket.  A failed receive ends the
\* connection, an empty one does not.
Read(c) ==
  /\ Handling(c, "READ") /\ c # Listener
  /\ unread' = unread \ {c}
  /\ IF Received(c) = "error"
     THEN Destroy(c)
     ELSE /\ polls' = [polls EXCEPT ![c] = IF Received(c) = "request" THEN "WRITE" ELSE @]
          /\ status' = [status EXCEPT ![c] = IF Received(c) = "zero" THEN "closed" ELSE @]
          /\ UNCHANGED destroyList
  /\ UNCHANGED <<clientVars, backlog, acceptList, registered>>

Write(c) ==
  /\ Handling(c, "WRITE")
  /\ client' = [client EXCEPT ![c] = IF @ = "asked" THEN "answered" ELSE @]
  /\ Destroy(c)
  /\ UNCHANGED <<end, unread, backlog, acceptList, registered>>

\* No branch of the loop is for UPOLL_ERROR_T alone.
Error(c) ==
  /\ Handling(c, "ERROR")
  /\ UNCHANGED <<clientVars, sockVars, polls>>

Loop ==
  \/ NextTurn \/ Select \/ SelectAgain \/ HandlingDone \/ Accept
  \/ \E e \in ready : Read(e[1]) \/ Write(e[1]) \/ Error(e[1])

Next == Loop \/ \E c \in Conns : Connect(c) \/ Ask(c) \/ Leave(c)

Spec == TransferInit /\ [][Next]_transferVars

LiveSpec == Spec /\ WF_transferVars(Loop)
-----------------------------------------------------------------------------
\* "merge the service for UDP_JOB_QUE_SRV_PORT_NUMBER" (libjobq.c:230): a client
\* that has sent its request to the job monitor and waits gets a reply.
AskedIsAnswered == \A c \in Conns : client[c] = "asked" ~> client[c] # "asked"
=============================================================================
