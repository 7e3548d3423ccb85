-------------------------------- MODULE Client --------------------------------
(***************************************************************************)
(* Invocations of epbscli and the daemon they talk to: -hf submits a job,  *)
(* -qj and -qh query jobs and hosts, -jc cancels a job.  Each sends one    *)
(* request over a connection of its own and reads at most one reply.  The  *)
(* queries for hosts use a socket directly, the others UTransfer, which is *)
(* not in the repository: it reports an error on a connection that was     *)
(* refused or reset, and otherwise what ::send and ::recv return.          *)
(*                                                                         *)
(* What a request does to the job queue is in JobScheduler; whether the    *)
(* daemon ever accepts the connection in HostMonitor and JobMonitor.  The  *)
(* daemon may end at any time, as it does on many errors.  A query for all *)
(* job records (-qj -2), whose reply overruns its buffer, is left out.     *)
(*                                                                         *)
(* An operator named Mut... is the definition below it with a plausible    *)
(* bug; it is used by no other, and shows what a property is there for.    *)
(***************************************************************************)
EXTENDS Naturals, Sequences, FiniteSetsExt, Functions

CONSTANTS
  Clients,
  OptionLists,  \* command lines: sequences of [opt, id]
  NumHosts,
  MaxCuts       \* bound: incomplete sends of one client

ASSUME ClientAssumption == NumHosts \in Nat /\ MaxCuts \in Nat /\ IsFiniteSet(Clients)
ASSUME OptionAssumption == \A o \in OptionLists : Len(o) \in Nat /\ DOMAIN o = 1 .. Len(o)

VARIABLES
  command,   \* per client: the selecting option
  pc,        \* where it is
  link,      \* its connection
  stream,    \* parts of its request that were sent and not yet read
  cuts,      \* its incomplete sends
  reply,     \* parts of the reply on their way to it
  kept,      \* what its recv_buffer begins with: an answer, or 0 for junk
  reads,     \* its successful receives
  shown,     \* what its user has seen
  daemon,    \* "up" or "down"
  handled,   \* the clients whose requests the daemon has handled
  buffer,    \* what recv_buffer of the job monitor has behind the head
  rest       \* per client: what was behind the head when it was handled

clientVars == <<command, pc, cuts, kept, reads, shown>>
wireVars   == <<link, stream, reply>>
daemonVars == <<daemon, handled, buffer, rest>>
vars == <<clientVars, wireVars, daemonVars>>

Selecting == {"hf", "qj", "qh", "jc"}
None == [opt |-> "none", id |-> 0]

\* The last of the selecting options decides what main does; -cs and -nn alone
\* do nothing.
CommandOf(options) ==
  LET chosen == {i \in DOMAIN options : options[i].opt \in Selecting} IN
  IF chosen = {} THEN None ELSE options[Max(chosen)]

Opt(c) == command[c].opt
HostQuery(c) == Opt(c) = "qh"

Head1(c) == <<c, "head">>
Rest(c) == <<c, "rest">>

MutRequest(c) == <<Head1(c)>>

\* A submission has its strings behind the head, a cancellation the rest of a
\* buffer; the head of either is complete.
Request(c) == IF Opt(c) \in {"hf", "jc"} THEN <<Head1(c), Rest(c)>> ELSE <<Head1(c)>>

Init ==
  /\ command \in [Clients -> {CommandOf(o) : o \in OptionLists}]
  /\ pc = [c \in Clients |-> "start"] /\ link = [c \in Clients |-> "none"]
  /\ stream = [c \in Clients |-> <<>>] /\ reply = [c \in Clients |-> <<>>]
  /\ cuts = [c \in Clients |-> 0]
  /\ kept = [c \in Clients |-> 0] /\ reads = [c \in Clients |-> 0]
  /\ shown = [c \in Clients |-> "nothing"]
  /\ daemon = "up" /\ handled = <<>> /\ buffer = <<>>
  /\ rest = [c \in Clients |-> <<>>]

-----------------------------------------------------------------------------
(* The clients.                                                            *)

Done(c, what) == pc' = [pc EXCEPT ![c] = "done"] /\ shown' = [shown EXCEPT ![c] = what]
Goto(c, where) == pc' = [pc EXCEPT ![c] = where] /\ UNCHANGED shown

\* main; a host that is out of range is refused by the client itself.
Start(c) ==
  /\ pc[c] = "start"
  /\ IF Opt(c) = "none" \/ (HostQuery(c) /\ command[c].id > NumHosts)
     THEN Done(c, IF HostQuery(c) THEN "failed" ELSE "nothing") /\ UNCHANGED link
     ELSE Goto(c, "create") /\ link' = [link EXCEPT ![c] = "syn"]
  /\ UNCHANGED <<command, cuts, kept, reads, stream, reply, daemonVars>>

\* The network completes or refuses the connection, accepted or not.
Established(c) ==
  /\ link[c] = "syn"
  /\ link' = [link EXCEPT ![c] = IF daemon = "up" THEN "up" ELSE "refused"]
  /\ UNCHANGED <<clientVars, stream, reply, daemonVars>>

\* The loop over wait_creating.
Created(c) ==
  /\ pc[c] = "create" /\ ~HostQuery(c) /\ link[c] \in {"up", "closed"}
  /\ Goto(c, "send")
  /\ UNCHANGED <<command, cuts, kept, reads, wireVars, daemonVars>>

\* UPOLL_ERROR_T, or a send that fails.
ConnectionError(c) ==
  /\ pc[c] \in {"create", "send", "await"} /\ ~HostQuery(c)
  /\ link[c] \in {"refused", "reset"}
  /\ Done(c, "failed")
  /\ UNCHANGED <<command, cuts, kept, reads, wireVars, daemonVars>>

\* The first n parts go out; the peer resets a connection that it has closed.
Put(c, n) ==
  IF link[c] = "up"
  THEN /\ stream' = [stream EXCEPT ![c] = @ \o SubSeq(Request(c), 1, n)]
       /\ UNCHANGED link
  ELSE link' = [link EXCEPT ![c] = "reset"] /\ UNCHANGED stream

\* After an incomplete send a submission is sent again from its beginning; a
\* cancellation is not, and waits for no reply.
Send(c) ==
  /\ pc[c] = "send" /\ link[c] \in {"up", "closed"}
  /\ \E n \in 1 .. Len(Request(c)) :
       /\ Put(c, n)
       /\ IF n = Len(Request(c)) THEN UNCHANGED cuts
          ELSE cuts[c] < MaxCuts /\ cuts' = [cuts EXCEPT ![c] = @ + 1]
       /\ IF Opt(c) = "jc" THEN Done(c, "nothing")
          ELSE Goto(c, IF n = Len(Request(c)) THEN "await" ELSE "send")
  /\ UNCHANGED <<command, kept, reads, reply, daemonVars>>

\* recv of what has arrived, at the beginning of recv_buffer.
Get(c, n) ==
  /\ kept' = [kept EXCEPT ![c] = Head(reply[c])]
  /\ reply' = [reply EXCEPT ![c] = SubSeq(@, n + 1, Len(@))]
  /\ reads' = [reads EXCEPT ![c] = @ + 1]

\* A query compares the job id of the reply with its own.
Receive(c) ==
  /\ pc[c] = "await" /\ ~HostQuery(c)
  /\ \E n \in 1 .. Len(reply[c]) : Get(c, n)
  /\ Done(c, IF Opt(c) = "qj" /\ handled[kept'[c]] # c THEN "failed" ELSE "table")
  /\ UNCHANGED <<command, cuts, link, stream, daemonVars>>

MutReceiveNothing(c) ==
  /\ pc[c] = "await" /\ ~HostQuery(c)
  /\ reply[c] = <<>> /\ link[c] \in {"closed", "reset"}
  /\ Done(c, "table")
  /\ UNCHANGED <<command, cuts, kept, reads, wireVars, daemonVars>>

\* recv returns zero or an error: a query says so, a submission prints what
\* malloc left in its buffer as the id of a job that was "submitted".
ReceiveNothing(c) ==
  /\ pc[c] = "await" /\ ~HostQuery(c)
  /\ reply[c] = <<>> /\ link[c] \in {"closed", "reset"}
  /\ Done(c, IF Opt(c) = "hf" THEN "table" ELSE "failed")
  /\ UNCHANGED <<command, cuts, kept, reads, wireVars, daemonVars>>

\* A query for hosts looks once whether its socket can be written, without
\* waiting; if not, or if the send fails, it prints the buffer all the same.
\* Only a connect that fails at once is noticed.
HostsAsk(c) ==
  /\ pc[c] = "create" /\ HostQuery(c)
  /\ \/ link[c] \in {"up", "closed"} /\ Put(c, 1) /\ Goto(c, "await")
     \/ /\ link[c] \in {"syn", "refused", "reset"} /\ UNCHANGED <<link, stream>>
        /\ Done(c, "table") \/ (link[c] = "refused" /\ Done(c, "failed"))
  /\ UNCHANGED <<command, cuts, kept, reads, reply, daemonVars>>

MutHostsReceive(c) ==
  /\ pc[c] = "await" /\ HostQuery(c)
  /\ \E n \in 1 .. Len(reply[c]) :
       /\ Get(c, n)
       /\ IF n = 2 THEN Done(c, "table") ELSE Goto(c, "await")
  /\ UNCHANGED <<command, cuts, link, stream, daemonVars>>

\* It reads on until remain_size is zero, which the size of a reply is for;
\* every piece is read to the beginning of the buffer.  Without a reply the
\* loop goes on for ever.
HostsReceive(c) ==
  /\ pc[c] = "await" /\ HostQuery(c)
  /\ \E n \in 1 .. Len(reply[c]) :
       /\ Get(c, n)
       /\ IF n = Len(reply[c]) THEN Done(c, "table") ELSE Goto(c, "await")
  /\ UNCHANGED <<command, cuts, link, stream, daemonVars>>

ClientStep(c) ==
  \/ Start(c) \/ Created(c) \/ ConnectionError(c) \/ Send(c)
  \/ Receive(c) \/ ReceiveNothing(c)
  \/ HostsAsk(c) \/ HostsReceive(c)

-----------------------------------------------------------------------------
(* The daemon.                                                             *)

MutServe(c) ==
  /\ daemon = "up" /\ link[c] = "up" /\ stream[c] # <<>>
  /\ handled' = Append(handled, c)
  /\ \E n \in 1 .. Len(stream[c]) :
       /\ buffer' = IF n > 1 THEN stream[c][2] ELSE buffer
       /\ stream' = [stream EXCEPT ![c] = SubSeq(@, n + 1, Len(@))]
  /\ rest' = [rest EXCEPT ![c] = buffer']
  /\ reply' = [reply EXCEPT ![c] = <<Len(handled'), 0>>]
  /\ UNCHANGED <<clientVars, link, daemon>>

\* The one recv of a connection takes what has arrived, a part of the request or
\* all of it; what is not there leaves the shared buffer as it is, and is never
\* read.  The reply, an answer and the padding behind it, ends the service.
Serve(c) ==
  /\ daemon = "up" /\ link[c] = "up" /\ stream[c] # <<>>
  /\ c \notin Range(handled)
  /\ handled' = Append(handled, c)
  /\ \E n \in 1 .. Len(stream[c]) :
       /\ buffer' = IF n > 1 THEN stream[c][2] ELSE buffer
       /\ stream' = [stream EXCEPT ![c] = SubSeq(@, n + 1, Len(@))]
  /\ rest' = [rest EXCEPT ![c] = buffer']
  /\ reply' = [reply EXCEPT ![c] = <<Len(handled'), 0>>]
  /\ UNCHANGED <<clientVars, link, daemon>>

\* Every connection is closed, or reset if something is left to read.
Die ==
  /\ daemon = "up"
  /\ daemon' = "down"
  /\ \E lost \in [Clients -> {"closed", "reset"}] :
       /\ \A c \in Clients : stream[c] # <<>> => lost[c] = "reset"
       /\ link' = [c \in Clients |-> IF link[c] = "up" THEN lost[c] ELSE link[c]]
  /\ UNCHANGED <<clientVars, stream, reply, handled, buffer, rest>>
-----------------------------------------------------------------------------
Next == Die \/ \E c \in Clients : ClientStep(c) \/ Established(c) \/ Serve(c)

Spec == Init /\ [][Next]_vars

\* Clients run, the network answers, and the host monitor serves (see
\* HostMonitor); the job monitor promises nothing.
LiveSpec ==
  /\ Spec
  /\ \A c \in Clients :
       /\ WF_vars(ClientStep(c)) /\ WF_vars(Established(c))
       /\ WF_vars(HostQuery(c) /\ Serve(c))
-----------------------------------------------------------------------------
Lost(c) == link[c] \in {"closed", "reset"}

TypeOK ==
  /\ pc \in [Clients -> {"start", "create", "send", "await", "done"}]
  /\ link \in [Clients -> {"none", "syn", "up", "refused", "closed", "reset"}]
  /\ \A c \in Clients :
       /\ Opt(c) \in Selecting \cup {"none"}
       /\ Len(stream[c]) <= (1 + cuts[c]) * Len(Request(c))
       /\ cuts[c] <= MaxCuts /\ reads[c] <= 2
       /\ kept[c] \in 0 .. Len(handled) /\ Len(reply[c]) <= 2
  /\ shown \in [Clients -> {"nothing", "failed", "table"}]
  /\ daemon \in {"up", "down"} /\ Len(handled) <= Cardinality(Clients)

\* However connections are cut, sends repeated and replies torn, a request is
\* handled at most once, and a table made from a reply is made from the reply
\* to this very request, never from one the daemon has not given.
ImplementsExchange ==
  INSTANCE Exchange WITH
    told <- [c \in Clients |-> IF shown[c] = "table" THEN kept[c] ELSE 0]
ExchangeSpec == ImplementsExchange!Spec

\* epbscli prints junk from an uninitialised or overwritten buffer as a table
\* only in three cases: a submission whose connection was lost, a query for
\* hosts that was never handled, and one whose reply came in two pieces.
JunkHasCause ==
  \A c \in Clients : shown[c] = "table" /\ kept[c] = 0 =>
    \/ Opt(c) = "hf" /\ Lost(c)
    \/ HostQuery(c) /\ (c \notin Range(handled) \/ reads[c] > 1)

\* What a part of the buffer behind the head can come from: uninitialised, or
\* the first n requests that were handled.
Handed(n) ==
  {<<>>} \cup UNION {{Head1(handled[j]), Rest(handled[j])} : j \in 1 .. n}

\* A job is booked with the strings of its own submission if they were sent at
\* once and read at once; else it may get those that the job monitor's buffer
\* keeps of a request handled before, but of none that comes later.
BookedWhole ==
  \A i \in 1 .. Len(handled) :
    LET c == handled[i] IN
    Opt(c) = "hf" =>
      \/ rest[c] = Rest(c)
      \/ (cuts[c] > 0 \/ stream[c] # <<>>) /\ rest[c] \in Handed(i)

\* An invocation ends when its request is handled or the daemon is down; a
\* cancellation and a query for hosts need not even be lucky with the job
\* monitor.  Only a query for hosts that loses its connection waits for ever.
ClientEnds ==
  \A c \in Clients :
    (Opt(c) = "jc" \/ HostQuery(c) \/ c \in Range(handled) \/ daemon = "down")
      ~> (pc[c] = "done" \/ (HostQuery(c) /\ Lost(c)))
=============================================================================
