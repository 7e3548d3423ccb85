----------------------------- MODULE NodeMessages -----------------------------
(***************************************************************************)
(* Messages between the nodes (libmsg.c): msg_send opens a connection,     *)
(* writes one message and closes; the message loop of a node               *)
(* (deal_msg_request) reads each connection once and writes what it got    *)
(* into a pipe, from which msg_recv takes as many bytes as it expects.     *)
(* The pipe, the queue of connections to be accepted and the descriptors   *)
(* are bounded: the loop stands before a full pipe, senders wait and give  *)
(* up, and the loop never closes a connection.                             *)
(*                                                                         *)
(* Nothing in the repository calls msg_send and msg_recv, so any node may  *)
(* send to any node, itself included, and ask for a message of any length. *)
(*                                                                         *)
(* A message is a head and len parts of payload; parts stand for bytes.    *)
(* The nodes know each other by their numbers in the host file.  exit      *)
(* ends the node's whole daemon.                                           *)
(*                                                                         *)
(* An operator named Mut... is the definition below it with a plausible    *)
(* bug; it is used by no other, and shows what a property is there for.    *)
(***************************************************************************)
EXTENDS HostFile

CONSTANTS
  AddressLists,  \* the addresses that a host file may list
  Between,       \* what it has between the entries
  Lengths,       \* of the payload of messages
  BuffSize,      \* MSG_BUFF_SIZE, in parts
  PipeSize,      \* what a pipe holds, in parts
  Backlog,       \* the connections that wait for accept, at most
  Descriptors,   \* the connections that a daemon can hold open
  MaxMessages    \* bound

\* Addresses are not empty, and tags stand only where an entry begins or ends.
ASSUME AddressAssumption == AddressLists \subseteq Seq(Seq(Character) \ {<<>>})
ASSUME BetweenAssumption == Between \in Seq(Character)
ASSUME MessageAssumption == Lengths \subseteq Nat /\ BuffSize \in Nat \ {0} /\ MaxMessages \in Nat
\* A buffer full is less than PIPE_BUF: it goes into the pipe whole or waits.
ASSUME LimitAssumption   == PipeSize \in Nat /\ BuffSize <= PipeSize /\ {Backlog, Descriptors} \subseteq Nat

VARIABLES
  addresses,   \* of the machines, in the order of the host file
  hosts, id,   \* what every node has read from it, and its own number there
  ended,       \* per node: why its daemon has ended, or "no"
  messages,    \* every message for which msg_send got a connection
  sending,     \* per node: the message it is about to write, or 0
  conns,       \* per node: its connections, by their messages, the accepted one first
  written,     \* the messages that were written
  served,      \* per node: how many connections it has done with, all still open
  inHand,      \* per node: parts of the first one read and not yet in the pipe
  pipe,        \* per node: the parts in its pipe
  relayed,     \* per node: the messages its loop has put there
  cutAt,       \* per node: the first of them that was not read whole, or 0
  delivered    \* per node: what msg_recv has returned

files == <<addresses, hosts, id>>
pipeVars == <<pipe, relayed, cutAt>>
loopVars == <<served, inHand, pipeVars>>
vars == <<files, ended, messages, sending, conns, written, loopVars, delivered>>

Nodes == DOMAIN addresses
Up(n) == ended[n] = "no"

\* epbssrv_configure: a daemon that does not find its machine exits.
Init ==
  /\ addresses \in AddressLists
  /\ hosts = ReadHosts(Written(addresses, Between))
  /\ id = [n \in Nodes |-> LocalId(addresses[n], hosts)]
  /\ ended = [n \in Nodes |-> IF Configured(id[n], hosts) THEN "no" ELSE "unlisted"]
  /\ messages = <<>> /\ written = {}
  /\ sending = [n \in Nodes |-> 0] /\ conns = [n \in Nodes |-> <<>>]
  /\ served = [n \in Nodes |-> 0] /\ inHand = [n \in Nodes |-> 0]
  /\ pipe = [n \in Nodes |-> <<>>] /\ relayed = [n \in Nodes |-> <<>>]
  /\ cutAt = [n \in Nodes |-> 0] /\ delivered = [n \in Nodes |-> <<>>]

MutMessageTo(n, dist, len) == [src |-> dist, dist |-> id[n], len |-> len]
MessageTo(n, dist, len) == [src |-> id[n], dist |-> dist, len |-> len]

\* The machine that has the address of a host.
MachineOf(dist) == CHOOSE n \in Nodes : addresses[n] = HostIp(dist, hosts)

Connected(n, dist, len) ==
  LET to == MachineOf(dist) IN
  /\ messages' = Append(messages, MessageTo(n, dist, len))
  /\ conns' = [conns EXCEPT ![to] = Append(@, Len(messages'))]
  /\ sending' = [sending EXCEPT ![n] = Len(messages')]
  /\ UNCHANGED ended

NotConnected(n, why) ==
  /\ ended' = [ended EXCEPT ![n] = why]
  /\ UNCHANGED <<messages, conns, sending>>

\* msg_send up to connect.  It fails if the other daemon has ended.  If the queue
\* behind the accepted connection is full, it is tried again until it times out.
SendConnect(n) ==
  /\ Up(n) /\ sending[n] = 0 /\ Len(messages) < MaxMessages
  /\ \E dist \in DOMAIN hosts, len \in Lengths :
       LET to == MachineOf(dist) IN
       \/ Up(to) /\ Len(conns[to]) <= Backlog /\ Connected(n, dist, len)
       \/ Up(to) /\ Len(conns[to]) > Backlog /\ NotConnected(n, "timeout")
       \/ ~Up(to) /\ NotConnected(n, "refused")
  /\ UNCHANGED <<files, written, loopVars, delivered>>

\* The rest of it.  A write to a daemon that has ended is lost, or raises
\* SIGPIPE, which nothing but the job monitor of the head node ignores.
SendWrite(n) ==
  /\ Up(n) /\ sending[n] # 0
  /\ sending' = [sending EXCEPT ![n] = 0]
  /\ written' = written \cup {sending[n]}
  /\ \/ UNCHANGED ended
     \/ /\ ~Up(MachineOf(messages[sending[n]].dist))
        /\ ended' = [ended EXCEPT ![n] = "sigpipe"]
  /\ UNCHANGED <<files, messages, conns, loopVars, delivered>>

Parts(m) == [i \in 1 .. messages[m].len + 1 |-> [msg |-> m, part |-> i - 1]]

MutNextConn(n) == UNCHANGED <<conns, served>>

\* The loop goes back to accept; it has not closed the connection.
NextConn(n) ==
  /\ conns' = [conns EXCEPT ![n] = Tail(@)]
  /\ served' = [served EXCEPT ![n] = @ + 1]

\* read waits for data; it returns what has arrived, up to a buffer full, and is
\* not repeated.
RelayRead(n, m) ==
  /\ inHand[n] = 0 /\ m \in written
  /\ \E k \in 1 .. Len(Parts(m)) : k <= BuffSize /\ inHand' = [inHand EXCEPT ![n] = k]
  /\ UNCHANGED <<ended, conns, served, pipeVars>>

\* write waits until the pipe has room for all that was read.
RelayWrite(n, m) ==
  /\ inHand[n] # 0 /\ Len(pipe[n]) + inHand[n] <= PipeSize
  /\ pipe' = [pipe EXCEPT ![n] = @ \o SubSeq(Parts(m), 1, inHand[n])]
  /\ cutAt' = [cutAt EXCEPT ![n] =
                 IF @ = 0 /\ inHand[n] < Len(Parts(m)) THEN Len(relayed[n]) + 1 ELSE @]
  /\ relayed' = [relayed EXCEPT ![n] = Append(@, m)]
  /\ inHand' = [inHand EXCEPT ![n] = 0]
  /\ NextConn(n)
  /\ UNCHANGED ended

MutRelayEnd(n, m) == FALSE

\* The sender has ended before it wrote: read returns zero bytes.
RelayEnd(n, m) ==
  /\ inHand[n] = 0
  /\ m \notin written /\ \A x \in Nodes : sending[x] = m => ~Up(x)
  /\ NextConn(n)
  /\ UNCHANGED <<ended, inHand, pipeVars>>

\* No descriptor is left.
AcceptFails(n) ==
  /\ served[n] >= Descriptors
  /\ ended' = [ended EXCEPT ![n] = "accept"]
  /\ UNCHANGED <<conns, loopVars>>

\* A step of the message loop, which goes on to the next connection only when it
\* is through with this one.
Relay(n) ==
  /\ Up(n)
  /\ \/ AcceptFails(n)
     \/ /\ served[n] < Descriptors /\ conns[n] # <<>>
        /\ LET m == Head(conns[n]) IN RelayRead(n, m) \/ RelayWrite(n, m) \/ RelayEnd(n, m)
  /\ UNCHANGED <<files, messages, sending, written, delivered>>

MutTaken(n, len) == Min({Len(pipe[n]), len})

\* A read of the pipe returns as much as it holds.
Taken(n, len) == Min({Len(pipe[n]), len + 1})

\* What msg_recv finds wrong with the head; it never looks at m_src.
Fault(n, len) ==
  LET first == Head(pipe[n]) IN
  CASE first.part # 0                        -> "type"
    [] first.part = 0 /\ messages[first.msg].dist # id[n] -> "dist"
    [] first.part = 0 /\ messages[first.msg].dist = id[n] /\ messages[first.msg].len # len -> "len"
    [] OTHER -> "no"

\* msg_recv.  A message that is too short leaves its caller with uninitialised
\* bytes and a smaller result.
Recv(n) ==
  /\ Up(n) /\ pipe[n] # <<>>
  /\ \E len \in Lengths :
       /\ ended' = [ended EXCEPT ![n] = Fault(n, len)]
       /\ pipe' = [pipe EXCEPT ![n] = SubSeq(@, Taken(n, len) + 1, Len(@))]
       /\ delivered' = [delivered EXCEPT ![n] =
            IF Fault(n, len) = "no" THEN Append(@, SubSeq(pipe[n], 1, Taken(n, len))) ELSE @]
  /\ UNCHANGED <<files, messages, sending, conns, written, served, inHand, relayed, cutAt>>

Next == \E n \in Nodes : SendConnect(n) \/ SendWrite(n) \/ Relay(n) \/ Recv(n)

Spec == Init /\ [][Next]_vars

Numbers == UNION {DOMAIN list : list \in AddressLists}

\* A daemon that is up goes on; nobody has to send or to receive.
LiveSpec ==
  Spec /\ \A n \in Numbers : WF_vars(n \in Nodes /\ SendWrite(n)) /\ WF_vars(n \in Nodes /\ Relay(n))
-----------------------------------------------------------------------------
Causes == {"no", "unlisted", "refused", "timeout", "sigpipe", "accept", "type", "dist", "len"}

TypeOK ==
  /\ addresses \in AddressLists /\ ended \in [Nodes -> Causes]
  /\ Len(messages) <= MaxMessages /\ written \subseteq DOMAIN messages
  /\ sending \in [Nodes -> {0} \cup DOMAIN messages]
  /\ \A n \in Nodes :
       /\ \A s \in {conns[n], relayed[n]} : IsInjective(s) /\ Range(s) \subseteq DOMAIN messages
       /\ served[n] \in 0 .. Descriptors /\ Len(conns[n]) <= Backlog + 1
       /\ inHand[n] \in 0 .. BuffSize /\ Len(pipe[n]) <= PipeSize
       /\ cutAt[n] \in 0 .. Len(relayed[n])
       /\ Len(delivered[n]) <= Len(relayed[n])

\* A file that lists every machine once is read as it was written, whatever
\* stands between its entries, and the first entries of one that is longer than
\* what is read of it.
HostsRead ==
  \E n \in 0 .. Len(addresses) :
    /\ hosts = SubSeq(addresses, 1, n)
    /\ n = Len(addresses) \/ Size(Written(addresses, Between)) > FileBuffer

\* A machine in the list finds its own number, if no address is the beginning
\* of another; so the number that others use for it is the one it knows.
OwnIdFound ==
  ~Ambiguous(addresses) => \A n \in Nodes : addresses[n] \in Range(hosts) => id[n] = n

\* Messages that came whole before the first cut one are delivered whole, in the
\* order of their connections and once, although the pipe knows no messages.
DeliveredInOrder ==
  \A n \in Nodes : \A i \in 1 .. Len(delivered[n]) :
    (cutAt[n] = 0 \/ i < cutAt[n]) => delivered[n][i] = Parts(relayed[n][i])

\* Whatever ends a daemon has a cause.  The one a message is sent to ends if its
\* caller asked for another length, a message was cut before, or addresses in the
\* host file are confused, and when it can open no more connections; a sender
\* ends after another daemon, or when more connections were made than wait for
\* accept.
EndsHaveCause ==
  \A n \in Nodes :
    /\ ended[n] = "type" => cutAt[n] # 0
    /\ ended[n] = "dist" => Ambiguous(addresses)
    /\ ended[n] \in {"refused", "sigpipe"} => \E other \in Nodes \ {n} : ~Up(other)
    /\ ended[n] = "timeout" => Len(messages) > Backlog
    /\ ended[n] = "accept" => Len(messages) >= Descriptors

\* The write of the loop of n, if it is at one, does not wait.
Room(n) == Len(pipe[n]) + inHand[n] <= PipeSize

\* Somebody takes messages from every pipe, time and again, as nothing in the
\* repository does.
PipesEmptied == \A n \in Numbers : []<>(n \in Nodes => Room(n))

\* The one message loop of a node, which waits for each connection in turn, puts
\* every message into the pipe in the end, although other senders end before
\* they write; it is held up by nothing but a pipe that is never emptied.
WrittenIsRelayed ==
  PipesEmptied =>
    \A m \in 1 .. MaxMessages :
      m \in written ~>
        \E n \in Nodes : m \in Range(relayed[n]) \/ (m \in Range(conns[n]) /\ ~Up(n))
=============================================================================
