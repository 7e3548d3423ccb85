----------------------------- MODULE ClientProofs -----------------------------
(***************************************************************************)
(* Proofs about invocations of epbscli, for every set of clients, every    *)
(* command line, and however often their sends are cut: the exchange they  *)
(* implement, what the tables they print come from, and which strings a    *)
(* submission is booked with.                                              *)
(***************************************************************************)
EXTENDS Client, FiniteSetTheorems, WellFoundedInduction, TLAPS

AllParts == Clients \X {"head", "rest"}

TypeInv ==
  /\ pc \in [Clients -> {"start", "create", "send", "await", "done"}]
  /\ link \in [Clients -> {"none", "syn", "up", "refused", "closed", "reset"}]
  /\ stream \in [Clients -> Seq(AllParts)]
  /\ cuts \in [Clients -> Nat] /\ reads \in [Clients -> Nat] /\ kept \in [Clients -> Nat]
  /\ reply \in [Clients -> Seq(Nat)]
  /\ shown \in [Clients -> {"nothing", "failed", "table"}]
  /\ handled \in Seq(Clients)
  /\ daemon \in {"up", "down"}
  /\ rest \in [Clients -> AllParts \cup {<<>>}] /\ buffer \in AllParts \cup {<<>>}

Placed(n, c) == n \in 1 .. Len(handled) /\ handled[n] = c
Served(c) == \E n \in Nat : Placed(n, c)

\* A request is handled once, and its place is what a reply says.
Once == \A m, n \in 1 .. Len(handled) : handled[m] = handled[n] => m = n

ReplyInv(c) ==
  \/ reply[c] = <<>>
  \/ reply[c] = <<0>> /\ reads[c] >= 1 /\ (HostQuery(c) \/ pc[c] = "done")
  \/ \E n \in Nat : Placed(n, c) /\ reply[c] = <<n, 0>>

KeptInv(c) ==
  /\ kept[c] = 0 \/ Placed(kept[c], c)
  /\ ~Served(c) => reply[c] = <<>> /\ kept[c] = 0 /\ reads[c] = 0
  /\ pc[c] # "done" => shown[c] = "nothing"

Own(c) == {Head1(c), Rest(c)}

\* What is on its way to the daemon; as long as no send was cut, it is all of the
\* request, or what the daemon has left unread.
StreamInv(c) ==
  /\ HostQuery(c) /\ pc[c] \in {"start", "create"} => stream[c] = <<>> /\ ~Served(c)
  /\ \A q \in 1 .. Len(stream[c]) : stream[c][q] \in Own(c)
  /\ cuts[c] = 0 => /\ Served(c) \/ stream[c] \in {<<>>, Request(c)}
                    /\ pc[c] \in {"start", "create", "send"} => stream[c] = <<>>

JunkInv(c) ==
  shown[c] = "table" /\ kept[c] = 0 =>
    \/ Opt(c) = "hf" /\ Lost(c)
    \/ HostQuery(c) /\ ((~Served(c) /\ stream[c] = <<>>) \/ reads[c] > 1)

BookInv(c) ==
  \A n \in Nat : Opt(c) = "hf" /\ Placed(n, c) =>
    \/ rest[c] = Rest(c)
    \/ (cuts[c] > 0 \/ stream[c] # <<>>) /\ rest[c] \in Handed(n)

ClientInv(c) == ReplyInv(c) /\ KeptInv(c) /\ StreamInv(c) /\ JunkInv(c) /\ BookInv(c)

Inv ==
  /\ TypeInv /\ Once /\ buffer \in Handed(Len(handled))
  /\ \A c \in Clients : ClientInv(c)

-----------------------------------------------------------------------------

LEMMA RequestType == \A c \in Clients : Request(c) \in Seq(AllParts) /\ Request(c) # <<>>
<1> TAKE c \in Clients
<1>1. Head1(c) \in AllParts /\ Rest(c) \in AllParts
  BY DEF Head1, Rest, AllParts
<1>2. <<Head1(c)>> \in Seq(AllParts) /\ <<Head1(c), Rest(c)>> \in Seq(AllParts)
  BY <1>1
<1>3. CASE Request(c) = <<Head1(c)>>
  BY <1>2, <1>3
<1>4. CASE Request(c) = <<Head1(c), Rest(c)>>
  BY <1>2, <1>4
<1> QED BY <1>3, <1>4 DEF Request

LEMMA ServedRange ==
  ASSUME TypeInv, NEW c \in Clients
  PROVE  Served(c) <=> c \in Range(handled)
<1>1. DOMAIN handled = 1 .. Len(handled)
  BY DEF TypeInv
<1>2. c \in Range(handled) <=> \E n \in 1 .. Len(handled) : handled[n] = c
  BY <1>1 DEF Range
<1> QED BY <1>2 DEF Served, Placed

LEMMA InitInv == Init => Inv
<1> SUFFICES ASSUME Init PROVE Inv
  OBVIOUS
<1>1. TypeInv
  BY DEF Init, TypeInv
<1>2. Once /\ \A c \in Clients : ~Served(c)
  BY DEF Init, Once, Served, Placed
<1>3. \A c \in Clients : ClientInv(c)
  BY <1>2 DEF Init, ClientInv, ReplyInv, KeptInv, StreamInv, JunkInv, BookInv, Served
<1>4. buffer \in Handed(Len(handled))
  BY DEF Init, Handed
<1> QED BY <1>1, <1>2, <1>3, <1>4 DEF Inv

\* A step that leaves a client's own variables and its place alone, and mends
\* no lost connection, leaves its invariant alone.
LEMMA Untouched ==
  ASSUME NEW d \in Clients, ClientInv(d),
         command' = command, \A n \in Nat : Placed(n, d)' <=> Placed(n, d),
         pc'[d] = pc[d], Lost(d) => Lost(d)', stream'[d] = stream[d],
         cuts'[d] = cuts[d], reply'[d] = reply[d], kept'[d] = kept[d],
         reads'[d] = reads[d], shown'[d] = shown[d], rest'[d] = rest[d],
         \A n \in 1 .. Len(handled) : Handed(n)' = Handed(n)
  PROVE  ClientInv(d)'
<1>1. Served(d)' <=> Served(d)
  BY DEF Served
<1>2. Opt(d)' = Opt(d) /\ (HostQuery(d)' <=> HostQuery(d)) /\ Request(d)' = Request(d)
  BY DEF Opt, HostQuery, Request, Head1, Rest
<1>3. ReplyInv(d)' /\ KeptInv(d)'
  <2>1. kept[d] # 0 /\ Placed(kept[d], d) => Placed(kept[d], d)'
    BY DEF Placed
  <2> QED BY <1>1, <1>2, <2>1 DEF ClientInv, ReplyInv, KeptInv, Placed
<1>4. StreamInv(d)' /\ JunkInv(d)'
  BY <1>1, <1>2 DEF ClientInv, StreamInv, JunkInv, Own, Head1, Rest
<1>5. BookInv(d)'
  <2> SUFFICES ASSUME NEW n \in Nat, Opt(d)' = "hf", Placed(n, d)'
               PROVE  (\/ rest[d] = Rest(d)
                       \/ (cuts[d] > 0 \/ stream[d] # <<>>) /\ rest[d] \in Handed(n))'
    BY DEF BookInv
  <2>1. Placed(n, d) /\ Opt(d) = "hf" /\ Handed(n)' = Handed(n) /\ Rest(d)' = Rest(d)
    BY <1>2 DEF Placed, Rest
  <2> QED BY <2>1 DEF ClientInv, BookInv
<1> QED BY <1>3, <1>4, <1>5 DEF ClientInv

LEMMA HandedKept ==
  ASSUME handled' = handled
  PROVE  \A n : Handed(n)' = Handed(n)
BY DEF Handed, Head1, Rest

\* A step of one client, which handles nothing.
Alone(c) ==
  /\ UNCHANGED <<command, handled>>
  /\ \A d \in Clients \ {c} :
       /\ pc'[d] = pc[d] /\ link'[d] = link[d] /\ stream'[d] = stream[d] /\ cuts'[d] = cuts[d]
       /\ reply'[d] = reply[d] /\ kept'[d] = kept[d] /\ reads'[d] = reads[d]
       /\ shown'[d] = shown[d] /\ rest'[d] = rest[d]

LEMMA AloneSuffices ==
  ASSUME Inv, NEW c \in Clients, Alone(c), ClientInv(c)'
  PROVE  Once' /\ \A d \in Clients : ClientInv(d)'
<1>1. Once'
  BY DEF Inv, Once, Alone
<1>2. ASSUME NEW d \in Clients, d # c PROVE ClientInv(d)'
  <2>1. \A n \in Nat : Placed(n, d)' <=> Placed(n, d)
    BY DEF Alone, Placed
  <2>2. Lost(d) => Lost(d)'
    BY <1>2 DEF Alone, Lost
  <2> QED BY <1>2, <2>1, <2>2, Untouched, HandedKept DEF Alone, Inv
<1> QED BY <1>1, <1>2

\* The names that a step without handling keeps.
LEMMA Kept ==
  ASSUME NEW c \in Clients, UNCHANGED <<command, handled>>
  PROVE  /\ Opt(c)' = Opt(c) /\ (HostQuery(c)' <=> HostQuery(c)) /\ Request(c)' = Request(c)
         /\ (Served(c)' <=> Served(c)) /\ \A n : Placed(n, c)' <=> Placed(n, c)
         /\ Rest(c)' = Rest(c) /\ Own(c)' = Own(c) /\ \A n : Handed(n)' = Handed(n)
BY HandedKept DEF Opt, HostQuery, Request, Own, Head1, Rest, Served, Placed

-----------------------------------------------------------------------------
(* The steps of a client.                                                  *)

LEMMA StartInv ==
  ASSUME Inv, NEW c \in Clients, Start(c)
  PROVE  Alone(c) /\ ClientInv(c)'
<1> USE DEF Inv, TypeInv
<1>1. UNCHANGED <<command, handled, cuts, kept, reads, stream, reply, rest>> /\ pc[c] = "start"
  BY DEF Start, daemonVars
<1>2. Alone(c)
  BY <1>1 DEF Start, Done, Goto, Alone
<1>3. pc'[c] \in {"done", "create"} /\ shown'[c] \in {"nothing", "failed"}
      /\ (pc'[c] # "done" => shown'[c] = "nothing")
  BY <1>1 DEF Start, Done, Goto, ClientInv, KeptInv
<1>4. ClientInv(c)'
  BY <1>1, <1>3, Kept DEF ClientInv, ReplyInv, KeptInv, StreamInv, JunkInv, BookInv, Rest
<1> QED BY <1>2, <1>4

LEMMA CreatedInv ==
  ASSUME Inv, NEW c \in Clients, Created(c)
  PROVE  Alone(c) /\ ClientInv(c)'
<1> USE DEF Inv, TypeInv
<1>1. UNCHANGED <<command, handled, shown, cuts, kept, reads, link, stream, reply, rest>>
      /\ pc[c] = "create" /\ pc' = [pc EXCEPT ![c] = "send"] /\ ~HostQuery(c)
  BY DEF Created, Goto, wireVars, daemonVars
<1>2. Alone(c)
  BY <1>1 DEF Alone
<1>3. ClientInv(c)'
  BY <1>1, Kept DEF ClientInv, ReplyInv, KeptInv, StreamInv, JunkInv, BookInv, Lost, Rest
<1> QED BY <1>2, <1>3

\* A client that gives up.
LEMMA FailedInv ==
  ASSUME Inv, NEW c \in Clients,
         UNCHANGED <<command, handled, cuts, kept, reads, link, stream, reply, rest>>,
         Done(c, "failed")
  PROVE  Alone(c) /\ ClientInv(c)'
<1> USE DEF Inv, TypeInv
<1>1. pc' = [pc EXCEPT ![c] = "done"] /\ shown' = [shown EXCEPT ![c] = "failed"]
  BY DEF Done
<1>2. Alone(c)
  BY <1>1 DEF Alone
<1>3. ClientInv(c)'
  BY <1>1, Kept DEF ClientInv, ReplyInv, KeptInv, StreamInv, JunkInv, BookInv, Rest
<1> QED BY <1>2, <1>3

\* A send adds parts of the client's own request.
LEMMA PutOwn ==
  ASSUME TypeInv, NEW c \in Clients, NEW n \in 1 .. Len(Request(c)), Put(c, n),
         \A q \in 1 .. Len(stream[c]) : stream[c][q] \in Own(c)
  PROVE  /\ \A q \in 1 .. Len(stream'[c]) : stream'[c][q] \in Own(c)
         /\ stream[c] # <<>> => stream'[c] # <<>>
<1>1. CASE stream' = stream
  BY <1>1
<1>2. CASE stream' = [stream EXCEPT ![c] = @ \o SubSeq(Request(c), 1, n)]
  <2> DEFINE s == stream[c]
             r == SubSeq(Request(c), 1, n)
  <2>1. stream \in [Clients -> Seq(AllParts)] /\ s \in Seq(AllParts)
    BY DEF TypeInv
  <2>2. stream'[c] = s \o r
    BY <1>2, <2>1
  <2>3. /\ Request(c) \in Seq(AllParts)
        /\ \A q \in 1 .. Len(Request(c)) : Request(c)[q] \in Own(c)
    BY RequestType DEF Request, Own
  <2>4. r \in Seq(AllParts) /\ Len(r) = n /\ n \in Nat /\ \A q \in 1 .. n : r[q] \in Own(c)
    <3> DEFINE q0 == Request(c)
    <3>1. q0 \in Seq(AllParts) /\ n \in 1 .. Len(q0) /\ \A q \in 1 .. Len(q0) : q0[q] \in Own(c)
      BY <2>3
    <3> HIDE DEF q0
    <3>2. /\ SubSeq(q0, 1, n) \in Seq(AllParts) /\ Len(SubSeq(q0, 1, n)) = n /\ n \in Nat
          /\ \A q \in 1 .. n : SubSeq(q0, 1, n)[q] = q0[q] /\ q \in 1 .. Len(q0)
      BY <3>1
    <3>3. \A q \in 1 .. n : SubSeq(q0, 1, n)[q] \in Own(c)
      BY <3>1, <3>2
    <3> QED BY <3>2, <3>3 DEF q0
  <2> HIDE DEF s, r
  <2>5. /\ Len(s \o r) = Len(s) + n /\ Len(s) \in Nat
        /\ \A q \in 1 .. Len(s) + n : (s \o r)[q] = IF q <= Len(s) THEN s[q] ELSE r[q - Len(s)]
    <3>1. \A u, v \in Seq(AllParts) :
            /\ Len(u \o v) = Len(u) + Len(v) /\ Len(u) \in Nat
            /\ \A q \in 1 .. Len(u) + Len(v) : (u \o v)[q] = IF q <= Len(u) THEN u[q] ELSE v[q - Len(u)]
      OBVIOUS
    <3> QED BY <2>1, <2>4, <3>1
  <2>6. \A q \in 1 .. Len(s) + n : (s \o r)[q] \in Own(c)
    <3> TAKE q \in 1 .. Len(s) + n
    <3>1. CASE q <= Len(s)
      BY <2>5, <3>1 DEF s
    <3>2. CASE ~(q <= Len(s))
      <4>1. q - Len(s) \in 1 .. n
        BY <2>4, <2>5, <3>2
      <4> QED BY <2>4, <2>5, <3>2, <4>1
    <3> QED BY <3>1, <3>2
  <2>7. s # <<>> => s \o r # <<>>
    BY <2>1, <2>4
  <2> QED BY <2>2, <2>5, <2>6, <2>7 DEF s
<1> QED BY <1>1, <1>2 DEF Put

LEMMA SendInv ==
  ASSUME Inv, NEW c \in Clients, Send(c)
  PROVE  Alone(c) /\ ClientInv(c)'
<1> USE DEF Inv, TypeInv
<1>1. UNCHANGED <<command, handled, kept, reads, reply, rest>> /\ pc[c] = "send"
  BY DEF Send, daemonVars
<1>2. PICK n \in 1 .. Len(Request(c)) :
        /\ Put(c, n)
        /\ IF n = Len(Request(c)) THEN UNCHANGED cuts
           ELSE cuts[c] < MaxCuts /\ cuts' = [cuts EXCEPT ![c] = @ + 1]
        /\ IF Opt(c) = "jc" THEN Done(c, "nothing")
           ELSE Goto(c, IF n = Len(Request(c)) THEN "await" ELSE "send")
  BY DEF Send
<1>3. Alone(c)
  BY <1>1, <1>2 DEF Alone, Put, Done, Goto
<1>4. shown'[c] = "nothing" /\ pc'[c] \in {"send", "await", "done"}
      /\ (pc'[c] = "send" => n # Len(Request(c)))
  BY <1>1, <1>2 DEF Done, Goto, ClientInv, KeptInv
<1>5. cuts'[c] = 0 => cuts[c] = 0 /\ n = Len(Request(c))
  BY <1>2
<1>6. cuts'[c] = 0 => stream'[c] \in {<<>>, Request(c)}
  <2>1. SUFFICES ASSUME cuts'[c] = 0 PROVE stream'[c] \in {<<>>, Request(c)}
    OBVIOUS
  <2>2. stream[c] = <<>>
    BY <1>1, <1>5, <2>1 DEF ClientInv, StreamInv
  <2>3. <<>> \o SubSeq(Request(c), 1, Len(Request(c))) = Request(c)
    BY RequestType
  <2> QED BY <1>2, <1>5, <2>1, <2>2, <2>3 DEF Put
<1>6a. (\A q \in 1 .. Len(stream[c]) : stream[c][q] \in Own(c))' /\ (stream[c] # <<>> => stream'[c] # <<>>)
  BY <1>1, <1>2, PutOwn, Kept DEF ClientInv, StreamInv
<1>7. StreamInv(c)'
  BY <1>1, <1>4, <1>5, <1>6, <1>6a, Kept DEF StreamInv
<1>8. cuts[c] > 0 => cuts'[c] > 0
  BY <1>2
<1>9. ReplyInv(c)' /\ KeptInv(c)'
  BY <1>1, <1>4, Kept DEF ClientInv, ReplyInv, KeptInv
<1>10. JunkInv(c)' /\ BookInv(c)'
  BY <1>1, <1>4, <1>6a, <1>8, Kept DEF ClientInv, JunkInv, BookInv
<1> QED BY <1>3, <1>7, <1>9, <1>10 DEF ClientInv

LEMMA Tails ==
  ASSUME NEW m \in Nat
  PROVE  SubSeq(<<m, 0>>, 2, 2) = <<0>> /\ SubSeq(<<m, 0>>, 3, 2) = <<>>
<1>1. SubSeq(<<m, 0>>, 3, 2) = <<>>
  OBVIOUS
<1>2. SubSeq(<<m, 0>>, 2, 2) = <<0>>
  <2> DEFINE t == SubSeq(<<m, 0>>, 2, 2)
  <2>1. <<m, 0>> \in Seq(Nat) /\ Len(<<m, 0>>) = 2
    OBVIOUS
  <2>2. t \in Seq(Nat) /\ Len(t) = 1
    BY <2>1
  <2>3. t[1] = 0
    BY <2>1
  <2>4. \A u \in Seq(Nat) : Len(u) = 1 /\ u[1] = 0 => u = <<0>>
    OBVIOUS
  <2> QED BY <2>2, <2>3, <2>4
<1> QED BY <1>1, <1>2

\* What a receive takes: from a whole reply its own place, from what is left
\* of one the padding.
LEMMA GetKept ==
  ASSUME Inv, NEW c \in Clients, NEW n \in 1 .. Len(reply[c]), Get(c, n),
         UNCHANGED <<command, handled>>
  PROVE  /\ reads'[c] = reads[c] + 1 /\ Served(c)
         /\ \/ kept'[c] = 0 /\ reads[c] >= 1 /\ reply'[c] = <<>> /\ (HostQuery(c) \/ pc[c] = "done")
            \/ Placed(kept'[c], c) /\ reply'[c] \in {<<>>, <<0>>} /\ kept'[c] # 0
<1> USE DEF Inv, TypeInv
<1>1. reads'[c] = reads[c] + 1 /\ kept'[c] = Head(reply[c])
      /\ reply'[c] = SubSeq(reply[c], n + 1, Len(reply[c]))
  BY DEF Get
<1>2. Served(c)
  BY DEF ClientInv, KeptInv
<1>3. CASE reply[c] = <<0>> /\ reads[c] >= 1 /\ (HostQuery(c) \/ pc[c] = "done")
  <2>1. Head(<<0>>) = 0 /\ n = 1 /\ SubSeq(<<0>>, 2, 1) = <<>>
    BY <1>3
  <2> QED BY <1>1, <1>2, <1>3, <2>1
<1>4. ASSUME NEW m \in Nat, Placed(m, c), reply[c] = <<m, 0>>
      PROVE  Placed(kept'[c], c) /\ reply'[c] \in {<<>>, <<0>>} /\ kept'[c] # 0
  <2>1. Head(<<m, 0>>) = m /\ n \in {1, 2} /\ Len(<<m, 0>>) = 2
    BY <1>4
  <2>2. SubSeq(<<m, 0>>, 2, 2) = <<0>> /\ SubSeq(<<m, 0>>, 3, 2) = <<>>
    BY <1>4, Tails
  <2>3. m # 0
    BY <1>4 DEF Placed
  <2> QED BY <1>1, <1>4, <2>1, <2>2, <2>3
<1>5. reply[c] # <<>>
  OBVIOUS
<1> QED BY <1>1, <1>2, <1>3, <1>4, <1>5 DEF ClientInv, ReplyInv

LEMMA ReceiveInv ==
  ASSUME Inv, NEW c \in Clients, Receive(c)
  PROVE  Alone(c) /\ ClientInv(c)'
<1> USE DEF Inv, TypeInv
<1>1. UNCHANGED <<command, handled, cuts, link, stream, rest>> /\ pc[c] = "await" /\ ~HostQuery(c)
  BY DEF Receive, daemonVars
<1>2. PICK n \in 1 .. Len(reply[c]) : Get(c, n)
  BY DEF Receive
<1>3. /\ reads'[c] = reads[c] + 1 /\ Served(c) /\ kept'[c] # 0
      /\ Placed(kept'[c], c) /\ reply'[c] \in {<<>>, <<0>>}
  BY <1>1, <1>2, GetKept
<1>4. pc' = [pc EXCEPT ![c] = "done"]
  BY DEF Receive, Done
<1>5. Alone(c)
  BY <1>1, <1>2, <1>4 DEF Alone, Get, Receive, Done
<1>6. ReplyInv(c)' /\ KeptInv(c)'
  BY <1>1, <1>3, <1>4, Kept DEF ReplyInv, KeptInv, ClientInv
<1>7. StreamInv(c)' /\ JunkInv(c)' /\ BookInv(c)'
  BY <1>1, <1>3, <1>4, Kept DEF StreamInv, JunkInv, BookInv, ClientInv, Rest
<1> QED BY <1>5, <1>6, <1>7 DEF ClientInv

LEMMA ReceiveNothingInv ==
  ASSUME Inv, NEW c \in Clients, ReceiveNothing(c)
  PROVE  Alone(c) /\ ClientInv(c)'
<1> USE DEF Inv, TypeInv
<1>1. /\ UNCHANGED <<command, handled, cuts, kept, reads, link, stream, reply, rest>>
      /\ pc[c] = "await" /\ Lost(c)
  BY DEF ReceiveNothing, wireVars, daemonVars, Lost
<1>2. CASE Opt(c) # "hf"
  BY <1>1, <1>2, FailedInv DEF ReceiveNothing
<1>3. CASE Opt(c) = "hf"
  <2>1. pc' = [pc EXCEPT ![c] = "done"] /\ shown' = [shown EXCEPT ![c] = "table"]
    BY <1>3 DEF ReceiveNothing, Done
  <2>2. Alone(c)
    BY <1>1, <2>1 DEF Alone
  <2>3. ClientInv(c)'
    BY <1>1, <1>3, <2>1, Kept
       DEF ClientInv, ReplyInv, KeptInv, StreamInv, JunkInv, BookInv, Lost, Rest
  <2> QED BY <2>2, <2>3
<1> QED BY <1>2, <1>3

LEMMA HostsAskInv ==
  ASSUME Inv, NEW c \in Clients, HostsAsk(c)
  PROVE  Alone(c) /\ ClientInv(c)'
<1> USE DEF Inv, TypeInv
<1>1. UNCHANGED <<command, handled, cuts, kept, reads, reply, rest>> /\ pc[c] = "create"
      /\ HostQuery(c)
  BY DEF HostsAsk, daemonVars
<1>2. stream[c] = <<>>
  BY <1>1 DEF ClientInv, StreamInv
<1>3. CASE Put(c, 1) /\ Goto(c, "await")
  <2>1. Len(Request(c)) = 1
    BY <1>1 DEF HostQuery, Request
  <2>2. <<>> \o SubSeq(Request(c), 1, 1) = Request(c)
    BY <2>1, RequestType
  <2>3. stream'[c] \in {<<>>, Request(c)} /\ \A q \in 1 .. Len(stream'[c]) : stream'[c][q] \in Own(c)
    <3>1. stream'[c] \in {<<>>, Request(c)}
      BY <1>2, <1>3, <2>2 DEF Put
    <3>2. \A q \in 1 .. Len(stream[c]) : stream[c][q] \in Own(c)
      BY DEF ClientInv, StreamInv
    <3>3. \A q \in 1 .. Len(stream'[c]) : stream'[c][q] \in Own(c)
      <4>1. 1 \in 1 .. Len(Request(c))
        BY <2>1
      <4> QED BY <1>3, <3>2, <4>1, PutOwn
    <3> QED BY <3>1, <3>3
  <2>4. pc' = [pc EXCEPT ![c] = "await"] /\ shown' = shown
    BY <1>3 DEF Goto
  <2>5. Alone(c)
    BY <1>1, <1>3, <2>4 DEF Alone, Put
  <2>6. ClientInv(c)'
    <3>1. StreamInv(c)'
      BY <1>1, <2>3, <2>4, Kept DEF StreamInv
    <3>2. BookInv(c)'
      BY <1>1, Kept DEF BookInv, HostQuery
    <3>3. ReplyInv(c)' /\ KeptInv(c)' /\ JunkInv(c)'
      BY <1>1, <2>4, Kept DEF ClientInv, ReplyInv, KeptInv, JunkInv
    <3> QED BY <3>1, <3>2, <3>3 DEF ClientInv
  <2> QED BY <2>5, <2>6
<1>4. CASE UNCHANGED <<link, stream>> /\ Done(c, "failed")
  BY <1>1, <1>4, FailedInv
<1>5. CASE UNCHANGED <<link, stream>> /\ Done(c, "table")
  <2>1. pc' = [pc EXCEPT ![c] = "done"] /\ shown' = [shown EXCEPT ![c] = "table"]
    BY <1>5 DEF Done
  <2>2. Alone(c)
    BY <1>1, <1>5, <2>1 DEF Alone
  <2>3. ~Served(c)
    BY <1>1 DEF ClientInv, StreamInv
  <2>4. ClientInv(c)'
    BY <1>1, <1>2, <1>5, <2>1, <2>3, Kept
       DEF ClientInv, ReplyInv, KeptInv, StreamInv, JunkInv, BookInv, Rest
  <2> QED BY <2>2, <2>4
<1> QED BY <1>3, <1>4, <1>5 DEF HostsAsk

LEMMA HostsReceiveInv ==
  ASSUME Inv, NEW c \in Clients, HostsReceive(c)
  PROVE  Alone(c) /\ ClientInv(c)'
<1> USE DEF Inv, TypeInv
<1>1. UNCHANGED <<command, handled, cuts, link, stream, rest>> /\ pc[c] = "await" /\ HostQuery(c)
  BY DEF HostsReceive, daemonVars
<1>2. PICK n \in 1 .. Len(reply[c]) :
        Get(c, n) /\ IF n = Len(reply[c]) THEN Done(c, "table") ELSE Goto(c, "await")
  BY DEF HostsReceive
<1>3. /\ reads'[c] = reads[c] + 1 /\ Served(c)
      /\ \/ kept'[c] = 0 /\ reads[c] >= 1 /\ reply'[c] = <<>>
         \/ Placed(kept'[c], c) /\ reply'[c] \in {<<>>, <<0>>} /\ kept'[c] # 0
  BY <1>1, <1>2, GetKept
<1>4. /\ pc'[c] \in {"await", "done"} /\ (pc'[c] # "done" => shown'[c] = "nothing")
      /\ \A d \in Clients \ {c} : pc'[d] = pc[d] /\ shown'[d] = shown[d]
  BY <1>1, <1>2 DEF Done, Goto, ClientInv, KeptInv
<1>5. Alone(c)
  BY <1>1, <1>2, <1>4 DEF Alone, Get
<1>6. ReplyInv(c)' /\ KeptInv(c)'
  BY <1>1, <1>3, <1>4, Kept DEF ReplyInv, KeptInv, ClientInv
<1>7. StreamInv(c)' /\ BookInv(c)'
  BY <1>1, <1>4, Kept DEF StreamInv, BookInv, ClientInv, HostQuery
<1>8. JunkInv(c)'
  BY <1>1, <1>3, <1>4, Kept DEF JunkInv, ClientInv
<1> QED BY <1>5, <1>6, <1>7, <1>8 DEF ClientInv

LEMMA ClientStepInv ==
  ASSUME Inv, NEW c \in Clients, ClientStep(c)
  PROVE  Alone(c) /\ ClientInv(c)'
<1>1. CASE ConnectionError(c)
  BY <1>1, FailedInv DEF ConnectionError, wireVars, daemonVars
<1> QED BY <1>1, StartInv, CreatedInv, SendInv, ReceiveInv, ReceiveNothingInv,
           HostsAskInv, HostsReceiveInv DEF ClientStep

-----------------------------------------------------------------------------
(* The steps of the network and the daemon.                                *)

\* A connection that is made, and those that end.
LEMMA LinksInv ==
  ASSUME Inv, UNCHANGED <<clientVars, stream, reply, handled, rest>>,
         \A d \in Clients : Lost(d) => Lost(d)'
  PROVE  Once' /\ \A d \in Clients : ClientInv(d)'
<1>1. Once'
  BY DEF Inv, Once
<1>2. ASSUME NEW d \in Clients PROVE ClientInv(d)'
  <2>1. \A n \in Nat : Placed(n, d)' <=> Placed(n, d)
    BY DEF Placed
  <2> QED BY <2>1, Untouched, HandedKept DEF Inv, clientVars
<1> QED BY <1>1, <1>2

LEMMA EstablishedInv ==
  ASSUME Inv, NEW c \in Clients, Established(c)
  PROVE  Once' /\ \A d \in Clients : ClientInv(d)'
<1>1. \A d \in Clients : Lost(d) => Lost(d)'
  BY DEF Established, Lost, Inv, TypeInv
<1> QED BY <1>1, LinksInv DEF Established, daemonVars

LEMMA DieInv ==
  ASSUME Inv, Die
  PROVE  Once' /\ \A d \in Clients : ClientInv(d)'
<1>1. \A d \in Clients : Lost(d) => Lost(d)'
  BY DEF Die, Lost
<1> QED BY <1>1, LinksInv DEF Die

\* What handling a request does to the places of all.
LEMMA ServePlaces ==
  ASSUME Inv, NEW c \in Clients, Serve(c)
  PROVE  /\ handled' = Append(handled, c) /\ ~Served(c)
         /\ Len(handled') = Len(handled) + 1 /\ Len(handled) \in Nat
         /\ \A n \in Nat : Placed(n, c)' <=> n = Len(handled) + 1
         /\ \A d \in Clients \ {c} : \A n \in Nat : Placed(n, d)' <=> Placed(n, d)
         /\ Once'
         /\ \A n \in 1 .. Len(handled) : Handed(n)' = Handed(n)
         /\ \A n \in Nat : n = Len(handled) + 1 => Handed(n)' = Handed(Len(handled)) \cup Own(c)
<1>0. TypeInv /\ Once /\ handled \in Seq(Clients)
  BY DEF Inv, TypeInv
<1>1. handled' = Append(handled, c) /\ ~Served(c)
  BY <1>0, ServedRange DEF Serve
<1>2. /\ Len(handled') = Len(handled) + 1 /\ Len(handled) \in Nat
      /\ handled'[Len(handled')] = c
      /\ \A n \in 1 .. Len(handled) : handled'[n] = handled[n]
      /\ \A n \in 1 .. Len(handled) : handled[n] \in Clients
  BY <1>0, <1>1
<1>3. \A n \in 1 .. Len(handled) : handled[n] # c
  BY <1>1, <1>2 DEF Served, Placed
<1>4. \A n \in Nat : Placed(n, c)' <=> n = Len(handled) + 1
  BY <1>2, <1>3 DEF Placed
<1>5. \A d \in Clients \ {c} : \A n \in Nat : Placed(n, d)' <=> Placed(n, d)
  BY <1>2 DEF Placed
<1>6. Once'
  BY <1>0, <1>2, <1>3 DEF Once
<1>7. \A n \in 0 .. Len(handled) : Handed(n)' = Handed(n)
  BY <1>2 DEF Handed, Head1, Rest
<1>8. ASSUME NEW n \in Nat, n = Len(handled) + 1
      PROVE  Handed(n)' = Handed(Len(handled)) \cup Own(c)
  <2>1. \A j \in 1 .. Len(handled) + 1 : j \in 1 .. Len(handled) \/ j = Len(handled) + 1
    BY <1>2
  <2>2. \A j \in 1 .. Len(handled) : j \in 1 .. Len(handled) + 1
    BY <1>2
  <2>3. Len(handled) + 1 \in 1 .. Len(handled) + 1 /\ handled'[Len(handled) + 1] = c
    BY <1>2
  <2>4. Handed(n)' = {<<>>} \cup UNION {{Head1(handled'[j]), Rest(handled'[j])} : j \in 1 .. n}
    BY DEF Handed, Head1, Rest
  <2>5. \A j \in 1 .. n : \/ j \in 1 .. Len(handled) /\ handled'[j] = handled[j]
                          \/ handled'[j] = c
    BY <1>2, <1>8, <2>1
  <2>6. \A j \in 1 .. Len(handled) : j \in 1 .. n /\ handled'[j] = handled[j]
    BY <1>2, <1>8, <2>2
  <2>7. n \in 1 .. n /\ handled'[n] = c
    BY <1>8, <2>3
  <2> QED BY <2>4, <2>5, <2>6, <2>7 DEF Handed, Own
<1> QED BY <1>1, <1>2, <1>4, <1>5, <1>6, <1>7, <1>8

\* What one receive takes and leaves.
LEMMA ServeTakes ==
  ASSUME Inv, NEW c \in Clients, Serve(c)
  PROVE  /\ \E s \in Seq(AllParts) : stream' = [stream EXCEPT ![c] = s]
         /\ \A q \in 1 .. Len(stream'[c]) : stream'[c][q] \in Own(c)
         /\ Len(stream'[c]) <= Len(stream[c]) /\ Len(stream'[c]) \in Nat
         /\ buffer' \in Own(c) \cup {buffer}
         /\ stream[c] = <<Head1(c), Rest(c)>> => buffer' = Rest(c) \/ stream'[c] # <<>>
<1> DEFINE s == stream[c]
<1>1. s \in Seq(AllParts) /\ Len(s) \in Nat /\ \A q \in 1 .. Len(s) : s[q] \in Own(c)
  BY DEF Inv, TypeInv, ClientInv, StreamInv
<1>2. PICK n \in 1 .. Len(s) :
        /\ buffer' = IF n > 1 THEN s[2] ELSE buffer
        /\ stream' = [stream EXCEPT ![c] = SubSeq(s, n + 1, Len(s))]
  BY DEF Serve
<1>3. stream'[c] = SubSeq(s, n + 1, Len(s))
  BY <1>2 DEF Inv, TypeInv
<1> HIDE DEF s
<1>4. /\ SubSeq(s, n + 1, Len(s)) \in Seq(AllParts)
      /\ Len(SubSeq(s, n + 1, Len(s))) = Len(s) - n
      /\ \A q \in 1 .. Len(s) - n : SubSeq(s, n + 1, Len(s))[q] = s[n + q] /\ n + q \in 1 .. Len(s)
  BY <1>1
<1>5. \A q \in 1 .. Len(stream'[c]) : stream'[c][q] \in Own(c)
  BY <1>1, <1>3, <1>4
<1>6. buffer' \in Own(c) \cup {buffer}
  <2>1. n > 1 => 2 \in 1 .. Len(s)
    BY <1>1
  <2> QED BY <1>1, <1>2, <2>1
<1>7. ASSUME s = <<Head1(c), Rest(c)>> PROVE buffer' = Rest(c) \/ stream'[c] # <<>>
  <2>1. n \in {1, 2} /\ Len(s) = 2 /\ s[2] = Rest(c)
    BY <1>7
  <2>2. CASE n = 1
    BY <1>3, <1>4, <2>1, <2>2
  <2>3. CASE n = 2
    BY <1>2, <2>1, <2>3
  <2> QED BY <2>1, <2>2, <2>3
<1>8. Len(stream'[c]) <= Len(s) /\ Len(stream'[c]) \in Nat
  BY <1>1, <1>3, <1>4
<1> QED BY <1>2, <1>4, <1>5, <1>6, <1>7, <1>8 DEF s

LEMMA ServeInv ==
  ASSUME Inv, NEW c \in Clients, Serve(c)
  PROVE  /\ Once' /\ (buffer \in Handed(Len(handled)))'
         /\ \A d \in Clients : ClientInv(d)'
<1> USE DEF Inv, TypeInv
<1>1. /\ UNCHANGED <<command, pc, cuts, kept, reads, shown, link>>
      /\ link[c] = "up" /\ stream[c] # <<>>
      /\ reply' = [reply EXCEPT ![c] = <<Len(handled'), 0>>]
      /\ rest' = [rest EXCEPT ![c] = buffer']
  BY DEF Serve, clientVars
<1>1a. \E s \in Seq(AllParts) : stream' = [stream EXCEPT ![c] = s]
  BY ServeTakes
<1>2. ASSUME NEW d \in Clients, d # c PROVE ClientInv(d)'
  <2>1. Lost(d) => Lost(d)'
    BY <1>1 DEF Lost
  <2>2. /\ \A n \in Nat : Placed(n, d)' <=> Placed(n, d)
        /\ \A n \in 1 .. Len(handled) : Handed(n)' = Handed(n)
    BY <1>2, ServePlaces
  <2>3. stream'[d] = stream[d] /\ reply'[d] = reply[d] /\ rest'[d] = rest[d]
    BY <1>1, <1>1a, <1>2
  <2> QED BY <1>1, <1>2, <2>1, <2>2, <2>3, Untouched
<1>3. /\ Opt(c)' = Opt(c) /\ (HostQuery(c)' <=> HostQuery(c)) /\ Request(c)' = Request(c)
      /\ Rest(c)' = Rest(c)
  BY <1>1 DEF Opt, HostQuery, Request, Head1, Rest
<1>4. ~Served(c) /\ kept[c] = 0 /\ reads[c] = 0
  BY ServePlaces DEF ClientInv, KeptInv
<1>5. PICK m \in Nat : reply'[c] = <<m, 0>> /\ Placed(m, c)'
  <2>1. PICK m \in Nat : m = Len(handled')
    BY ServePlaces
  <2>2. reply'[c] = <<m, 0>>
    BY <1>1, <2>1
  <2>3. m = Len(handled) + 1 /\ Placed(m, c)'
    BY <2>1, ServePlaces
  <2> QED BY <2>2, <2>3
<1>5a. Served(c)'
  BY <1>5 DEF Served
<1>6. ReplyInv(c)'
  BY <1>5 DEF ReplyInv
<1>7. KeptInv(c)'
  BY <1>1, <1>4, <1>5a DEF KeptInv, ClientInv
<1>8. StreamInv(c)'
  <2>1. (\A q \in 1 .. Len(stream[c]) : stream[c][q] \in Own(c))'
    BY <1>3, ServeTakes DEF Own, Head1, Rest
  <2>2. /\ ~(HostQuery(c) /\ pc[c] \in {"start", "create"})
        /\ ~(cuts[c] = 0 /\ pc[c] \in {"start", "create", "send"})
    BY <1>1 DEF ClientInv, StreamInv
  <2> QED BY <1>1, <1>3, <1>5a, <2>1, <2>2 DEF StreamInv
<1>9. JunkInv(c)'
  BY <1>1, <1>3, <1>4 DEF JunkInv, ClientInv, Lost
<1>9a. ASSUME NEW n \in Nat, n = Len(handled) + 1 PROVE buffer' \in Handed(n)'
  BY <1>9a, ServePlaces, ServeTakes
<1>10. BookInv(c)'
  <2>1. SUFFICES ASSUME NEW n \in Nat, Opt(c) = "hf", n = Len(handled) + 1
        PROVE  (\/ rest[c] = Rest(c)
                \/ (cuts[c] > 0 \/ stream[c] # <<>>) /\ rest[c] \in Handed(n))'
    BY <1>3, ServePlaces DEF BookInv
  <2>2. rest'[c] = buffer' /\ cuts'[c] = cuts[c] /\ buffer' \in Handed(n)'
    BY <1>1, <1>9a, <2>1
  <2>3. CASE cuts[c] > 0
    BY <2>2, <2>3
  <2>4. CASE cuts[c] = 0
    <3>1. stream[c] = <<Head1(c), Rest(c)>>
      BY <1>1, <1>4, <2>1, <2>4 DEF ClientInv, StreamInv, Request
    <3>2. buffer' = Rest(c) \/ stream'[c] # <<>>
      BY <3>1, ServeTakes
    <3> QED BY <1>3, <2>2, <3>2
  <2>5. cuts[c] = 0 \/ cuts[c] > 0
    OBVIOUS
  <2> QED BY <2>3, <2>4, <2>5
<1>11. ClientInv(c)'
  BY <1>6, <1>7, <1>8, <1>9, <1>10 DEF ClientInv
<1>12. (buffer \in Handed(Len(handled)))'
  <2>1. PICK n \in Nat : n = Len(handled) + 1
    BY ServePlaces
  <2>2. Len(handled') = n /\ buffer' \in Handed(n)'
    BY <1>9a, <2>1, ServePlaces
  <2> QED BY <2>2 DEF Handed, Head1, Rest
<1> QED BY <1>2, <1>11, <1>12, ServePlaces

-----------------------------------------------------------------------------
(* Types, and the invariant of the specification.                          *)

LEMMA PutType ==
  ASSUME TypeInv, NEW c \in Clients, NEW n \in 1 .. Len(Request(c)), Put(c, n)
  PROVE  /\ stream' \in [Clients -> Seq(AllParts)]
         /\ link' \in [Clients -> {"none", "syn", "up", "refused", "closed", "reset"}]
<1>1. stream[c] \o SubSeq(Request(c), 1, n) \in Seq(AllParts)
  <2>1. SubSeq(Request(c), 1, n) \in Seq(AllParts)
    BY RequestType
  <2> QED BY <2>1 DEF TypeInv
<1> QED BY <1>1 DEF Put, TypeInv

LEMMA GetType ==
  ASSUME TypeInv, NEW c \in Clients, NEW n \in 1 .. Len(reply[c]), Get(c, n)
  PROVE  kept' \in [Clients -> Nat] /\ reads' \in [Clients -> Nat]
         /\ reply' \in [Clients -> Seq(Nat)]
<1>1. reply[c] \in Seq(Nat) /\ reply[c] # <<>>
  BY DEF TypeInv
<1>2. Head(reply[c]) \in Nat /\ SubSeq(reply[c], n + 1, Len(reply[c])) \in Seq(Nat)
  BY <1>1
<1>3. /\ kept' = [kept EXCEPT ![c] = Head(reply[c])] /\ reads' = [reads EXCEPT ![c] = @ + 1]
      /\ reply' = [reply EXCEPT ![c] = SubSeq(reply[c], n + 1, Len(reply[c]))]
  BY DEF Get
<1>4. kept \in [Clients -> Nat] /\ reads \in [Clients -> Nat] /\ reply \in [Clients -> Seq(Nat)]
  BY DEF TypeInv
<1> QED BY <1>2, <1>3, <1>4

LEMMA ServeType ==
  ASSUME Inv, NEW c \in Clients, Serve(c)
  PROVE  TypeInv'
<1> USE DEF Inv
<1>1. handled \in Seq(Clients)
  BY DEF TypeInv
<1>2. buffer' \in AllParts \cup {<<>>} /\ stream' \in [Clients -> Seq(AllParts)]
  <2>1. Own(c) \subseteq AllParts
    BY DEF Own, Head1, Rest, AllParts
  <2> QED BY <2>1, ServeTakes DEF TypeInv
<1>3. handled' \in Seq(Clients) /\ Len(handled') \in Nat
  BY <1>1 DEF Serve
<1>4. <<Len(handled'), 0>> \in Seq(Nat)
  BY <1>3
<1> QED BY <1>2, <1>3, <1>4 DEF Serve, TypeInv, clientVars

LEMMA StepType ==
  ASSUME TypeInv, NEW c \in Clients, ClientStep(c)
  PROVE  TypeInv'
<1>1. UNCHANGED <<daemon, handled, rest, buffer>>
  BY DEF ClientStep, Start, Created, ConnectionError, Send, Receive, ReceiveNothing,
         HostsAsk, HostsReceive, daemonVars
<1>2. CASE Start(c)
  BY <1>1, <1>2 DEF Start, Done, Goto, TypeInv
<1>3. CASE Created(c) \/ ConnectionError(c) \/ ReceiveNothing(c)
  BY <1>1, <1>3 DEF Created, ConnectionError, ReceiveNothing, Done, Goto, wireVars, TypeInv
<1>4. CASE Send(c)
  <2>1. PICK n \in 1 .. Len(Request(c)) : Put(c, n)
    BY <1>4 DEF Send
  <2>2. cuts' = cuts \/ cuts' = [cuts EXCEPT ![c] = @ + 1]
    BY <1>4 DEF Send
  <2>2a. cuts' \in [Clients -> Nat]
    <3>1. cuts \in [Clients -> Nat]
      BY DEF TypeInv
    <3>2. cuts[c] + 1 \in Nat
      BY <3>1
    <3> QED BY <2>2, <3>1, <3>2
  <2>3. /\ pc' \in [Clients -> {"start", "create", "send", "await", "done"}]
        /\ shown' \in [Clients -> {"nothing", "failed", "table"}]
    BY <1>4 DEF Send, Done, Goto, TypeInv
  <2> QED BY <1>1, <1>4, <2>1, <2>2a, <2>3, PutType DEF Send, TypeInv
<1>5. CASE Receive(c)
  BY <1>1, <1>5, GetType DEF Receive, Done, TypeInv
<1>6. CASE HostsAsk(c)
  <2>1. /\ stream' \in [Clients -> Seq(AllParts)]
        /\ link' \in [Clients -> {"none", "syn", "up", "refused", "closed", "reset"}]
    <3>1. 1 \in 1 .. Len(Request(c))
      BY RequestType
    <3>2. Put(c, 1) \/ UNCHANGED <<link, stream>>
      BY <1>6 DEF HostsAsk
    <3> QED BY <3>1, <3>2, PutType DEF TypeInv
  <2>2. /\ pc' \in [Clients -> {"start", "create", "send", "await", "done"}]
        /\ shown' \in [Clients -> {"nothing", "failed", "table"}]
    BY <1>6 DEF HostsAsk, Done, Goto, TypeInv
  <2> QED BY <1>1, <1>6, <2>1, <2>2 DEF HostsAsk, TypeInv
<1>7. CASE HostsReceive(c)
  <2>1. /\ pc' \in [Clients -> {"start", "create", "send", "await", "done"}]
        /\ shown' \in [Clients -> {"nothing", "failed", "table"}]
    BY <1>7 DEF HostsReceive, Done, Goto, TypeInv
  <2> QED BY <1>1, <1>7, <2>1, GetType DEF HostsReceive, TypeInv
<1> QED BY <1>2, <1>3, <1>4, <1>5, <1>6, <1>7 DEF ClientStep

LEMMA LinkType ==
  ASSUME TypeInv
  PROVE  Die \/ (\E c \in Clients : Established(c)) => TypeInv'
<1>1. CASE Die
  <2>1. link' \in [Clients -> {"none", "syn", "up", "refused", "closed", "reset"}]
    BY <1>1 DEF Die, TypeInv
  <2> QED BY <1>1, <2>1 DEF Die, TypeInv, clientVars
<1>2. ASSUME NEW c \in Clients, Established(c) PROVE TypeInv'
  BY <1>2 DEF Established, TypeInv, clientVars, daemonVars
<1> QED BY <1>1, <1>2

LEMMA NextInv == Inv /\ [Next]_vars => Inv'
<1> SUFFICES ASSUME Inv, [Next]_vars PROVE Inv'
  OBVIOUS
<1>0. ASSUME handled' = handled, buffer' = buffer PROVE (buffer \in Handed(Len(handled)))'
  <2>1. \A n : Handed(n)' = Handed(n)
    BY <1>0, HandedKept
  <2> QED BY <1>0, <2>1 DEF Inv, Handed, Head1, Rest
<1>1. CASE Die
  <2>1. handled' = handled /\ buffer' = buffer
    BY <1>1 DEF Die
  <2> QED BY <1>0, <1>1, <2>1, DieInv, LinkType DEF Inv
<1>2. ASSUME NEW c \in Clients, ClientStep(c) PROVE Inv'
  <2>1. handled' = handled /\ buffer' = buffer
    BY <1>2 DEF ClientStep, Start, Created, ConnectionError, Send, Receive, ReceiveNothing,
                HostsAsk, HostsReceive, daemonVars
  <2> QED BY <1>0, <1>2, <2>1, ClientStepInv, AloneSuffices, StepType DEF Inv
<1>3. ASSUME NEW c \in Clients, Established(c) PROVE Inv'
  <2>1. handled' = handled /\ buffer' = buffer
    BY <1>3 DEF Established, daemonVars
  <2> QED BY <1>0, <1>3, <2>1, EstablishedInv, LinkType DEF Inv
<1>4. ASSUME NEW c \in Clients, Serve(c) PROVE Inv'
  BY <1>4, ServeInv, ServeType DEF Inv
<1>5. CASE UNCHANGED vars
  <2>1. UNCHANGED <<clientVars, stream, reply, daemon, handled, rest, buffer, link>>
    BY <1>5 DEF vars, wireVars, daemonVars
  <2>2. TypeInv'
    BY <2>1 DEF Inv, TypeInv, clientVars
  <2>3. \A d \in Clients : Lost(d) => Lost(d)'
    BY <2>1 DEF Lost
  <2> QED BY <1>0, <2>1, <2>2, <2>3, LinksInv DEF Inv
<1> QED BY <1>1, <1>2, <1>3, <1>4, <1>5 DEF Next

LEMMA InvHolds == Spec => []Inv
BY InitInv, NextInv, PTL DEF Spec

\* A client prints junk as a table only where JunkHasCause says so, in any
\* number of invocations and whatever their sends and replies are cut into.
THEOREM JunkCorrect == Spec => []JunkHasCause
<1>1. Inv => JunkHasCause
  BY ServedRange DEF Inv, ClientInv, JunkInv, JunkHasCause
<1> QED BY <1>1, InvHolds, PTL

\* A job is booked with its own strings unless its submission was sent or read in
\* pieces, and then with what the job monitor's buffer keeps of a request that was
\* handled before it, however many requests there are.
THEOREM BookedCorrect == Spec => []BookedWhole
<1>1. Inv => BookedWhole
  <2> SUFFICES ASSUME Inv, NEW i \in 1 .. Len(handled), Opt(handled[i]) = "hf"
               PROVE  \/ rest[handled[i]] = Rest(handled[i])
                      \/ /\ cuts[handled[i]] > 0 \/ stream[handled[i]] # <<>>
                         /\ rest[handled[i]] \in Handed(i)
    BY DEF BookedWhole
  <2>1. handled[i] \in Clients /\ i \in Nat /\ Placed(i, handled[i])
    BY DEF Inv, TypeInv, Placed
  <2> QED BY <2>1 DEF Inv, ClientInv, BookInv
<1> QED BY <1>1, InvHolds, PTL

-----------------------------------------------------------------------------
(* The exchange that is implemented.                                       *)

Told == [c \in Clients |-> IF shown[c] = "table" THEN kept[c] ELSE 0]

\* A step of one client that handles nothing tells its user at most what its
\* buffer holds.
LEMMA ClientStepTells ==
  ASSUME Inv, NEW c \in Clients, ClientStep(c)
  PROVE  Told' = Told \/ ImplementsExchange!Tell(c)
<1> USE DEF Inv, TypeInv
<1>1. Alone(c) /\ ClientInv(c)'
  BY ClientStepInv
<1>2. \A d \in Clients \ {c} : Told'[d] = Told[d]
  BY <1>1 DEF Alone, Told
<1>3. Told[c] # 0 => pc[c] = "done"
  BY DEF ClientInv, KeptInv, Told
<1>4. pc[c] # "done"
  BY DEF ClientStep, Start, Created, ConnectionError, Send, Receive, ReceiveNothing,
         HostsAsk, HostsReceive
<1>5. Told[c] = 0
  BY <1>3, <1>4
<1>6. CASE Told'[c] = 0
  BY <1>2, <1>5, <1>6 DEF Told
<1>7. CASE Told'[c] # 0
  <2>1. Told'[c] = kept'[c] /\ kept'[c] # 0
    BY <1>7 DEF Told
  <2>2. Placed(kept'[c], c)
    BY <1>1, <2>1 DEF ClientInv, KeptInv, Placed, Alone
  <2>3. Told' = [Told EXCEPT ![c] = kept'[c]]
    BY <1>2, <2>1 DEF Told
  <2> QED BY <1>1, <1>5, <2>2, <2>3 DEF ImplementsExchange!Tell, Placed, Alone, Told
<1> QED BY <1>6, <1>7

\* Every step handles a request, tells a reply, or is none of the exchange.
LEMMA StepImplements ==
  Inv /\ [Next]_vars => [ImplementsExchange!Next]_(ImplementsExchange!vars)
<1> SUFFICES ASSUME Inv, [Next]_vars
             PROVE  ImplementsExchange!Next \/ UNCHANGED <<handled, Told>>
  BY DEF ImplementsExchange!vars, Told
<1>1. ASSUME NEW c \in Clients, ClientStep(c)
      PROVE  ImplementsExchange!Next \/ UNCHANGED <<handled, Told>>
  BY <1>1, ClientStepInv, ClientStepTells DEF Alone, ImplementsExchange!Next
<1>2. ASSUME NEW c \in Clients, Serve(c) PROVE ImplementsExchange!Handle(c)
  <2>1. Told' = Told
    BY <1>2 DEF Serve, clientVars, Told
  <2>2. handled' = Append(handled, c) /\ ~Served(c)
    BY <1>2, ServePlaces
  <2>3. Len(handled) \in Nat
    BY DEF Inv, TypeInv
  <2>4. \A n \in 1 .. Len(handled) : handled[n] # c
    BY <2>2, <2>3 DEF Served, Placed
  <2> QED BY <2>1, <2>2, <2>4 DEF ImplementsExchange!Handle, Told
<1>3. CASE Die \/ (\E c \in Clients : Established(c)) \/ UNCHANGED vars
  BY <1>3 DEF Die, Established, vars, clientVars, daemonVars, Told
<1> QED BY <1>1, <1>2, <1>3 DEF Next, ImplementsExchange!Next

\* epbscli and the daemon implement the exchange: no request is handled
\* twice, and no user is told an answer that was given to another.
THEOREM ExchangeCorrect == Spec => ExchangeSpec
<1>1. Init => ImplementsExchange!Init
  BY DEF Init, ImplementsExchange!Init
<1> QED BY <1>1, InvHolds, StepImplements, PTL
        DEF Spec, ExchangeSpec, ImplementsExchange!Spec

-----------------------------------------------------------------------------
(* Sizes.                                                                  *)

\* A set of numbers up to N has its Max as a member: the least of the distances
\* to N exists.
LEMMA MaxOf ==
  ASSUME NEW N \in Nat, NEW S, S \subseteq 1 .. N, S # {}
  PROVE  Max(S) \in S
<1> DEFINE T == {N - x : x \in S}
           R == OpToRel(<, Nat)
<1>1. T \subseteq Nat /\ T # {}
  <2>1. \A x \in S : N - x \in Nat
    OBVIOUS
  <2> QED BY <2>1
<1>2. PICK t \in T : \A y \in T : <<y, t>> \notin R
  <2> HIDE DEF T, R
  <2>1. IsWellFoundedOn(R, Nat)
    BY NatLessThanWellFounded DEF R
  <2> QED BY <1>1, <2>1, WFMin
<1>3. \A y \in T : ~(y < t)
  BY <1>1, <1>2 DEF OpToRel
<1>4. PICK x \in S : t = N - x
  OBVIOUS
<1>5. \A y \in S : x >= y
  <2> TAKE y \in S
  <2>1. ~(N - y < N - x)
    BY <1>3, <1>4
  <2>2. x \in Int /\ y \in Int
    OBVIOUS
  <2> HIDE DEF T
  <2> QED BY <2>1, <2>2
<1> QED BY <1>5 DEF Max

\* The option that decides is a selecting one, wherever it is on the line.
LEMMA CommandSelects ==
  ASSUME NEW o \in OptionLists
  PROVE  CommandOf(o).opt \in Selecting \cup {"none"}
<1> DEFINE chosen == {n \in DOMAIN o : o[n].opt \in Selecting}
<1>1. CASE chosen = {}
  BY <1>1 DEF CommandOf, None
<1>2. CASE chosen # {}
  <2>1. Len(o) \in Nat /\ chosen \subseteq 1 .. Len(o)
    BY OptionAssumption
  <2>2. Max(chosen) \in chosen
    <3> HIDE DEF chosen
    <3> QED BY <1>2, <2>1, MaxOf
  <2>3. CommandOf(o) = o[Max(chosen)]
    BY <1>2 DEF CommandOf
  <2> QED BY <2>2, <2>3
<1> QED BY <1>1, <1>2

\* How often its whole request a client has sent at most: once more than it was
\* cut when it waits for the reply.
Sendings(c) == IF pc[c] \in {"start", "create", "send"} THEN cuts[c] ELSE 1 + cuts[c]

SizeInv(c) ==
  /\ Opt(c) \in Selecting \cup {"none"}
  /\ cuts[c] <= MaxCuts
  /\ reads[c] + Len(reply[c]) <= 2
  /\ Len(stream[c]) <= Sendings(c) * Len(Request(c))

LEMMA RequestSize == \A c \in Clients : Len(Request(c)) \in {1, 2}
BY DEF Request

LEMMA SizeInit == Init => \A c \in Clients : SizeInv(c)
<1> SUFFICES ASSUME Init, NEW c \in Clients PROVE SizeInv(c)
  OBVIOUS
<1>1. Opt(c) \in Selecting \cup {"none"}
  BY CommandSelects DEF Init, Opt
<1>2. Len(stream[c]) = 0 /\ cuts[c] = 0 /\ pc[c] = "start" /\ Len(reply[c]) = 0 /\ reads[c] = 0
  BY DEF Init
<1> QED BY <1>1, <1>2, RequestSize, ClientAssumption DEF SizeInv, Sendings

LEMMA SizeTypes ==
  ASSUME TypeInv, NEW c \in Clients
  PROVE  /\ cuts[c] \in Nat /\ reads[c] \in Nat /\ reply[c] \in Seq(Nat) /\ stream[c] \in Seq(AllParts)
         /\ Len(reply[c]) \in Nat /\ Len(stream[c]) \in Nat /\ Len(Request(c)) \in {1, 2}
         /\ pc[c] \in {"start", "create", "send", "await", "done"}
BY RequestSize DEF TypeInv

\* A client whose request, cuts, parts and replies are left alone.
LEMMA SizeSame ==
  ASSUME TypeInv, NEW d \in Clients, SizeInv(d), command' = command,
         cuts'[d] = cuts[d], reads'[d] = reads[d], reply'[d] = reply[d], stream'[d] = stream[d],
         Sendings(d) <= Sendings(d)'
  PROVE  SizeInv(d)'
<1>1. Opt(d)' = Opt(d) /\ Request(d)' = Request(d)
  BY DEF Opt, Request, Head1, Rest
<1>2. Sendings(d) \in Nat /\ Sendings(d)' \in Nat
  BY SizeTypes DEF Sendings
<1>3. Sendings(d) * Len(Request(d)) <= Sendings(d)' * Len(Request(d))
  <2>1. CASE Len(Request(d)) = 1
    BY <1>2, <2>1
  <2>2. CASE Len(Request(d)) = 2
    BY <1>2, <2>2
  <2> QED BY <2>1, <2>2, RequestSize
<1> QED BY <1>1, <1>2, <1>3, SizeTypes DEF SizeInv

LEMMA SizeSend ==
  ASSUME Inv, NEW c \in Clients, SizeInv(c), Send(c)
  PROVE  SizeInv(c)'
<1>1. PICK n \in 1 .. Len(Request(c)) :
        /\ Put(c, n)
        /\ IF n = Len(Request(c)) THEN UNCHANGED cuts
           ELSE cuts[c] < MaxCuts /\ cuts' = [cuts EXCEPT ![c] = @ + 1]
        /\ IF Opt(c) = "jc" THEN Done(c, "nothing")
           ELSE Goto(c, IF n = Len(Request(c)) THEN "await" ELSE "send")
  BY DEF Send
<1>2. UNCHANGED <<command, reads, reply>> /\ pc[c] = "send"
  BY DEF Send
<1>3. Opt(c)' = Opt(c) /\ Request(c)' = Request(c)
  BY <1>2 DEF Opt, Request, Head1, Rest
<1>4. pc \in [Clients -> {"start", "create", "send", "await", "done"}]
      /\ cuts \in [Clients -> Nat] /\ stream \in [Clients -> Seq(AllParts)]
  BY DEF Inv, TypeInv
<1>5. pc'[c] = IF Opt(c) # "jc" /\ n # Len(Request(c)) THEN "send"
               ELSE IF Opt(c) = "jc" THEN "done" ELSE "await"
  BY <1>1, <1>4 DEF Done, Goto
<1>6. cuts'[c] = IF n = Len(Request(c)) THEN cuts[c] ELSE cuts[c] + 1
  BY <1>1, <1>4
<1>7. Len(stream'[c]) \in Nat /\ Len(stream'[c]) <= Len(stream[c]) + n
  <2>1. CASE stream' = [stream EXCEPT ![c] = @ \o SubSeq(Request(c), 1, n)]
    <3>1. SubSeq(Request(c), 1, n) \in Seq(AllParts) /\ Len(SubSeq(Request(c), 1, n)) = n
      BY RequestType, RequestSize
    <3>2. stream'[c] = stream[c] \o SubSeq(Request(c), 1, n)
      BY <1>4, <2>1
    <3> QED BY <1>4, <3>1, <3>2
  <2>2. CASE stream' = stream
    BY <2>2, SizeTypes DEF Inv
  <2> QED BY <1>1, <2>1, <2>2 DEF Put
<1>8. Len(stream[c]) <= cuts[c] * Len(Request(c)) /\ cuts[c] <= MaxCuts
  BY <1>2 DEF SizeInv, Sendings
<1>9. Len(stream'[c]) <= Sendings(c)' * Len(Request(c))
  <2>1. Sendings(c)' = cuts[c] + 1 \/ Sendings(c)' = cuts[c] + 2
    BY <1>5, <1>6, <1>4 DEF Sendings
  <2>2. Len(Request(c)) \in {1, 2} /\ cuts[c] \in Nat /\ Len(stream[c]) \in Nat
    BY SizeTypes DEF Inv
  <2>3. Len(stream'[c]) <= (cuts[c] + 1) * Len(Request(c))
    <3>1. CASE Len(Request(c)) = 1
      BY <1>7, <1>8, <2>2, <3>1
    <3>2. CASE Len(Request(c)) = 2
      BY <1>7, <1>8, <2>2, <3>2
    <3> QED BY <2>2, <3>1, <3>2
  <2>4. (cuts[c] + 1) * Len(Request(c)) <= (cuts[c] + 2) * Len(Request(c))
    BY <2>2
  <2>5. (cuts[c] + 2) * Len(Request(c)) \in Nat /\ (cuts[c] + 1) * Len(Request(c)) \in Nat
    BY <2>2
  <2>6. CASE Sendings(c)' = cuts[c] + 1
    BY <2>3, <2>6
  <2>7. Len(stream'[c]) \in Nat
    BY <1>7, <2>2
  <2>8. CASE Sendings(c)' = cuts[c] + 2
    BY <2>3, <2>4, <2>5, <2>7, <2>8
  <2> QED BY <2>1, <2>6, <2>8
<1>10. cuts'[c] <= MaxCuts
  BY <1>1, <1>6, <1>8, ClientAssumption, SizeTypes DEF Inv
<1> QED BY <1>2, <1>3, <1>9, <1>10 DEF SizeInv

\* The one send of a query for hosts.
LEMMA SizeAsk ==
  ASSUME Inv, NEW c \in Clients, SizeInv(c), HostsAsk(c), stream' # stream
  PROVE  SizeInv(c)'
<1>1. /\ UNCHANGED <<command, cuts, reads, reply>> /\ pc[c] = "create" /\ pc'[c] = "await"
      /\ stream' = [stream EXCEPT ![c] = @ \o SubSeq(Request(c), 1, 1)]
  BY DEF HostsAsk, Put, Goto, Inv, TypeInv
<1>2. Opt(c)' = Opt(c) /\ Request(c)' = Request(c)
  BY <1>1 DEF Opt, Request, Head1, Rest
<1>3. Len(stream'[c]) = Len(stream[c]) + 1
  <2>1. SubSeq(Request(c), 1, 1) \in Seq(AllParts) /\ Len(SubSeq(Request(c), 1, 1)) = 1
    BY RequestType, RequestSize
  <2>2. stream[c] \in Seq(AllParts) /\ stream'[c] = stream[c] \o SubSeq(Request(c), 1, 1)
    BY <1>1 DEF Inv, TypeInv
  <2> QED BY <2>1, <2>2
<1>4. Sendings(c) = cuts[c] /\ Sendings(c)' = 1 + cuts[c]
  BY <1>1 DEF Sendings
<1>5. Len(Request(c)) \in {1, 2} /\ cuts[c] \in Nat /\ Len(stream[c]) \in Nat
  BY SizeTypes DEF Inv
<1>6. Len(stream[c]) <= cuts[c] * Len(Request(c))
  BY <1>4 DEF SizeInv
<1>7. Len(stream'[c]) <= (1 + cuts[c]) * Len(Request(c))
  <2>1. CASE Len(Request(c)) = 1
    BY <1>3, <1>5, <1>6, <2>1
  <2>2. CASE Len(Request(c)) = 2
    BY <1>3, <1>5, <1>6, <2>2
  <2> QED BY <1>5, <2>1, <2>2
<1> QED BY <1>1, <1>2, <1>4, <1>7 DEF SizeInv

\* A receive is counted.
LEMMA GetReads ==
  ASSUME TypeInv, NEW c \in Clients, NEW n \in 1 .. Len(reply[c]), Get(c, n)
  PROVE  reads' # reads
<1>1. reads'[c] = reads[c] + 1 /\ reads[c] \in Nat
  BY DEF Get, TypeInv
<1> QED BY <1>1

LEMMA SizeGet ==
  ASSUME Inv, NEW c \in Clients, SizeInv(c), NEW n \in 1 .. Len(reply[c]), Get(c, n),
         UNCHANGED <<command, cuts, stream>>, pc[c] = "await", pc'[c] \in {"await", "done"}
  PROVE  SizeInv(c)'
<1>1. Opt(c)' = Opt(c) /\ Request(c)' = Request(c)
  BY DEF Opt, Request, Head1, Rest
<1>2. reply'[c] = SubSeq(reply[c], n + 1, Len(reply[c])) /\ reads'[c] = reads[c] + 1
  BY DEF Get, Inv, TypeInv
<1>3. Len(reply'[c]) \in Nat /\ Len(reply'[c]) <= Len(reply[c]) - 1
  BY <1>2, SizeTypes DEF Inv
<1>4. Sendings(c)' = Sendings(c)
  BY DEF Sendings
<1>5. reads'[c] + Len(reply'[c]) <= 2
  <2>1. reads[c] \in Nat /\ Len(reply[c]) \in Nat
    BY SizeTypes DEF Inv
  <2>2. reads[c] + Len(reply[c]) <= 2
    BY DEF SizeInv
  <2> QED BY <1>2, <1>3, <2>1, <2>2
<1> QED BY <1>1, <1>4, <1>5 DEF SizeInv

LEMMA SizeStep ==
  ASSUME Inv, \A c \in Clients : SizeInv(c), [Next]_vars
  PROVE  \A d \in Clients : SizeInv(d)'
<1>0. TypeInv /\ TypeInv'
  BY NextInv DEF Inv
<1>1. ASSUME NEW c \in Clients, ClientStep(c), NEW d \in Clients PROVE SizeInv(d)'
  <2>1. Alone(c)
    BY <1>1, ClientStepInv
  <2>2. CASE d # c
    <3>1. Sendings(d)' = Sendings(d)
      BY <2>1, <2>2 DEF Alone, Sendings
    <3>2. Sendings(d) \in Nat
      BY <1>0, SizeTypes DEF Sendings
    <3> QED BY <1>0, <2>1, <2>2, <3>1, <3>2, SizeSame DEF Alone
  <2>3. ASSUME UNCHANGED <<command, cuts, reads, reply, stream>> PROVE SizeInv(c)'
    <3>1. pc[c] # "done"
      BY <1>1 DEF ClientStep, Start, Created, ConnectionError, Send, Receive, ReceiveNothing,
                  HostsAsk, HostsReceive
    <3>2. pc[c] = "await" => pc'[c] = "done"
      BY <1>0, <1>1, <2>3, GetReads
         DEF ClientStep, Start, Created, ConnectionError, Send, Receive,
             ReceiveNothing, HostsAsk, HostsReceive, Done, TypeInv
    <3>3. Sendings(c) <= Sendings(c)'
      BY <1>0, <2>3, <3>1, <3>2, SizeTypes DEF Sendings
    <3> QED BY <1>0, <2>3, <3>3, SizeSame
  <2>4. ASSUME Start(c) \/ Created(c) \/ ConnectionError(c) \/ ReceiveNothing(c)
        PROVE  SizeInv(c)'
    BY <2>3, <2>4 DEF Start, Created, ConnectionError, ReceiveNothing, wireVars
  <2>5. ASSUME Receive(c) \/ HostsReceive(c) PROVE SizeInv(c)'
    <3>1. PICK n \in 1 .. Len(reply[c]) : Get(c, n) /\ pc'[c] \in {"await", "done"}
      <4>1. pc \in [Clients -> {"start", "create", "send", "await", "done"}]
        BY <1>0 DEF TypeInv
      <4>2. CASE Receive(c)
        BY <4>1, <4>2 DEF Receive, Done
      <4>3. CASE HostsReceive(c)
        BY <4>1, <4>3 DEF HostsReceive, Done, Goto
      <4> QED BY <2>5, <4>2, <4>3
    <3> QED BY <2>5, <3>1, SizeGet DEF Receive, HostsReceive
  <2>6. ASSUME HostsAsk(c) PROVE SizeInv(c)'
    <3>1. CASE UNCHANGED stream
      BY <2>3, <2>6, <3>1 DEF HostsAsk
    <3>2. CASE stream' # stream
      BY <2>6, <3>2, SizeAsk
    <3> QED BY <3>1, <3>2
  <2> QED BY <1>1, <2>2, <2>4, <2>5, <2>6, SizeSend DEF ClientStep
<1>2. ASSUME NEW c \in Clients, Serve(c), NEW d \in Clients PROVE SizeInv(d)'
  <2>1. /\ UNCHANGED <<command, pc, cuts, reads>>
        /\ reply' = [reply EXCEPT ![c] = <<Len(handled'), 0>>]
    BY <1>2 DEF Serve, clientVars
  <2>1a. /\ \E s \in Seq(AllParts) : stream' = [stream EXCEPT ![c] = s]
         /\ Len(stream'[c]) <= Len(stream[c]) /\ Len(stream'[c]) \in Nat /\ Len(stream[c]) \in Nat
    BY <1>2, ServeTakes DEF Inv, TypeInv
  <2>2. Sendings(d)' = Sendings(d) /\ Sendings(d) \in Nat
    BY <1>0, <2>1, SizeTypes DEF Sendings
  <2>3. CASE d # c
    <3>1. stream'[d] = stream[d] /\ reply'[d] = reply[d]
      BY <1>0, <2>1, <2>1a, <2>3 DEF TypeInv
    <3> QED BY <1>0, <2>1, <2>2, <3>1, SizeSame
  <2>4. CASE d = c
    <3>1. reads[c] = 0
      BY <1>2, ServePlaces DEF Inv, ClientInv, KeptInv
    <3>2. Len(reply'[c]) = 2
      BY <1>0, <2>1 DEF TypeInv
    <3>3. Opt(c)' = Opt(c) /\ Request(c)' = Request(c)
      BY <2>1 DEF Opt, Request, Head1, Rest
    <3>4. Len(stream'[c]) <= Sendings(c) * Len(Request(c))
      <4>1. Sendings(c) * Len(Request(c)) \in Nat
        BY <2>2, <2>4, RequestSize
      <4>2. Len(stream[c]) <= Sendings(c) * Len(Request(c))
        BY DEF SizeInv
      <4> QED BY <2>1a, <4>1, <4>2
    <3> QED BY <2>1, <2>2, <2>4, <3>1, <3>2, <3>3, <3>4 DEF SizeInv
  <2> QED BY <2>3, <2>4
<1>3. ASSUME Die \/ (\E c \in Clients : Established(c)) \/ UNCHANGED vars, NEW d \in Clients
      PROVE  SizeInv(d)'
  <2>1. UNCHANGED <<command, pc, cuts, reads, reply, stream>>
    BY <1>3 DEF Die, Established, vars, clientVars, wireVars
  <2>2. Sendings(d)' = Sendings(d) /\ Sendings(d) \in Nat
    BY <1>0, <2>1, SizeTypes DEF Sendings
  <2> QED BY <1>0, <2>1, <2>2, SizeSame
<1> QED BY <1>1, <1>2, <1>3 DEF Next

\* No more requests are handled than there are clients.
LEMMA HandledBound == Inv => Len(handled) <= Cardinality(Clients)
<1> SUFFICES ASSUME Inv PROVE Len(handled) <= Cardinality(Clients)
  OBVIOUS
<1>1. Len(handled) \in Nat /\ handled \in [1 .. Len(handled) -> Clients]
  BY DEF Inv, TypeInv
<1>2. handled \in Injection(1 .. Len(handled), Clients)
  BY <1>1 DEF Injection, IsInjective, Inv, Once
<1>3. Cardinality(1 .. Len(handled)) <= Cardinality(Clients)
  BY <1>2, FS_Injection, ClientAssumption
<1>4. Cardinality(1 .. Len(handled)) = Len(handled)
  <2> DEFINE k == Len(handled)
  <2>1. k \in Nat
    BY <1>1
  <2> HIDE DEF k
  <2>2. Cardinality(1 .. k) = IF 1 > k THEN 0 ELSE k - 1 + 1
    BY <2>1, FS_Interval
  <2>3. Cardinality(1 .. k) = k
    BY <2>1, <2>2
  <2> QED BY <2>3 DEF k
<1> QED BY <1>3, <1>4

\* The variables keep their types and their sizes: the sends that were cut
\* bound what lies in a stream, a reply is read in at most two pieces, and the
\* daemon handles no more requests than there are clients.
THEOREM TypeCorrect == Spec => []TypeOK
<1> DEFINE Sizes == \A c \in Clients : SizeInv(c)
<1>1. Inv /\ Sizes /\ [Next]_vars => Sizes'
  BY SizeStep
<1>2. Inv /\ Sizes => TypeOK
  <2> SUFFICES ASSUME Inv, Sizes PROVE TypeOK
    OBVIOUS
  <2>1. daemon \in {"up", "down"}
    BY DEF Inv, TypeInv
  <2>2. ASSUME NEW c \in Clients
        PROVE  /\ Opt(c) \in Selecting \cup {"none"}
               /\ Len(stream[c]) <= (1 + cuts[c]) * Len(Request(c))
               /\ cuts[c] <= MaxCuts /\ reads[c] <= 2
               /\ kept[c] \in 0 .. Len(handled) /\ Len(reply[c]) <= 2
    <3>1. SizeInv(c) /\ KeptInv(c)
      BY DEF Inv, ClientInv
    <3>2. kept[c] \in 0 .. Len(handled)
      BY <3>1 DEF KeptInv, Placed, Inv, TypeInv
    <3>3. Len(stream[c]) <= (1 + cuts[c]) * Len(Request(c))
      BY <3>1, SizeTypes DEF SizeInv, Sendings, Inv
    <3>4. Opt(c) \in Selecting \cup {"none"} /\ cuts[c] <= MaxCuts
      BY <3>1 DEF SizeInv
    <3>5. reads[c] <= 2 /\ Len(reply[c]) <= 2
      <4>1. reads[c] \in Nat /\ Len(reply[c]) \in Nat
        BY SizeTypes DEF Inv
      <4>2. reads[c] + Len(reply[c]) <= 2
        BY <3>1 DEF SizeInv
      <4> QED BY <4>1, <4>2
    <3> QED BY <3>2, <3>3, <3>4, <3>5
  <2> QED BY <2>1, <2>2, HandledBound DEF TypeOK, Inv, TypeInv
<1> QED BY <1>1, <1>2, SizeInit, InitInv, NextInv, PTL DEF Spec
=============================================================================
