----------------------------- MODULE PieceServer -----------------------------
(***************************************************************************)
(* What the head node's scheduler expects of a compute node: it answers a  *)
(* piece of a job only after the piece was sent there, and only once       *)
(* (job_queue_result_1 of libjobq.c counts every answer as one node less   *)
(* to wait for).                                                           *)
(***************************************************************************)
EXTENDS Naturals, Sequences

CONSTANT Pieces

VARIABLES sent, answered

vars == <<sent, answered>>

Init == sent = {} /\ answered = <<>>

Send(p) ==
  /\ p \notin sent
  /\ sent' = sent \cup {p}
  /\ UNCHANGED answered

Answer(p) ==
  /\ p \in sent /\ \A n \in 1 .. Len(answered) : answered[n] # p
  /\ answered' = Append(answered, p)
  /\ UNCHANGED sent

Next == \E p \in Pieces : Send(p) \/ Answer(p)

Spec == Init /\ [][Next]_vars
=============================================================================
