------------------------------- MODULE Exchange -------------------------------
(***************************************************************************)
(* What a user of epbscli relies on: the daemon handles the request of an  *)
(* invocation at most once, and a table that the client prints from a      *)
(* reply is the reply to its own request.                                  *)
(***************************************************************************)
EXTENDS Naturals, Sequences

CONSTANT Clients

VARIABLES
  handled,   \* the invocations whose request was handled, in this order
  told       \* per invocation: the place in "handled" its user saw, or 0

vars == <<handled, told>>

Init == handled = <<>> /\ told = [c \in Clients |-> 0]

Handle(c) ==
  /\ \A n \in 1 .. Len(handled) : handled[n] # c
  /\ handled' = Append(handled, c)
  /\ UNCHANGED told

Tell(c) ==
  /\ told[c] = 0
  /\ \E n \in 1 .. Len(handled) : handled[n] = c /\ told' = [told EXCEPT ![c] = n]
  /\ UNCHANGED handled

Next == \E c \in Clients : Handle(c) \/ Tell(c)

Spec == Init /\ [][Next]_vars
=============================================================================
