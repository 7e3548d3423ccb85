------------------------------ MODULE MCClient ------------------------------
(***************************************************************************)
(* Invocations of every kind for TLC, also with several selecting options, *)
(* with none, and for a host that does not exist.                          *)
(***************************************************************************)
EXTENDS Client

Option(o, i) == [opt |-> o, id |-> i]

MCOptionLists ==
  {<<Option("cs", 0), Option("nn", 2)>>,
   <<Option("hf", 0), Option("cs", 0)>>,
   <<Option("qj", 1), Option("hf", 0), Option("qj", 1)>>,
   <<Option("jc", 1)>>,
   <<Option("jc", 1), Option("qh", 0)>>, <<Option("qh", 1)>>, <<Option("qh", 3)>>}
=============================================================================
