------------------------------- MODULE JobFifo -------------------------------
(***************************************************************************)
(* What the job queue of the head node promises while it is not overrun: a *)
(* bounded first-in first-out queue between the clients and the pop thread *)
(* ("//FIFO", libjobq.c).  A job is the serial number of its submission.   *)
(***************************************************************************)
EXTENDS Naturals, Sequences

CONSTANTS
  Capacity,   \* jobs that fit: one slot of the circular queue stays free
  MaxJobs     \* bound: number of submissions

VARIABLES queue, submitted, taken

vars == <<queue, submitted, taken>>

Init == queue = <<>> /\ submitted = 0 /\ taken = 0

Submit ==
  /\ submitted < MaxJobs /\ Len(queue) < Capacity
  /\ submitted' = submitted + 1
  /\ queue' = Append(queue, submitted + 1)
  /\ UNCHANGED taken

Take ==
  /\ queue # <<>>
  /\ taken' = Head(queue)
  /\ queue' = Tail(queue)
  /\ UNCHANGED submitted

Next == Submit \/ Take

Spec == Init /\ [][Next]_vars
=============================================================================
