---------------------------- MODULE MCComputeNode ----------------------------
(* The compute node beside what the head node expects of it, and the claims *)
(* of its comments that the runs examine.                                   *)
EXTENDS ComputeNode

Server == INSTANCE PieceServer

\* Every piece is answered at most once, and none that was not sent here: the
\* guarantee on which the head's count of expected results (jobnodes) rests.
ServesPieces == Server!Spec

\* "help function that cancel the job thread." (libjobq.c:154), in a loop that
\* goes on with the next request: it does not end the daemon instead.
CancelLoopGoesOn == daemon # "portInUse"
=============================================================================
