--------------------------- MODULE MCJobScheduler ---------------------------
(* The job scheduler beside the bounded FIFO it implements while the queue  *)
(* is not overrun, and the claims of its comments that the runs examine.    *)
EXTENDS JobScheduler, Sequences

\* Two job ids, and the -1 that stands for all jobs in a query and for a node
\* without a job in nodesstat.
MCAllIds == {-1, 0, 1}

\* A query for one job and one for all.
MCQueries == {-1, 0}

\* Once PopTakeComm has read a job out of its slot, the job is no longer queued.
TakenSlot == IF popPc \in {"takeNodes", "takeTail"} THEN 1 ELSE 0

QueuedComms ==
  [j \in 1 .. Backlog - TakenSlot |-> jobq[(tail + TakenSlot + j - 1) % QSize].comm]

Fifo == INSTANCE JobFifo WITH
          Capacity <- QSize - 1, queue <- QueuedComms, taken <- popJob.comm

\* The circular queue, two indices and a lock around steps that fill and empty
\* a slot field by field, behaves as a FIFO of QSize - 1 jobs: nothing is lost,
\* swapped or taken twice.
ImplementsFifo == Fifo!Spec

\* "//the job queue is empty" (libjobq.c:739): when the pop thread goes back to
\* sleep no job is waiting.
EmptyQueueHoldsNoJob ==
  QueueEmpty => \A s \in Slots : jobq[s].stat # "INQUEUE"

\* get_enough_res (libjobq.c:781, and the warning at 806): the pop thread begins
\* to launch a job only when as many nodes are free as the job asks for.
EnoughNodesAtLaunch ==
  (popPc = "place" /\ i = 1 /\ k = 1) =>
    Cardinality({n \in Hosts : pcstat[n] = "FREE"}) >= popJob.nodes
=============================================================================
