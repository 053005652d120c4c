----------------------------- MODULE MCThreadPool ----------------------------
(* A pool and the circular queue of another for TLC.  They share no state:   *)
(* a behaviour is one of the pool, with its queue as a sequence, or of the   *)
(* queue, at sizes at which its array wraps and grows.                       *)
EXTENDS ThreadPool, JobQueue

VARIABLE part

PoolAndQueueInit == part \in {"pool", "queue"} /\ Init /\ QueueInit

PoolAndQueueNext ==
  /\ UNCHANGED part
  /\ \/ part = "pool" /\ Next /\ UNCHANGED queueVars
     \/ part = "queue" /\ QueueNext /\ UNCHANGED vars

PoolAndQueueSpec ==
  PoolAndQueueInit /\ [][PoolAndQueueNext]_<<part, vars, queueVars>> /\ Fairness
=============================================================================
