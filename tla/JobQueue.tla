------------------------------ MODULE JobQueue -------------------------------
(***************************************************************************)
(* The circular queue of ThreadPool in src/std/concurrent/thread_pool.ml:  *)
(* an array that grows geometrically up to the pool's capacity, with the   *)
(* positions of its head and tail.  Every operation holds pool.guard, so   *)
(* each is one step; module ThreadPool takes the queue as the sequence     *)
(* that module PendingJobs describes.                                      *)
(***************************************************************************)
EXTENDS Integers, Sequences

CONSTANTS
    Entries,    \* jobs
    Empty,      \* the 0 of a free cell, and the void of an empty queue
    Limit,      \* pool.queueCapacity, 0 for an unbounded queue
    FirstSize   \* cells of the first array, 64 in the code

ASSUME RingAssumption ==
    /\ Empty \notin Entries
    /\ Limit \in Nat /\ FirstSize \in Nat \ {0}

VARIABLES
    ring,       \* pool.queue
    queueHead, queueTail, queuedCount,
    open,       \* neither shutdown nor stop has begun
    outcome     \* what the last operation returned, or the jobs it cancelled

queueVars == <<ring, queueHead, queueTail, queuedCount, open, outcome>>

QueueInit ==
    /\ ring = <<>>
    /\ queueHead = 0 /\ queueTail = 0 /\ queuedCount = 0
    /\ open = TRUE
    /\ outcome = <<"new">>

\* The cell of the job that i others are ahead of.
Cell(i) == 1 + ((queueHead + i) % Len(ring))
-----------------------------------------------------------------------------
(* submit *)

HasRoom == Limit = 0 \/ queuedCount < Limit

NewCapacity ==
    LET doubled == IF 2 * Len(ring) < FirstSize THEN FirstSize ELSE 2 * Len(ring)
    IN  IF Limit > 0 /\ doubled > Limit THEN Limit ELSE doubled

NeedsSpace == queuedCount >= Len(ring)
CanGrow == NewCapacity > queuedCount

\* Mutant: the array is copied as it lies.
GrownAsItLies ==
    [k \in 1 .. NewCapacity |-> IF k <= queuedCount THEN ring[k] ELSE Empty]

\* The cells from the head to the end of the array, then those from its beginning.
Grown ==
    LET toEnd == Len(ring) - queueHead
        first == IF toEnd > queuedCount THEN queuedCount ELSE toEnd
    IN  [k \in 1 .. NewCapacity |->
            IF k <= first THEN ring[queueHead + k]
            ELSE IF k <= queuedCount THEN ring[k - first]
            ELSE Empty]

\* j goes to the tail of these cells.
Store(cells, tail, j) ==
    /\ ring' = [cells EXCEPT ![tail + 1] = j]
    /\ queueTail' = (tail + 1) % Len(cells)
    /\ queuedCount' = queuedCount + 1
    /\ outcome' = <<"submit", TRUE>>
    /\ UNCHANGED open

Put(j) ==
    /\ open /\ HasRoom /\ ~NeedsSpace
    /\ Store(ring, queueTail, j)
    /\ UNCHANGED queueHead

PutGrown(j) ==
    /\ open /\ HasRoom /\ NeedsSpace /\ CanGrow
    /\ Store(Grown, queuedCount, j)
    /\ queueHead' = 0

PutRefused ==
    /\ ~open \/ ~HasRoom \/ (NeedsSpace /\ ~CanGrow)
    /\ outcome' = <<"submit", FALSE>>
    /\ UNCHANGED <<ring, queueHead, queueTail, queuedCount, open>>
-----------------------------------------------------------------------------
(* _poolTake, stop, shutdown and close *)

\* The positions start afresh when the last job leaves.
Take ==
    /\ queuedCount > 0
    /\ outcome' = <<"take", ring[queueHead + 1]>>
    /\ ring' = [ring EXCEPT ![queueHead + 1] = Empty]
    /\ queuedCount' = queuedCount - 1
    /\ queueHead' = IF queuedCount = 1 THEN 0 ELSE (queueHead + 1) % Len(ring)
    /\ queueTail' = IF queuedCount = 1 THEN 0 ELSE queueTail
    /\ UNCHANGED open

TakeNothing ==
    /\ queuedCount = 0
    /\ outcome' = <<"take", Empty>>
    /\ UNCHANGED <<ring, queueHead, queueTail, queuedCount, open>>

\* stop cancels and clears the cells from the head on.
Clear ==
    /\ open
    /\ open' = FALSE
    /\ outcome' = <<"stop", [i \in 1 .. queuedCount |-> ring[Cell(i - 1)]]>>
    /\ ring' = [k \in DOMAIN ring |->
                  IF \E i \in 0 .. queuedCount - 1 : k = Cell(i) THEN Empty ELSE ring[k]]
    /\ queueHead' = 0 /\ queueTail' = 0 /\ queuedCount' = 0

Refrain ==
    /\ open
    /\ open' = FALSE
    /\ UNCHANGED <<ring, queueHead, queueTail, queuedCount, outcome>>

\* close drops the array once the workers have ended, and so the queue is empty.
Drop ==
    /\ ~open /\ queuedCount = 0
    /\ ring' = <<>>
    /\ UNCHANGED <<queueHead, queueTail, queuedCount, open, outcome>>

QueueNext ==
    \/ \E j \in Entries : Put(j) \/ PutGrown(j)
    \/ PutRefused \/ Take \/ TakeNothing \/ Clear \/ Refrain \/ Drop

QueueSpec == QueueInit /\ [][QueueNext]_queueVars
-----------------------------------------------------------------------------
\* The jobs in the queue, oldest first, and those its array holds on to.
Pending == [i \in 1 .. queuedCount |-> ring[Cell(i - 1)]]
Kept == {ring[k] : k \in DOMAIN ring} \ {Empty}

Queue == INSTANCE PendingJobs WITH pending <- Pending, kept <- Kept, accepting <- open

\* Through every wrap and growth, and at the capacity, the array is a queue of jobs:
\* none is lost, doubled or overtaken, refused for want of space that could be had, or
\* kept from the collector after it has left.
ImplementsQueue == Queue!Spec
=============================================================================
