----------------------------- MODULE PendingJobs -----------------------------
(* What the queue of a thread pool promises: jobs leave it in the order they *)
(* came, one is refused only when the queue is full or shut down, and the    *)
(* queue keeps no job alive that it has given away.                          *)
EXTENDS Naturals, Sequences

CONSTANTS Entries, Empty, Limit   \* Limit is 0 for an unbounded queue

VARIABLES
    pending,   \* the jobs, oldest first
    kept,      \* the jobs that can be reached from the queue
    accepting,
    outcome    \* what the last operation did

Init ==
    /\ pending = <<>>
    /\ kept = {}
    /\ accepting = TRUE
    /\ outcome = <<"new">>

\* The queue becomes q, and keeps the jobs in it and no other.
Becomes(q) == pending' = q /\ kept' = {q[i] : i \in DOMAIN q}

Full == Limit > 0 /\ Len(pending) >= Limit

Accept(j) ==
    /\ accepting /\ ~Full
    /\ Becomes(Append(pending, j))
    /\ outcome' = <<"submit", TRUE>>
    /\ UNCHANGED accepting

Refuse ==
    /\ ~accepting \/ Full
    /\ outcome' = <<"submit", FALSE>>
    /\ UNCHANGED <<pending, kept, accepting>>

TakeOldest ==
    /\ pending # <<>>
    /\ Becomes(Tail(pending))
    /\ outcome' = <<"take", Head(pending)>>
    /\ UNCHANGED accepting

TakeNone ==
    /\ pending = <<>>
    /\ outcome' = <<"take", Empty>>
    /\ UNCHANGED <<pending, kept, accepting>>

\* Every waiting job is cancelled, in its turn, and none is accepted any more.
CancelAll ==
    /\ accepting
    /\ accepting' = FALSE
    /\ outcome' = <<"stop", pending>>
    /\ Becomes(<<>>)

ShutDown == accepting' = FALSE /\ UNCHANGED <<pending, kept, outcome>>

Next ==
    \/ \E j \in Entries : Accept(j)
    \/ Refuse \/ TakeOldest \/ TakeNone \/ CancelAll \/ ShutDown

Spec == Init /\ [][Next]_<<pending, kept, accepting, outcome>>
=============================================================================
