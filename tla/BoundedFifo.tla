----------------------------- MODULE BoundedFifo -----------------------------
(* What a Channel promises its callers: a FIFO of bounded capacity that      *)
(* many threads put into and take from, and that accepts nothing once it is  *)
(* closed, while what it holds stays readable.                               *)
EXTENDS Naturals, Sequences

CONSTANTS Threads, Values, Capacity

VARIABLES
    queue,     \* the values inside, oldest first
    closed,    \* close() has taken effect
    outcome    \* of the call each thread is in, or was in last

Pending == [kind |-> "pending"]
Refused == [kind |-> "refused"]
Sent    == [kind |-> "sent"]
Received(v) == [kind |-> "received", value |-> v]

Init ==
    /\ queue = <<>>
    /\ closed = FALSE
    /\ outcome = [t \in Threads |-> Refused]

Call(t) ==
    /\ outcome[t] # Pending
    /\ outcome' = [outcome EXCEPT ![t] = Pending]
    /\ UNCHANGED <<queue, closed>>

Refuse(t) ==
    /\ outcome[t] = Pending
    /\ outcome' = [outcome EXCEPT ![t] = Refused]
    /\ UNCHANGED <<queue, closed>>

Put(t, v) ==
    /\ outcome[t] = Pending
    /\ ~closed
    /\ Len(queue) < Capacity
    /\ queue' = Append(queue, v)
    /\ outcome' = [outcome EXCEPT ![t] = Sent]
    /\ UNCHANGED closed

Take(t) ==
    /\ outcome[t] = Pending
    /\ queue # <<>>
    /\ queue' = Tail(queue)
    /\ outcome' = [outcome EXCEPT ![t] = Received(Head(queue))]
    /\ UNCHANGED closed

Close ==
    /\ closed' = TRUE
    /\ UNCHANGED <<queue, outcome>>

Next ==
    \/ \E t \in Threads : Call(t) \/ Refuse(t) \/ Take(t) \/ \E v \in Values : Put(t, v)
    \/ Close

Spec == Init /\ [][Next]_<<queue, closed, outcome>>
=============================================================================
