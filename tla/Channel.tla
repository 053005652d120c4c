------------------------------- MODULE Channel -------------------------------
(***************************************************************************)
(* The bounded channel of src/std/concurrent/channel.ml: BoundedQueue's    *)
(* tryPut, tryTake, seal and dispose, and the retry loops of               *)
(* Channel.sendFor and receiveFor around them.                             *)
(*                                                                         *)
(* Two semaphores count free slots and queued items, a lock guards the     *)
(* ring buffer, and two manual-reset events wake waiters.  A step is one   *)
(* call of a primitive of std.threading, together with the accesses to     *)
(* fields only the holder of the lock touches.                             *)
(***************************************************************************)
EXTENDS Integers, FiniteSets, Sequences

CONSTANTS
    Threads,     \* threads that share the channel
    Values,      \* what is sent, among it Void and False
    Void, False, \* MiniLang's void and false
    Capacity,
    NoThread

ASSUME ThreadsAssumption == IsFiniteSet(Threads) /\ NoThread \notin Threads
ASSUME CapacityAssumption == Capacity \in Nat \ {0}
ASSUME ValuesAssumption == {Void, False} \subseteq Values /\ Void # False

VARIABLES
    guard,        \* owner of the lock, or NoThread
    closedEvent,
    notFull,
    notEmpty,
    slots,        \* permits of the semaphores
    items,
    buffer,
    voidFlags,
    head,
    tail,
    size,
    disposed,     \* the channel and its primitives are closed
    pc,
    patience,     \* timeout -1 is "forever"; every other one, 0 included, "timed"
    message,      \* the value a sender brings
    outcome       \* of a thread's call, set when it takes effect

ring   == <<buffer, voidFlags, head, tail, size>>
events == <<closedEvent, notFull, notEmpty>>
call   == <<patience, message>>
vars   == <<guard, events, slots, items, ring, disposed, pc, call, outcome>>

Pending == [kind |-> "pending"]
Refused == [kind |-> "refused"]
Sent    == [kind |-> "sent"]
Received(v) == [kind |-> "received", value |-> v]

Init ==
    /\ guard = NoThread
    /\ closedEvent = FALSE
    /\ notFull = TRUE
    /\ notEmpty = FALSE
    /\ slots = Capacity
    /\ items = 0
    /\ buffer = [i \in 0 .. Capacity - 1 |-> False]
    /\ voidFlags = [i \in 0 .. Capacity - 1 |-> FALSE]
    /\ head = 0
    /\ tail = 0
    /\ size = 0
    /\ disposed = FALSE
    /\ pc = [t \in Threads |-> "idle"]
    /\ patience = [t \in Threads |-> "forever"]
    /\ message = [t \in Threads |-> False]
    /\ outcome = [t \in Threads |-> Refused]

Goto(t, l) == pc' = [pc EXCEPT ![t] = l]
Step(t, from, to) == pc[t] = from /\ Goto(t, to)

\* The call returns and its arguments are gone.
Return(t) ==
    /\ Goto(t, "idle")
    /\ patience' = [patience EXCEPT ![t] = "forever"]
    /\ message' = [message EXCEPT ![t] = False]

Conclude(t, o) == outcome' = [outcome EXCEPT ![t] = o]

Acquire(t, from, to) ==
    /\ Step(t, from, to)
    /\ guard = NoThread
    /\ guard' = t
    /\ UNCHANGED <<events, slots, items, ring, disposed, call, outcome>>

Release(t, from, to) ==
    /\ Step(t, from, to)
    /\ guard' = NoThread
    /\ UNCHANGED <<events, slots, items, ring, disposed, call, outcome>>

ReleaseAndReturn(t, from) ==
    /\ pc[t] = from
    /\ Return(t)
    /\ guard' = NoThread
    /\ UNCHANGED <<events, slots, items, ring, disposed, outcome>>

Advance(i) == IF i + 1 = Capacity THEN 0 ELSE i + 1

\* A call on a disposed channel fails at once.
Reject(t) ==
    /\ pc[t] = "disposed"
    /\ Return(t)
    /\ Conclude(t, Refused)
    /\ UNCHANGED <<guard, events, slots, items, ring, disposed>>

-----------------------------------------------------------------------------
(* sendFor and BoundedQueue.tryPut *)

SendFor(t) ==
    /\ Step(t, "idle", IF disposed THEN "disposed" ELSE "put")
    /\ \E p \in {"forever", "timed"}, v \in Values :
          /\ patience' = [patience EXCEPT ![t] = p]
          /\ message' = [message EXCEPT ![t] = v]
    /\ Conclude(t, Pending)
    /\ UNCHANGED <<guard, events, slots, items, ring, disposed>>

PutClosed(t) ==
    /\ Step(t, "put", IF closedEvent THEN "send_check" ELSE "put_slot")
    /\ UNCHANGED <<guard, events, slots, items, ring, disposed, call, outcome>>

\* slots.tryAcquire
PutSlot(t) ==
    /\ Step(t, "put_slot", IF slots > 0 THEN "put_lock" ELSE "send_check")
    /\ slots' = IF slots > 0 THEN slots - 1 ELSE slots
    /\ UNCHANGED <<guard, events, items, ring, disposed, call, outcome>>

\* Mutant: close is not rechecked under the lock.
PutWriteUnchecked(t) ==
    /\ pc[t] = "put_write"
    /\ buffer' = [buffer EXCEPT ![tail] = IF message[t] = Void THEN False ELSE message[t]]
    /\ voidFlags' = [voidFlags EXCEPT ![tail] = message[t] = Void]
    /\ tail' = Advance(tail)
    /\ size' = size + 1
    /\ items' = IF items < Capacity THEN items + 1 ELSE items
    /\ Conclude(t, IF items < Capacity THEN Sent ELSE Refused)
    /\ Goto(t, "put_full")
    /\ UNCHANGED <<head, guard, events, slots, disposed, call>>

\* Under the lock: recheck for close, write the ring, release an item.
PutWrite(t) ==
    /\ pc[t] = "put_write"
    /\ \/ /\ closedEvent
          /\ Goto(t, "put_undo")
          /\ UNCHANGED <<ring, items, outcome>>
       \/ /\ ~closedEvent
          /\ buffer' = [buffer EXCEPT ![tail] = IF message[t] = Void THEN False ELSE message[t]]
          /\ voidFlags' = [voidFlags EXCEPT ![tail] = message[t] = Void]
          /\ tail' = Advance(tail)
          /\ size' = size + 1
          /\ items' = IF items < Capacity THEN items + 1 ELSE items
          /\ Conclude(t, IF items < Capacity THEN Sent ELSE Refused)
          /\ Goto(t, "put_full")
          /\ UNCHANGED head
    /\ UNCHANGED <<guard, events, slots, disposed, call>>

PutFull(t) ==
    /\ Step(t, "put_full", "put_notempty")
    /\ notFull' = IF size = Capacity THEN FALSE ELSE notFull
    /\ UNCHANGED <<guard, closedEvent, notEmpty, slots, items, ring, disposed, call, outcome>>

PutNotEmpty(t) ==
    /\ Step(t, "put_notempty", "put_unlock")
    /\ notEmpty' = TRUE
    /\ UNCHANGED <<guard, closedEvent, notFull, slots, items, ring, disposed, call, outcome>>

\* Mutant: the slot is lost.
PutGiveBackLost(t) ==
    /\ Step(t, "put_giveback", "send_check")
    /\ UNCHANGED <<guard, events, slots, items, ring, disposed, call, outcome>>

\* The slot taken before the channel was found closed is given back.
PutGiveBack(t) ==
    /\ Step(t, "put_giveback", "send_check")
    /\ slots' = IF slots < Capacity THEN slots + 1 ELSE slots
    /\ UNCHANGED <<guard, events, items, ring, disposed, call, outcome>>

\* isSealed() or the deadline has passed; else wait for notFull.
SendCheck(t) ==
    /\ pc[t] = "send_check"
    /\ \/ /\ closedEvent \/ patience[t] # "forever"
          /\ Return(t)
          /\ Conclude(t, Refused)
       \/ /\ ~closedEvent
          /\ Goto(t, "send_wait")
          /\ UNCHANGED <<call, outcome>>
    /\ UNCHANGED <<guard, events, slots, items, ring, disposed>>

SendWait(t) ==
    /\ Step(t, "send_wait", "put")
    /\ notFull \/ patience[t] = "timed"
    /\ UNCHANGED <<guard, events, slots, items, ring, disposed, call, outcome>>

-----------------------------------------------------------------------------
(* receiveFor and BoundedQueue.tryTake *)

ReceiveFor(t) ==
    /\ Step(t, "idle", IF disposed THEN "disposed" ELSE "take")
    /\ \E p \in {"forever", "timed"} : patience' = [patience EXCEPT ![t] = p]
    /\ Conclude(t, Pending)
    /\ UNCHANGED <<guard, events, slots, items, ring, disposed, message>>

\* items.tryAcquire
TakeItem(t) ==
    /\ Step(t, "take", IF items > 0 THEN "take_lock" ELSE "recv_check")
    /\ items' = IF items > 0 THEN items - 1 ELSE items
    /\ UNCHANGED <<guard, events, slots, ring, disposed, call, outcome>>

\* Under the lock: read and clear the ring, release a slot.
TakeRead(t) ==
    /\ Step(t, "take_read", "take_empty")
    /\ Conclude(t, Received(IF voidFlags[head] THEN Void ELSE buffer[head]))
    /\ buffer' = [buffer EXCEPT ![head] = False]
    /\ voidFlags' = [voidFlags EXCEPT ![head] = FALSE]
    /\ head' = Advance(head)
    /\ size' = size - 1
    /\ slots' = IF slots < Capacity THEN slots + 1 ELSE slots
    /\ UNCHANGED <<guard, events, items, tail, disposed, call>>

\* Mutants: the event is reset although the channel is closed, or not empty.
TakeEmptyClosed(t) ==
    /\ Step(t, "take_empty", "take_notfull")
    /\ notEmpty' = IF size = 0 THEN FALSE ELSE notEmpty
    /\ UNCHANGED <<guard, closedEvent, notFull, slots, items, ring, disposed, call, outcome>>

TakeEmptyAlways(t) ==
    /\ Step(t, "take_empty", "take_notfull")
    /\ notEmpty' = (notEmpty /\ closedEvent)
    /\ UNCHANGED <<guard, closedEvent, notFull, slots, items, ring, disposed, call, outcome>>

TakeEmpty(t) ==
    /\ Step(t, "take_empty", "take_notfull")
    /\ notEmpty' = IF size = 0 /\ ~closedEvent THEN FALSE ELSE notEmpty
    /\ UNCHANGED <<guard, closedEvent, notFull, slots, items, ring, disposed, call, outcome>>

TakeNotFull(t) ==
    /\ Step(t, "take_notfull", "take_unlock")
    /\ notFull' = TRUE
    /\ UNCHANGED <<guard, closedEvent, notEmpty, slots, items, ring, disposed, call, outcome>>

RecvCheck(t) ==
    /\ pc[t] = "recv_check"
    /\ \/ /\ closedEvent \/ patience[t] # "forever"
          /\ Return(t)
          /\ Conclude(t, Refused)
       \/ /\ ~closedEvent
          /\ Goto(t, "recv_wait")
          /\ UNCHANGED <<call, outcome>>
    /\ UNCHANGED <<guard, events, slots, items, ring, disposed>>

RecvWait(t) ==
    /\ Step(t, "recv_wait", "take")
    /\ notEmpty \/ patience[t] = "timed"
    /\ UNCHANGED <<guard, events, slots, items, ring, disposed, call, outcome>>

-----------------------------------------------------------------------------
(* close and dispose *)

Close(t) ==
    /\ Step(t, "idle", "seal_lock")
    /\ ~disposed
    /\ UNCHANGED <<guard, events, slots, items, ring, disposed, call, outcome>>

\* A second close finds the event set and does nothing.
SealClosed(t) ==
    /\ Step(t, "seal", IF closedEvent THEN "seal_unlock" ELSE "seal_notfull")
    /\ closedEvent' = TRUE
    /\ UNCHANGED <<guard, notFull, notEmpty, slots, items, ring, disposed, call, outcome>>

SealNotFull(t) ==
    /\ Step(t, "seal_notfull", "seal_notempty")
    /\ notFull' = TRUE
    /\ UNCHANGED <<guard, closedEvent, notEmpty, slots, items, ring, disposed, call, outcome>>

\* Mutant: blocked receivers are not told.
SealNotEmptySkipped(t) ==
    /\ Step(t, "seal_notempty", "seal_unlock")
    /\ UNCHANGED <<guard, events, slots, items, ring, disposed, call, outcome>>

SealNotEmpty(t) ==
    /\ Step(t, "seal_notempty", "seal_unlock")
    /\ notEmpty' = TRUE
    /\ UNCHANGED <<guard, closedEvent, notFull, slots, items, ring, disposed, call, outcome>>

\* Documented to run only after every other caller has returned.
Dispose ==
    /\ \A t \in Threads : pc[t] = "idle"
    /\ ~disposed
    /\ closedEvent
    /\ size = 0
    /\ disposed' = TRUE
    /\ UNCHANGED <<guard, events, slots, items, ring, pc, call, outcome>>

-----------------------------------------------------------------------------
Calls(t) == SendFor(t) \/ ReceiveFor(t) \/ Close(t)

Locks(t) ==
    \/ Acquire(t, "put_lock", "put_write")
    \/ Acquire(t, "take_lock", "take_read")
    \/ Acquire(t, "seal_lock", "seal")

Steps(t) ==
    \/ PutClosed(t) \/ PutSlot(t) \/ PutWrite(t) \/ PutFull(t) \/ PutNotEmpty(t)
    \/ ReleaseAndReturn(t, "put_unlock")
    \/ Release(t, "put_undo", "put_giveback") \/ PutGiveBack(t)
    \/ SendCheck(t) \/ SendWait(t)
    \/ TakeItem(t) \/ TakeRead(t) \/ TakeEmpty(t) \/ TakeNotFull(t)
    \/ ReleaseAndReturn(t, "take_unlock")
    \/ RecvCheck(t) \/ RecvWait(t) \/ Reject(t)
    \/ SealClosed(t) \/ SealNotFull(t) \/ SealNotEmpty(t)
    \/ ReleaseAndReturn(t, "seal_unlock")

Next ==
    \/ \E t \in Threads : Calls(t) \/ Locks(t) \/ Steps(t)
    \/ Dispose

Spec == Init /\ [][Next]_vars

\* Threads are scheduled, and a lock released again and again is acquired.
Fairness == \A t \in Threads : WF_vars(Steps(t)) /\ SF_vars(Locks(t))

FairSpec == Spec /\ Fairness

-----------------------------------------------------------------------------
Index == 0 .. Capacity - 1
Outcomes == {Pending, Refused, Sent} \cup {Received(v) : v \in Values}
Pcs == {"idle", "put", "put_slot", "put_lock", "put_write", "put_full", "put_notempty",
        "put_unlock", "put_undo", "put_giveback", "send_check", "send_wait", "take",
        "take_lock", "take_read", "take_empty", "take_notfull", "take_unlock",
        "recv_check", "recv_wait", "seal_lock", "seal", "seal_notfull", "seal_notempty",
        "seal_unlock", "disposed"}

\* Types and the bounds of the ring, the semaphores and the calls.
TypeOK ==
    /\ guard \in Threads \cup {NoThread}
    /\ closedEvent \in BOOLEAN /\ notFull \in BOOLEAN /\ notEmpty \in BOOLEAN
    /\ slots \in 0 .. Capacity /\ items \in 0 .. Capacity /\ size \in 0 .. Capacity
    /\ buffer \in [Index -> Values \ {Void}]
    /\ voidFlags \in [Index -> BOOLEAN]
    /\ head \in Index /\ tail \in Index
    /\ disposed \in BOOLEAN
    /\ pc \in [Threads -> Pcs]
    /\ patience \in [Threads -> {"forever", "timed"}]
    /\ message \in [Threads -> Values]
    /\ outcome \in [Threads -> Outcomes]

At(labels) == {t \in Threads : pc[t] \in labels}

\* Instructions of a thread that has a permit of a semaphore in its hands.
WithSlot == {"put_lock", "put_write", "put_undo", "put_giveback"}
WithItem == {"take_lock", "take_read"}

\* Permits are never lost or made up: a slot is free, filled or held by a sender
\* on its way, and an item is announced or held by a receiver on its way.
PermitsBalance ==
    /\ TypeOK
    /\ slots + Cardinality(At(WithSlot)) + size = Capacity
    /\ items + Cardinality(At(WithItem)) = size

\* Whenever the lock is free the events agree with the ring, so nobody waits for
\* what is already there, nor spins on an event that stayed set.
EventsAgree ==
    guard = NoThread =>
        /\ notFull  <=> size < Capacity \/ closedEvent
        /\ notEmpty <=> size > 0 \/ closedEvent

\* What the semaphores and events of the queue say of its ring is true.
SignalsAgree == PermitsBalance /\ EventsAgree

\* What the ring holds, oldest first.
Contents ==
    [i \in 1 .. size |->
        LET slot == IF head + i - 1 < Capacity THEN head + i - 1 ELSE head + i - 1 - Capacity
        IN  IF voidFlags[slot] THEN Void ELSE buffer[slot]]

Fifo == INSTANCE BoundedFifo WITH queue <- Contents, closed <- closedEvent

\* The channel implements the bounded FIFO its callers see (module BoundedFifo).
ImplementsFifo == Fifo!Spec

\* close() releases every blocked sender and receiver.
CloseReleasesAll ==
    \A t \in Threads : closedEvent /\ pc[t] # "idle" ~> pc[t] = "idle"

\* No wake-up is lost: a sender waiting while there is room goes on, unless others
\* fill it first, and so does a receiver waiting while something is queued.
NoLostWakeUp ==
    \A t \in Threads :
        /\ pc[t] = "send_wait" /\ size < Capacity ~> pc[t] # "send_wait" \/ size = Capacity
        /\ pc[t] = "recv_wait" /\ size > 0 ~> pc[t] # "recv_wait" \/ size = 0

\* "A receive result distinguishes a closed/drained channel from a valid void":
\* a receive without timeout reports nothing only when nothing is left.
NothingMeansDrained ==
    [][\A t \in Threads :
          pc[t] = "recv_check" /\ pc'[t] = "idle" /\ patience[t] = "forever" => items = 0]_vars
=============================================================================
