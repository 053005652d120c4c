---------------------------- MODULE ChannelProofs ----------------------------
(***************************************************************************)
(* Proofs about Channel, for every finite set of threads, every capacity   *)
(* and every set of values.                                                *)
(***************************************************************************)
EXTENDS Channel, FiniteSetTheorems, SequenceTheorems, TLAPS

\* Instructions of a thread that has the lock.
Critical == {"put_write", "put_full", "put_notempty", "put_unlock", "put_undo",
             "take_read", "take_empty", "take_notfull", "take_unlock",
             "seal", "seal_notfull", "seal_notempty", "seal_unlock"}

\* Instructions of a call that has not taken effect, nor been refused.
Undecided == {"put", "put_slot", "put_lock", "put_write", "put_undo", "put_giveback",
              "send_check", "send_wait", "take", "take_lock", "take_read", "recv_check",
              "recv_wait", "disposed"}


GuardOK == \A t \in Threads : pc[t] \in Critical <=> guard = t

OutcomeOK == \A t \in Threads : pc[t] \in Undecided <=> outcome[t] = Pending

\* The slot i places behind the head.
Slot(i) == IF head + i < Capacity THEN head + i ELSE head + i - Capacity

\* The tail is where the next value belongs.
RingOK == tail = Slot(size)

NotFullAgrees == notFull <=> size < Capacity \/ closedEvent
NotEmptyAgrees == notEmpty <=> size > 0 \/ closedEvent

\* How far the events lag behind the ring at each instruction of the critical section.
LagOK(t) ==
  /\ pc[t] \notin {"put_full", "take_empty", "take_notfull", "seal_notfull"} => NotFullAgrees
  /\ pc[t] \notin {"put_full", "put_notempty", "take_empty", "seal_notfull", "seal_notempty"}
       => NotEmptyAgrees
  /\ pc[t] = "put_full" => notFull
  /\ pc[t] \in {"put_full", "put_notempty"} => size > 0 /\ ~ closedEvent
  /\ pc[t] = "take_empty" => notEmpty
  /\ pc[t] \in {"take_empty", "take_notfull"} => size < Capacity
  /\ pc[t] \in {"seal_notfull", "seal_notempty"} => closedEvent

LockedOK == \A t \in Threads : guard = t => LagOK(t)

IInv == PermitsBalance /\ GuardOK /\ LockedOK /\ EventsAgree /\ OutcomeOK /\ RingOK
-----------------------------------------------------------------------------
\* Nobody has called the channel yet.
LEMMA InitIInv == Init => IInv
PROOF
  <1> SUFFICES ASSUME Init PROVE IInv
    OBVIOUS
  <1> USE ThreadsAssumption, CapacityAssumption, ValuesAssumption
  <1>1. TypeOK
    <2>1. /\ slots \in 0 .. Capacity /\ items \in 0 .. Capacity /\ size \in 0 .. Capacity
          /\ head \in Index /\ tail \in Index
      BY DEF Init, Index
    <2>2. buffer \in [Index -> Values \ {Void}] /\ voidFlags \in [Index -> BOOLEAN]
      BY DEF Init, Index
    <2>3. pc \in [Threads -> Pcs] /\ outcome \in [Threads -> Outcomes]
      BY DEF Init, Pcs, Outcomes
    <2>4. patience \in [Threads -> {"forever", "timed"}] /\ message \in [Threads -> Values]
      BY DEF Init
    <2> QED
      BY <2>1, <2>2, <2>3, <2>4 DEF Init, TypeOK
  <1>2. At(WithSlot) = {} /\ At(WithItem) = {}
    BY DEF Init, At, WithSlot, WithItem
  <1>3. PermitsBalance
    BY <1>1, <1>2, FS_EmptySet DEF Init, PermitsBalance
  <1>4. GuardOK /\ LockedOK /\ OutcomeOK
    BY DEF Init, GuardOK, LockedOK, OutcomeOK, Critical, Undecided, Refused, Pending
  <1>5. EventsAgree /\ RingOK
    BY DEF Init, EventsAgree, RingOK, Slot
  <1> QED
    BY <1>3, <1>4, <1>5 DEF IInv

\* How the number of threads at some instructions changes when one of them goes on.
LEMMA AtCounts ==
  ASSUME NEW t \in Threads, NEW l, NEW L, pc \in [Threads -> Pcs],
         pc' = [pc EXCEPT ![t] = l]
  PROVE  /\ Cardinality(At(L)) \in Nat /\ Cardinality(At(L)') \in Nat
         /\ pc[t] \in L => Cardinality(At(L)) >= 1
         /\ (pc[t] \in L <=> l \in L) => Cardinality(At(L)') = Cardinality(At(L))
         /\ pc[t] \in L /\ l \notin L => Cardinality(At(L)') = Cardinality(At(L)) - 1
         /\ pc[t] \notin L /\ l \in L => Cardinality(At(L)') = Cardinality(At(L)) + 1
PROOF
  <1>1. IsFiniteSet(At(L)) /\ IsFiniteSet(At(L)')
    <2>1. At(L) \in SUBSET Threads /\ At(L)' \in SUBSET Threads
      BY DEF At
    <2> QED
      BY <2>1, ThreadsAssumption, FS_Subset
  <1>2. Cardinality(At(L)) \in Nat /\ Cardinality(At(L)') \in Nat
    BY <1>1, FS_CardinalityType
  <1>3. At(L)' = IF l \in L THEN At(L) \cup {t} ELSE At(L) \ {t}
    BY DEF At
  <1>4. t \in At(L) <=> pc[t] \in L
    BY DEF At
  <1>5. pc[t] \in L => Cardinality(At(L)) # 0
    BY <1>1, <1>4, FS_EmptySet
  <1>6. CASE l \in L
    BY <1>1, <1>2, <1>3, <1>4, <1>5, <1>6, FS_AddElement
  <1>7. CASE l \notin L
    BY <1>1, <1>2, <1>3, <1>4, <1>5, <1>7, FS_RemoveElement
  <1> QED
    BY <1>6, <1>7
-----------------------------------------------------------------------------
(* Permits.                                                                *)

\* The steps that move no permit and no value.
Quiet(t) ==
  \/ Calls(t) \/ Locks(t)
  \/ PutClosed(t) \/ PutFull(t) \/ PutNotEmpty(t)
  \/ ReleaseAndReturn(t, "put_unlock") \/ Release(t, "put_undo", "put_giveback")
  \/ SendCheck(t) \/ SendWait(t)
  \/ TakeEmpty(t) \/ TakeNotFull(t) \/ ReleaseAndReturn(t, "take_unlock")
  \/ RecvCheck(t) \/ RecvWait(t) \/ Reject(t)
  \/ SealClosed(t) \/ SealNotFull(t) \/ SealNotEmpty(t)
  \/ ReleaseAndReturn(t, "seal_unlock")

\* What such a step does to the permits: its thread has one after it if it had before.
LEMMA QuietFacts ==
  ASSUME TypeOK, NEW t \in Threads, Quiet(t)
  PROVE  /\ UNCHANGED <<slots, items, ring, disposed>>
         /\ \E l \in Pcs : /\ pc' = [pc EXCEPT ![t] = l]
                           /\ pc[t] \in WithSlot <=> l \in WithSlot
                           /\ pc[t] \in WithItem <=> l \in WithItem
PROOF
  <1> USE DEF WithSlot, WithItem, Pcs, Goto
  <1>1. CASE Calls(t)
    BY <1>1 DEF Calls, SendFor, ReceiveFor, Close, Step
  <1>2. CASE Locks(t)
    BY <1>2 DEF Locks, Acquire, Step
  <1>3. CASE PutClosed(t) \/ PutFull(t) \/ PutNotEmpty(t) \/ SendWait(t) \/ RecvWait(t)
    BY <1>3 DEF PutClosed, PutFull, PutNotEmpty, SendWait, RecvWait, Step
  <1>4. CASE TakeEmpty(t) \/ TakeNotFull(t) \/ SealClosed(t) \/ SealNotFull(t) \/ SealNotEmpty(t)
    BY <1>4 DEF TakeEmpty, TakeNotFull, SealClosed, SealNotFull, SealNotEmpty, Step
  <1>5. CASE SendCheck(t) \/ RecvCheck(t) \/ Reject(t)
    BY <1>5 DEF SendCheck, RecvCheck, Reject, Return
  <1>6. CASE \/ ReleaseAndReturn(t, "put_unlock") \/ ReleaseAndReturn(t, "take_unlock")
             \/ ReleaseAndReturn(t, "seal_unlock") \/ Release(t, "put_undo", "put_giveback")
    BY <1>6 DEF ReleaseAndReturn, Return, Release, Step
  <1> QED
    BY <1>1, <1>2, <1>3, <1>4, <1>5, <1>6 DEF Quiet

LEMMA QuietTypes ==
  ASSUME TypeOK, NEW t \in Threads, Quiet(t)
  PROVE  TypeOK'
PROOF
  <1>1. UNCHANGED <<slots, items, ring, disposed>>
    BY QuietFacts
  <1>2. pc' \in [Threads -> Pcs]
    <2>1. PICK l \in Pcs : pc' = [pc EXCEPT ![t] = l]
      BY QuietFacts
    <2> QED
      BY <2>1 DEF TypeOK
  <1> USE DEF Quiet, Calls, Locks, SendFor, ReceiveFor, Close, Acquire, PutClosed, PutFull,
              PutNotEmpty, ReleaseAndReturn, Release, SendCheck, SendWait, TakeEmpty, TakeNotFull,
              RecvCheck, RecvWait, Reject, SealClosed, SealNotFull, SealNotEmpty, TypeOK
  <1>3. guard' \in Threads \cup {NoThread}
    OBVIOUS
  <1>4. closedEvent' \in BOOLEAN /\ notFull' \in BOOLEAN /\ notEmpty' \in BOOLEAN
    BY DEF events
  <1>5. patience' \in [Threads -> {"forever", "timed"}] /\ message' \in [Threads -> Values]
    BY ValuesAssumption DEF call, Return
  <1>6. outcome' \in [Threads -> Outcomes]
    BY DEF Conclude, Outcomes
  <1> QED
    BY <1>1, <1>2, <1>3, <1>4, <1>5, <1>6 DEF ring

LEMMA QuietBalance ==
  ASSUME PermitsBalance, NEW t \in Threads, Quiet(t)
  PROVE  PermitsBalance'
PROOF
  <1>1. PICK l \in Pcs : /\ pc' = [pc EXCEPT ![t] = l]
                         /\ pc[t] \in WithSlot <=> l \in WithSlot
                         /\ pc[t] \in WithItem <=> l \in WithItem
    BY QuietFacts DEF PermitsBalance
  <1>2. /\ Cardinality(At(WithSlot)') = Cardinality(At(WithSlot))
        /\ Cardinality(At(WithItem)') = Cardinality(At(WithItem))
    BY <1>1, AtCounts DEF PermitsBalance, TypeOK
  <1>3. UNCHANGED <<slots, items, size>>
    BY QuietFacts DEF PermitsBalance, ring
  <1>4. Cardinality(At(WithSlot))' = Cardinality(At(WithSlot)) /\ Cardinality(At(WithItem))' = Cardinality(At(WithItem))
    BY <1>2
  <1> QED
    BY <1>3, <1>4, QuietTypes DEF PermitsBalance

\* Which instructions hold what.
LEMMA Holders ==
  /\ {"put_lock", "put_write", "put_giveback"} \subseteq WithSlot
  /\ \A l \in {"put_slot", "send_check", "put_full", "take", "take_lock", "take_read", "take_empty",
             "recv_check"} : l \notin WithSlot
  /\ {"take_lock", "take_read"} \subseteq WithItem
  /\ \A l \in {"put_slot", "put_lock", "put_write", "put_undo", "put_giveback", "send_check",
             "put_full", "take", "take_empty", "recv_check"} : l \notin WithItem
  /\ "put_undo" \in WithSlot
  BY DEF WithSlot, WithItem

\* tryAcquire on the slots.
LEMMA PutSlotBalance ==
  ASSUME PermitsBalance, NEW t \in Threads, PutSlot(t)
  PROVE  PermitsBalance'
PROOF
  <1> USE DEF PermitsBalance
  <1> DEFINE next == IF slots > 0 THEN "put_lock" ELSE "send_check"
  <1>1. /\ pc[t] = "put_slot" /\ pc' = [pc EXCEPT ![t] = next]
        /\ slots' = IF slots > 0 THEN slots - 1 ELSE slots
        /\ UNCHANGED <<items, size>>
    BY DEF PutSlot, Step, Goto, ring
  <1>2. TypeOK'
    <2>1. pc' \in [Threads -> Pcs] /\ slots' \in 0 .. Capacity
      BY <1>1, CapacityAssumption DEF TypeOK, Pcs
    <2> QED
      BY <2>1 DEF PutSlot, TypeOK, events, ring, call
  <1>3. /\ Cardinality(At(WithSlot))' =
             IF slots > 0 THEN Cardinality(At(WithSlot)) + 1 ELSE Cardinality(At(WithSlot))
        /\ Cardinality(At(WithItem))' = Cardinality(At(WithItem))
        /\ Cardinality(At(WithSlot)) \in Nat
    BY <1>1, AtCounts, Holders DEF TypeOK
  <1> QED
    BY <1>1, <1>2, <1>3 DEF TypeOK

\* The sender that writes the ring has a slot, so there is room, and no more items are
\* announced than values stored.
LEMMA PutWriteBalance ==
  ASSUME PermitsBalance, NEW t \in Threads, PutWrite(t)
  PROVE  PermitsBalance'
PROOF
  <1> USE DEF PermitsBalance
  <1>1. /\ Cardinality(At(WithSlot)) \in Nat /\ Cardinality(At(WithItem)) \in Nat
        /\ Cardinality(At(WithSlot)) >= 1
    <2>1. PICK l \in Pcs : pc[t] = "put_write" /\ pc' = [pc EXCEPT ![t] = l]
      BY DEF PutWrite, Goto, Pcs
    <2> QED
      BY <2>1, AtCounts, Holders DEF TypeOK
  <1>2. size < Capacity /\ items <= size
    BY <1>1, CapacityAssumption DEF TypeOK
  <1>3. CASE closedEvent
    <2>1. /\ pc[t] = "put_write" /\ pc' = [pc EXCEPT ![t] = "put_undo"]
          /\ UNCHANGED <<items, size, slots>>
      BY <1>3 DEF PutWrite, Goto, ring
    <2>2. TypeOK'
      BY <1>3, <2>1 DEF PutWrite, TypeOK, Pcs, events, ring, call
    <2>3. /\ Cardinality(At(WithSlot))' = Cardinality(At(WithSlot))
          /\ Cardinality(At(WithItem))' = Cardinality(At(WithItem))
      BY <2>1, AtCounts, Holders DEF TypeOK
    <2> QED
      BY <2>1, <2>2, <2>3
  <1>4. CASE ~ closedEvent
    <2>1. /\ pc[t] = "put_write" /\ pc' = [pc EXCEPT ![t] = "put_full"]
          /\ items' = items + 1 /\ size' = size + 1 /\ UNCHANGED slots
      BY <1>2, <1>4, CapacityAssumption DEF PutWrite, Goto, TypeOK
    <2>2. buffer' \in [Index -> Values \ {Void}] /\ voidFlags' \in [Index -> BOOLEAN]
      BY <1>4, ValuesAssumption DEF PutWrite, TypeOK
    <2>3. head' \in Index /\ tail' \in Index
      BY <1>4, CapacityAssumption DEF PutWrite, TypeOK, Advance, Index
    <2>4. outcome' \in [Threads -> Outcomes] /\ pc' \in [Threads -> Pcs]
      BY <1>4, <2>1 DEF PutWrite, TypeOK, Conclude, Outcomes, Pcs
    <2>5. items' \in 0 .. Capacity /\ size' \in 0 .. Capacity
      BY <1>2, <2>1, CapacityAssumption DEF TypeOK
    <2>6. TypeOK'
      BY <2>1, <2>2, <2>3, <2>4, <2>5 DEF PutWrite, TypeOK, events, call
    <2>7. /\ Cardinality(At(WithSlot))' = Cardinality(At(WithSlot)) - 1
          /\ Cardinality(At(WithItem))' = Cardinality(At(WithItem))
      BY <2>1, AtCounts, Holders DEF TypeOK
    <2> QED
      BY <1>1, <2>1, <2>6, <2>7 DEF TypeOK
  <1> QED
    BY <1>3, <1>4

\* A sender gives its slot back.
LEMMA PutGiveBackBalance ==
  ASSUME PermitsBalance, NEW t \in Threads, PutGiveBack(t)
  PROVE  PermitsBalance'
PROOF
  <1> USE DEF PermitsBalance
  <1>1. pc[t] = "put_giveback" /\ pc' = [pc EXCEPT ![t] = "send_check"] /\ UNCHANGED <<items, size>>
    BY DEF PutGiveBack, Step, Goto, ring
  <1>2. /\ Cardinality(At(WithSlot)) \in Nat /\ Cardinality(At(WithSlot)) >= 1
        /\ Cardinality(At(WithSlot))' = Cardinality(At(WithSlot)) - 1
        /\ Cardinality(At(WithItem))' = Cardinality(At(WithItem))
    BY <1>1, AtCounts, Holders DEF TypeOK
  <1>3. slots' = slots + 1
    BY <1>2, CapacityAssumption DEF PutGiveBack, TypeOK
  <1>4. TypeOK'
    BY <1>1, <1>2, <1>3 DEF PutGiveBack, TypeOK, Pcs, events, ring, call
  <1> QED
    BY <1>1, <1>2, <1>3, <1>4 DEF TypeOK

\* tryAcquire on the items.
LEMMA TakeItemBalance ==
  ASSUME PermitsBalance, NEW t \in Threads, TakeItem(t)
  PROVE  PermitsBalance'
PROOF
  <1> USE DEF PermitsBalance
  <1> DEFINE next == IF items > 0 THEN "take_lock" ELSE "recv_check"
  <1>1. /\ pc[t] = "take" /\ pc' = [pc EXCEPT ![t] = next]
        /\ items' = IF items > 0 THEN items - 1 ELSE items
        /\ UNCHANGED <<slots, size>>
    BY DEF TakeItem, Step, Goto, ring
  <1>2. TypeOK'
    <2>1. pc' \in [Threads -> Pcs] /\ items' \in 0 .. Capacity
      BY <1>1, CapacityAssumption DEF TypeOK, Pcs
    <2> QED
      BY <2>1 DEF TakeItem, TypeOK, events, ring, call
  <1>3. /\ Cardinality(At(WithItem))' =
             IF items > 0 THEN Cardinality(At(WithItem)) + 1 ELSE Cardinality(At(WithItem))
        /\ Cardinality(At(WithSlot))' = Cardinality(At(WithSlot))
        /\ Cardinality(At(WithItem)) \in Nat
    BY <1>1, AtCounts, Holders DEF TypeOK
  <1> QED
    BY <1>1, <1>2, <1>3 DEF TypeOK

\* The receiver that reads the ring has an item, so there is a value; the slot it
\* releases is not one too many.
LEMMA TakeReadBalance ==
  ASSUME PermitsBalance, NEW t \in Threads, TakeRead(t)
  PROVE  PermitsBalance'
PROOF
  <1> USE DEF PermitsBalance
  <1>1. pc[t] = "take_read" /\ pc' = [pc EXCEPT ![t] = "take_empty"] /\ UNCHANGED items
    BY DEF TakeRead, Step, Goto
  <1>2. /\ Cardinality(At(WithItem)) \in Nat /\ Cardinality(At(WithItem)) >= 1
        /\ Cardinality(At(WithItem))' = Cardinality(At(WithItem)) - 1
        /\ Cardinality(At(WithSlot))' = Cardinality(At(WithSlot))
        /\ Cardinality(At(WithSlot)) \in Nat
    BY <1>1, AtCounts, Holders DEF TypeOK
  <1>3. size' = size - 1 /\ size > 0 /\ slots' = slots + 1
    BY <1>2, CapacityAssumption DEF TakeRead, TypeOK
  <1>4. buffer' \in [Index -> Values \ {Void}] /\ voidFlags' \in [Index -> BOOLEAN]
    BY ValuesAssumption DEF TakeRead, TypeOK
  <1>5. head' \in Index /\ tail' \in Index
    BY CapacityAssumption DEF TakeRead, TypeOK, Advance, Index
  <1>6. outcome' \in [Threads -> Outcomes] /\ pc' \in [Threads -> Pcs]
    <2>1. (IF voidFlags[head] THEN Void ELSE buffer[head]) \in Values
      BY ValuesAssumption DEF TypeOK
    <2> QED
      BY <1>1, <2>1 DEF TakeRead, TypeOK, Conclude, Outcomes, Pcs
  <1>7. TypeOK'
    BY <1>1, <1>2, <1>3, <1>4, <1>5, <1>6 DEF TakeRead, TypeOK, events, call
  <1> QED
    BY <1>1, <1>2, <1>3, <1>7 DEF TypeOK

LEMMA StepBalance ==
  ASSUME PermitsBalance, [Next]_vars
  PROVE  PermitsBalance'
PROOF
  <1>1. ASSUME NEW t \in Threads, Calls(t) \/ Locks(t) \/ Steps(t) PROVE PermitsBalance'
    BY <1>1, QuietBalance, PutSlotBalance, PutWriteBalance, PutGiveBackBalance, TakeItemBalance,
       TakeReadBalance DEF Steps, Quiet
  <1>2. CASE Dispose
    BY <1>2 DEF Dispose, PermitsBalance, TypeOK, At, events, ring, call
  <1>3. CASE UNCHANGED vars
    BY <1>3 DEF vars, PermitsBalance, TypeOK, At, events, ring, call
  <1> QED
    BY <1>1, <1>2, <1>3 DEF Next
-----------------------------------------------------------------------------
(* The lock and what it protects.                                          *)

AStep(t) == Calls(t) \/ Locks(t) \/ Steps(t)

\* Who has the lock is at a critical instruction, and nobody else is.
LEMMA StepGuard ==
  ASSUME TypeOK, GuardOK, NEW t \in Threads, AStep(t)
  PROVE  GuardOK'
PROOF
  <1> USE DEF Critical
  <1>1. CASE Locks(t)
    BY <1>1, ThreadsAssumption DEF Locks, Acquire, Step, Goto, GuardOK, TypeOK
  <1>2. CASE \/ ReleaseAndReturn(t, "put_unlock") \/ ReleaseAndReturn(t, "take_unlock")
             \/ ReleaseAndReturn(t, "seal_unlock") \/ Release(t, "put_undo", "put_giveback")
    BY <1>2, ThreadsAssumption DEF ReleaseAndReturn, Release, Return, Step, Goto, GuardOK, TypeOK
  <1>3. CASE Calls(t)
    BY <1>3 DEF Calls, SendFor, ReceiveFor, Close, Step, Goto, GuardOK, TypeOK
  <1>4. CASE \/ PutClosed(t) \/ PutSlot(t) \/ PutWrite(t) \/ PutFull(t) \/ PutNotEmpty(t)
             \/ PutGiveBack(t) \/ SendCheck(t) \/ SendWait(t)
    BY <1>4 DEF PutClosed, PutSlot, PutWrite, PutFull, PutNotEmpty, PutGiveBack, SendCheck,
                SendWait, Return, Step, Goto, GuardOK, TypeOK
  <1>5. CASE \/ TakeItem(t) \/ TakeRead(t) \/ TakeEmpty(t) \/ TakeNotFull(t)
             \/ RecvCheck(t) \/ RecvWait(t) \/ Reject(t)
    BY <1>5 DEF TakeItem, TakeRead, TakeEmpty, TakeNotFull, RecvCheck, RecvWait, Reject, Return,
                Step, Goto, GuardOK, TypeOK
  <1>6. CASE SealClosed(t) \/ SealNotFull(t) \/ SealNotEmpty(t)
    BY <1>6 DEF SealClosed, SealNotFull, SealNotEmpty, Step, Goto, GuardOK, TypeOK
  <1> QED
    BY <1>1, <1>2, <1>3, <1>4, <1>5, <1>6 DEF AStep, Steps

\* A thread that has not the lock leaves ring and events alone, and takes the lock or
\* leaves it alone, too.
LEMMA OutsideFacts ==
  ASSUME TypeOK, NEW t \in Threads, AStep(t), pc[t] \notin Critical
  PROVE  /\ UNCHANGED <<events, ring>>
         /\ \A s \in Threads \ {t} : pc'[s] = pc[s]
         /\ \/ UNCHANGED guard
            \/ /\ guard = NoThread /\ guard' = t
               /\ pc'[t] \in {"put_write", "take_read", "seal"}
PROOF
  <1> USE DEF Critical
  <1>1. CASE Locks(t)
    BY <1>1 DEF Locks, Acquire, Step, Goto, TypeOK
  <1>2. CASE Calls(t)
    BY <1>2 DEF Calls, SendFor, ReceiveFor, Close, Step, Goto, TypeOK
  <1>3. CASE \/ PutClosed(t) \/ PutSlot(t) \/ PutGiveBack(t) \/ SendCheck(t) \/ SendWait(t)
             \/ TakeItem(t) \/ RecvCheck(t) \/ RecvWait(t) \/ Reject(t)
    BY <1>3 DEF PutClosed, PutSlot, PutGiveBack, SendCheck, SendWait, TakeItem, RecvCheck, RecvWait,
                Reject, Return, Step, Goto, TypeOK
  <1>4. ~ (\/ PutWrite(t) \/ PutFull(t) \/ PutNotEmpty(t) \/ TakeRead(t) \/ TakeEmpty(t)
           \/ TakeNotFull(t) \/ SealClosed(t) \/ SealNotFull(t) \/ SealNotEmpty(t)
           \/ ReleaseAndReturn(t, "put_unlock") \/ ReleaseAndReturn(t, "take_unlock")
           \/ ReleaseAndReturn(t, "seal_unlock") \/ Release(t, "put_undo", "put_giveback"))
    BY DEF PutWrite, PutFull, PutNotEmpty, TakeRead, TakeEmpty, TakeNotFull, SealClosed, SealNotFull,
           SealNotEmpty, ReleaseAndReturn, Release, Step
  <1> QED
    BY <1>1, <1>2, <1>3, <1>4 DEF AStep, Steps

\* The owner of the lock moves the lag from one instruction to the next, and releases
\* the lock without any.
LEMMA InsideLag ==
  ASSUME PermitsBalance, PermitsBalance', NEW t \in Threads, LagOK(t), AStep(t), pc[t] \in Critical
  PROVE  \/ UNCHANGED guard /\ LagOK(t)'
         \/ guard' = NoThread /\ NotFullAgrees' /\ NotEmptyAgrees'
PROOF
  <1>0. /\ size \in Nat /\ Capacity \in Nat /\ Capacity > 0 /\ size <= Capacity
        /\ size' \in Nat /\ size' <= Capacity
        /\ notFull \in BOOLEAN /\ notEmpty \in BOOLEAN /\ closedEvent \in BOOLEAN
        /\ pc \in [Threads -> Pcs]
    BY CapacityAssumption DEF PermitsBalance, TypeOK
  <1> USE <1>0 DEF LagOK, NotFullAgrees, NotEmptyAgrees, Step, Goto
  <1>1. CASE PutWrite(t)
    BY <1>1 DEF PutWrite, events, ring
  <1>2. CASE PutFull(t)
    BY <1>2 DEF PutFull, ring
  <1>3. CASE PutNotEmpty(t)
    BY <1>3 DEF PutNotEmpty, ring
  <1>4. CASE TakeRead(t)
    BY <1>4 DEF TakeRead, events
  <1>5. CASE TakeEmpty(t)
    BY <1>5 DEF TakeEmpty, ring
  <1>6. CASE TakeNotFull(t)
    BY <1>6 DEF TakeNotFull, ring
  <1>7. CASE SealClosed(t)
    BY <1>7 DEF SealClosed, ring
  <1>8. CASE SealNotFull(t)
    BY <1>8 DEF SealNotFull, ring
  <1>9. CASE SealNotEmpty(t)
    BY <1>9 DEF SealNotEmpty, ring
  <1>10. CASE \/ ReleaseAndReturn(t, "put_unlock") \/ ReleaseAndReturn(t, "take_unlock")
              \/ ReleaseAndReturn(t, "seal_unlock") \/ Release(t, "put_undo", "put_giveback")
    BY <1>10 DEF ReleaseAndReturn, Release, events, ring
  <1>11. ~ (\/ Calls(t) \/ Locks(t) \/ PutClosed(t) \/ PutSlot(t) \/ PutGiveBack(t) \/ SendCheck(t)
            \/ SendWait(t) \/ TakeItem(t) \/ RecvCheck(t) \/ RecvWait(t) \/ Reject(t))
    BY DEF Critical, Calls, SendFor, ReceiveFor, Close, Locks, Acquire, PutClosed, PutSlot,
           PutGiveBack, SendCheck, SendWait, TakeItem, RecvCheck, RecvWait, Reject
  <1> QED
    BY <1>1, <1>2, <1>3, <1>4, <1>5, <1>6, <1>7, <1>8, <1>9, <1>10, <1>11 DEF AStep, Steps

LEMMA StepEvents ==
  ASSUME PermitsBalance, PermitsBalance', GuardOK, GuardOK', LockedOK, EventsAgree,
         NEW t \in Threads, AStep(t)
  PROVE  LockedOK' /\ EventsAgree'
PROOF
  <1> USE ThreadsAssumption
  <1>1. CASE pc[t] \in Critical
    <2>1. guard = t /\ LagOK(t)
      BY <1>1 DEF GuardOK, LockedOK
    <2> QED
      BY <1>1, <2>1, InsideLag DEF LockedOK, EventsAgree, NotFullAgrees, NotEmptyAgrees
  <1>2. CASE pc[t] \notin Critical
    <2>1. UNCHANGED <<closedEvent, notFull, notEmpty, size>>
      BY <1>2, OutsideFacts DEF PermitsBalance, events, ring
    <2>2. CASE UNCHANGED guard
      <3>1. ASSUME NEW s \in Threads, guard = s PROVE LagOK(s)'
        <4>1. s # t /\ LagOK(s)
          BY <1>2, <3>1 DEF GuardOK, LockedOK
        <4>2. pc'[s] = pc[s]
          BY <1>2, <4>1, OutsideFacts DEF PermitsBalance
        <4> QED
          BY <2>1, <4>1, <4>2 DEF LagOK, NotFullAgrees, NotEmptyAgrees
      <3> QED
        BY <2>1, <2>2, <3>1 DEF LockedOK, EventsAgree
    <2>3. CASE guard = NoThread /\ guard' = t /\ pc'[t] \in {"put_write", "take_read", "seal"}
      BY <2>1, <2>3 DEF LockedOK, EventsAgree, LagOK, NotFullAgrees, NotEmptyAgrees
    <2> QED
      BY <1>2, <2>2, <2>3, OutsideFacts DEF PermitsBalance
  <1> QED
    BY <1>1, <1>2
-----------------------------------------------------------------------------
(* Outcomes.                                                               *)

LEMMA Kinds ==
  Pending # Refused /\ Pending # Sent /\ \A v : Pending # Received(v)
  BY DEF Pending, Refused, Sent, Received

\* A call is pending exactly until it takes effect or is refused.
LEMMA StepOutcome ==
  ASSUME TypeOK, OutcomeOK, NEW t \in Threads, AStep(t)
  PROVE  OutcomeOK'
PROOF
  <1> USE Kinds DEF Undecided
  <1>1. CASE Calls(t)
    BY <1>1 DEF Calls, SendFor, ReceiveFor, Close, Conclude, Step, Goto, OutcomeOK, TypeOK
  <1>2. CASE Locks(t)
    BY <1>2 DEF Locks, Acquire, Step, Goto, OutcomeOK, TypeOK
  <1>3. CASE \/ ReleaseAndReturn(t, "put_unlock") \/ ReleaseAndReturn(t, "take_unlock")
             \/ ReleaseAndReturn(t, "seal_unlock") \/ Release(t, "put_undo", "put_giveback")
    BY <1>3 DEF ReleaseAndReturn, Release, Return, Step, Goto, OutcomeOK, TypeOK
  <1>4. CASE \/ PutClosed(t) \/ PutSlot(t) \/ PutFull(t) \/ PutNotEmpty(t) \/ PutGiveBack(t)
             \/ SendWait(t)
    <2>1. CASE PutClosed(t) \/ PutSlot(t) \/ PutFull(t)
      BY <2>1 DEF PutClosed, PutSlot, PutFull, Step, Goto, OutcomeOK, TypeOK
    <2>2. CASE PutNotEmpty(t) \/ PutGiveBack(t) \/ SendWait(t)
      BY <2>2 DEF PutNotEmpty, PutGiveBack, SendWait, Step, Goto, OutcomeOK, TypeOK
    <2> QED
      BY <1>4, <2>1, <2>2
  <1>8. CASE TakeItem(t) \/ TakeEmpty(t) \/ TakeNotFull(t) \/ RecvWait(t)
    BY <1>8 DEF TakeItem, TakeEmpty, TakeNotFull, RecvWait, Step, Goto, OutcomeOK, TypeOK
  <1>9. CASE SealClosed(t) \/ SealNotFull(t) \/ SealNotEmpty(t)
    BY <1>9 DEF SealClosed, SealNotFull, SealNotEmpty, Step, Goto, OutcomeOK, TypeOK
  <1>5. CASE PutWrite(t)
    BY <1>5 DEF PutWrite, Conclude, Goto, OutcomeOK, TypeOK
  <1>6. CASE TakeRead(t)
    BY <1>6 DEF TakeRead, Conclude, Step, Goto, OutcomeOK, TypeOK
  <1>7. CASE SendCheck(t) \/ RecvCheck(t) \/ Reject(t)
    BY <1>7 DEF SendCheck, RecvCheck, Reject, Conclude, Return, Goto, OutcomeOK, TypeOK
  <1> QED
    BY <1>1, <1>2, <1>3, <1>4, <1>5, <1>6, <1>7, <1>8, <1>9 DEF AStep, Steps
-----------------------------------------------------------------------------
(* The ring.                                                               *)

\* The steps that touch no ring, and no close.
LEMMA RingFacts ==
  ASSUME TypeOK, NEW t \in Threads, AStep(t)
  PROVE  UNCHANGED ring \/ TakeRead(t) \/ (PutWrite(t) /\ ~ closedEvent)
PROOF
  <1>1. CASE pc[t] \notin Critical
    BY <1>1, OutsideFacts
  <1>2. CASE pc[t] \in Critical
    BY <1>2 DEF Critical, AStep, Steps, Calls, SendFor, ReceiveFor, Close, Locks, Acquire, PutClosed,
       PutSlot, PutWrite, PutFull, PutNotEmpty, PutGiveBack, SendCheck, SendWait, TakeItem,
       TakeEmpty, TakeNotFull, RecvCheck, RecvWait, Reject, SealClosed, SealNotFull, SealNotEmpty,
       ReleaseAndReturn, Release
  <1> QED
    BY <1>1, <1>2

\* Who writes the ring has a slot, who reads it has an item.
LEMMA RoomAndValue ==
  ASSUME PermitsBalance, NEW t \in Threads
  PROVE  /\ pc[t] = "put_write" => size < Capacity /\ items < Capacity
         /\ pc[t] = "take_read" => size > 0
PROOF
  <1>1. /\ Cardinality(At(WithSlot)) \in Nat /\ Cardinality(At(WithItem)) \in Nat
        /\ pc[t] = "put_write" => Cardinality(At(WithSlot)) >= 1
        /\ pc[t] = "take_read" => Cardinality(At(WithItem)) >= 1
    <2>1. IsFiniteSet(At(WithSlot)) /\ IsFiniteSet(At(WithItem))
      <3>1. At(WithSlot) \in SUBSET Threads /\ At(WithItem) \in SUBSET Threads
        BY DEF At
      <3> QED
        BY <3>1, ThreadsAssumption, FS_Subset
    <2>2. pc[t] = "put_write" => At(WithSlot) # {}
      BY Holders DEF At
    <2>3. pc[t] = "take_read" => At(WithItem) # {}
      BY Holders DEF At
    <2>4. Cardinality(At(WithSlot)) \in Nat /\ Cardinality(At(WithItem)) \in Nat
      BY <2>1, FS_CardinalityType
    <2>5. /\ At(WithSlot) # {} => Cardinality(At(WithSlot)) # 0
          /\ At(WithItem) # {} => Cardinality(At(WithItem)) # 0
      BY <2>1, FS_EmptySet
    <2> QED
      BY <2>2, <2>3, <2>4, <2>5
  <1> QED
    BY <1>1, CapacityAssumption DEF PermitsBalance, TypeOK

LEMMA StepRing ==
  ASSUME PermitsBalance, RingOK, NEW t \in Threads, AStep(t)
  PROVE  RingOK'
PROOF
  <1>1. /\ head \in 0 .. Capacity - 1 /\ tail \in 0 .. Capacity - 1
        /\ size \in 0 .. Capacity /\ Capacity \in Nat
    BY CapacityAssumption DEF PermitsBalance, TypeOK, Index
  <1>2. CASE UNCHANGED ring
    BY <1>2 DEF ring, RingOK, Slot
  <1>3. CASE TakeRead(t)
    <2>1. size > 0
      BY <1>3, RoomAndValue DEF TakeRead, Step
    <2> QED
      BY <1>1, <1>3, <2>1 DEF TakeRead, Advance, RingOK, Slot
  <1>4. CASE PutWrite(t) /\ ~ closedEvent
    <2>1. size < Capacity
      BY <1>4, RoomAndValue DEF PutWrite
    <2> QED
      BY <1>1, <1>4, <2>1 DEF PutWrite, Advance, RingOK, Slot
  <1> QED
    BY <1>2, <1>3, <1>4, RingFacts DEF PermitsBalance
-----------------------------------------------------------------------------
LEMMA StepIInv == IInv /\ [Next]_vars => IInv'
PROOF
  <1> SUFFICES ASSUME IInv, [Next]_vars PROVE IInv'
    OBVIOUS
  <1> USE DEF IInv
  <1>1. PermitsBalance'
    BY StepBalance
  <1>2. ASSUME NEW t \in Threads, AStep(t) PROVE IInv'
    BY <1>1, <1>2, StepGuard, StepEvents, StepOutcome, StepRing DEF PermitsBalance
  <1>3. CASE Dispose \/ UNCHANGED vars
    <2>1. UNCHANGED <<guard, closedEvent, notFull, notEmpty, head, tail, size, pc, outcome>>
      BY <1>3 DEF Dispose, vars, events, ring
    <2> QED
      BY <1>1, <2>1 DEF GuardOK, LockedOK, LagOK, NotFullAgrees, NotEmptyAgrees, EventsAgree,
                        OutcomeOK, RingOK, Slot
  <1> QED
    BY <1>2, <1>3 DEF Next, AStep

\* The inductive invariant of the channel: permits, lock, events, outcomes and ring
\* indices fit together in every reachable state.
THEOREM Invariance == Spec => []IInv
  BY InitIInv, StepIInv, PTL DEF Spec

\* No permit of BoundedQueue's semaphores is ever lost or made up.
THEOREM PermitsAreBalanced == Spec => []PermitsBalance
  BY Invariance, PTL DEF IInv

\* Whenever the lock of BoundedQueue is free its two events say what the ring holds.
THEOREM EventsAreRight == Spec => []EventsAgree
  BY Invariance, PTL DEF IInv

\* Whatever calls are under way, what BoundedQueue's semaphores and events say of its ring is true.
THEOREM SignalsAreRight == Spec => []SignalsAgree
  BY Invariance, PTL DEF IInv, SignalsAgree
-----------------------------------------------------------------------------
(* Refinement of BoundedFifo.                                              *)

\* What a slot of the ring stands for.
Stored(i) == IF voidFlags[i] THEN Void ELSE buffer[i]

ContentsOK ==
  /\ Contents \in Seq(Values) /\ Len(Contents) = size
  /\ \A i \in 1 .. size : Contents[i] = Stored(Slot(i - 1))

LEMMA ContentsFacts == TypeOK => ContentsOK
PROOF
  <1> SUFFICES ASSUME TypeOK PROVE ContentsOK
    OBVIOUS
  <1>1. /\ head \in 0 .. Capacity - 1 /\ size \in 0 .. Capacity /\ Capacity \in Nat
    BY CapacityAssumption DEF TypeOK, Index
  <1>2. \A i \in 1 .. size : Slot(i - 1) \in Index
    BY <1>1 DEF Slot, Index
  <1>3. \A j \in Index : Stored(j) \in Values
    BY ValuesAssumption DEF TypeOK, Stored
  <1>4. Contents = [i \in 1 .. size |-> Stored(Slot(i - 1))]
    <2>1. \A i \in 1 .. size : /\ head + (i - 1) = head + i - 1
                               /\ head + (i - 1) - Capacity = head + i - 1 - Capacity
      BY <1>1
    <2> QED
      BY <2>1 DEF Contents, Stored, Slot
  <1>5. Contents \in [1 .. size -> Values]
    BY <1>2, <1>3, <1>4
  <1>6. Contents \in Seq(Values)
    BY <1>1, <1>5, SeqDef
  <1>7. Len(Contents) = size
    BY <1>1, <1>5, <1>6, LenProperties
  <1> QED
    BY <1>4, <1>6, <1>7 DEF ContentsOK

LEMMA ContentsFactsNext == TypeOK' => ContentsOK'
  BY ContentsFacts, PTL

\* The value a sender writes becomes the last one.
LEMMA WriteAppends ==
  ASSUME PermitsBalance, PermitsBalance', RingOK, NEW t \in Threads, PutWrite(t), ~ closedEvent
  PROVE  Contents' = Append(Contents, message[t])
PROOF
  <1>1. /\ head \in 0 .. Capacity - 1 /\ tail \in 0 .. Capacity - 1
        /\ size \in 0 .. Capacity /\ Capacity \in Nat /\ size < Capacity
        /\ message[t] \in Values
    BY CapacityAssumption, RoomAndValue DEF PermitsBalance, TypeOK, Index, PutWrite
  <1>2. /\ size' = size + 1 /\ head' = head /\ \A i : Slot(i)' = Slot(i)
        /\ buffer' = [buffer EXCEPT ![tail] = IF message[t] = Void THEN False ELSE message[t]]
        /\ voidFlags' = [voidFlags EXCEPT ![tail] = message[t] = Void]
    BY DEF PutWrite, Slot
  <1>3. \A j \in Index : Stored(j)' = IF j = tail THEN message[t] ELSE Stored(j)
    <2>1. SUFFICES ASSUME NEW j \in Index
                   PROVE  Stored(j)' = IF j = tail THEN message[t] ELSE Stored(j)
      OBVIOUS
    <2>2. CASE j = tail
      BY <1>1, <1>2, <2>2 DEF PermitsBalance, TypeOK, Stored, Index
    <2>3. CASE j # tail
      BY <1>2, <2>3 DEF PermitsBalance, TypeOK, Stored
    <2> QED
      BY <2>2, <2>3
  <1>4. \A i \in 1 .. size : Slot(i - 1) \in Index /\ Slot(i - 1) # tail
    BY <1>1 DEF RingOK, Slot, Index
  <1>5. \A i \in 1 .. size + 1 : Contents'[i] = Stored(Slot(i - 1))'
    BY <1>2, ContentsFactsNext DEF PermitsBalance, ContentsOK
  <1>6. \A i \in 1 .. size : Contents'[i] = Contents[i]
    <2>1. \A i \in 1 .. size : i \in 1 .. size + 1 /\ Contents[i] = Stored(Slot(i - 1))
      BY <1>1, ContentsFacts DEF PermitsBalance, ContentsOK
    <2>2. \A i \in 1 .. size : Stored(Slot(i - 1))' = Stored(Slot(i - 1))
      BY <1>2, <1>3, <1>4 DEF Stored
    <2> QED
      BY <1>5, <2>1, <2>2
  <1>7. Contents'[size + 1] = message[t]
    <2>1. \A i \in 1 .. size + 1 : i = size + 1 => Slot(i - 1) = tail /\ tail \in Index
      BY <1>1 DEF RingOK, Slot, Index
    <2>2. \A i \in 1 .. size + 1 : i = size + 1 => Stored(Slot(i - 1))' = message[t]
      BY <1>2, <1>3, <2>1 DEF Stored
    <2>3. size + 1 \in 1 .. size + 1
      BY <1>1
    <2> QED
      BY <1>5, <2>2, <2>3
  <1>8. /\ Contents \in Seq(Values) /\ Len(Contents) = size
        /\ Contents' \in Seq(Values) /\ Len(Contents') = size + 1
    <2>1. Contents' \in Seq(Values) /\ Len(Contents)' = size'
      BY ContentsFactsNext DEF PermitsBalance, ContentsOK
    <2> QED
      BY <1>2, <2>1, ContentsFacts DEF PermitsBalance, ContentsOK
  <1>9. /\ Append(Contents, message[t]) \in Seq(Values)
        /\ Len(Append(Contents, message[t])) = size + 1
        /\ \A i \in 1 .. size : Append(Contents, message[t])[i] = Contents[i]
        /\ Append(Contents, message[t])[size + 1] = message[t]
    BY <1>1, <1>8, AppendProperties
  <1>10. \A i \in 1 .. Len(Contents') : Contents'[i] = Append(Contents, message[t])[i]
    BY <1>1, <1>6, <1>7, <1>8, <1>9
  <1> QED
    BY <1>8, <1>9, <1>10, SeqEqual

\* The value a receiver reads was the first one.
LEMMA ReadTakesHead ==
  ASSUME PermitsBalance, PermitsBalance', NEW t \in Threads, TakeRead(t)
  PROVE  /\ Contents # << >> /\ Contents' = Tail(Contents)
         /\ Head(Contents) = Stored(head)
PROOF
  <1>1. /\ head \in 0 .. Capacity - 1 /\ size \in 1 .. Capacity /\ Capacity \in Nat
    BY CapacityAssumption, RoomAndValue DEF PermitsBalance, TypeOK, Index, TakeRead, Step
  <1>2. /\ size' = size - 1 /\ head' = Advance(head)
        /\ buffer' = [buffer EXCEPT ![head] = False]
        /\ voidFlags' = [voidFlags EXCEPT ![head] = FALSE]
    BY DEF TakeRead
  <1>3. \A j \in Index : j # head => Stored(j)' = Stored(j)
    BY <1>2 DEF PermitsBalance, TypeOK, Stored
  <1>4. \A i \in 1 .. size - 1 : /\ Slot(i) \in Index /\ Slot(i) # head
                                 /\ Slot(i - 1)' = Slot(i)
    BY <1>1, <1>2 DEF Slot, Index, Advance
  <1>5. /\ Contents \in Seq(Values) /\ Len(Contents) = size
        /\ Contents' \in Seq(Values) /\ Len(Contents') = size - 1
    <2>1. Contents' \in Seq(Values) /\ Len(Contents)' = size'
      BY ContentsFactsNext DEF PermitsBalance, ContentsOK
    <2> QED
      BY <1>2, <2>1, ContentsFacts DEF PermitsBalance, ContentsOK
  <1>6. Contents # << >>
    BY <1>1, <1>5, EmptySeq
  <1>7. /\ Tail(Contents) \in Seq(Values) /\ Len(Tail(Contents)) = size - 1
        /\ \A i \in 1 .. size - 1 : Tail(Contents)[i] = Contents[i + 1]
    BY <1>5, <1>6, HeadTailProperties
  <1>8. \A i \in 1 .. size - 1 : Contents'[i] = Contents[i + 1]
    <2>1. \A i \in 1 .. size - 1 : Contents[i + 1] = Stored(Slot(i + 1 - 1))
      BY <1>1, ContentsFacts DEF PermitsBalance, ContentsOK
    <2>2. \A i \in 1 .. size' : Contents'[i] = Stored(Slot(i - 1))'
      BY ContentsFactsNext DEF PermitsBalance, ContentsOK
    <2>3. \A i \in 1 .. size - 1 : Stored(Slot(i - 1))' = Stored(Slot(i))
      BY <1>3, <1>4 DEF Stored
    <2>4. \A i \in 1 .. size - 1 : i + 1 - 1 = i
      BY <1>1
    <2> QED
      BY <1>2, <2>1, <2>2, <2>3, <2>4
  <1>9. Contents' = Tail(Contents)
    BY <1>5, <1>7, <1>8, SeqEqual
  <1>10. Head(Contents) = Stored(head)
    <2>1. Contents[1] = Stored(Slot(1 - 1))
      BY <1>1, ContentsFacts DEF PermitsBalance, ContentsOK
    <2>2. Slot(1 - 1) = head
      BY <1>1 DEF Slot
    <2>3. Head(Contents) = Contents[1]
      BY <1>5, <1>6
    <2> QED
      BY <2>1, <2>2, <2>3
  <1> QED
    BY <1>6, <1>9, <1>10

\* The first action of a call is the one the caller makes.
LEMMA CallRefines ==
  ASSUME OutcomeOK, TypeOK, NEW t \in Threads, SendFor(t) \/ ReceiveFor(t)
  PROVE  Fifo!Next
PROOF
  <1>1. pc[t] = "idle" /\ outcome' = [outcome EXCEPT ![t] = Pending]
    BY DEF SendFor, ReceiveFor, Step, Conclude
  <1>2. outcome[t] # Pending
    BY <1>1 DEF OutcomeOK, Undecided
  <1>3. UNCHANGED <<Contents, closedEvent>>
    BY DEF SendFor, ReceiveFor, ring, events, Contents
  <1> QED
    BY <1>1, <1>2, <1>3 DEF Fifo!Next, Fifo!Call, Fifo!Pending, Pending

LEMMA PutRefines ==
  ASSUME PermitsBalance, PermitsBalance', OutcomeOK, RingOK, NEW t \in Threads, PutWrite(t)
  PROVE  [Fifo!Next]_<<Contents, closedEvent, outcome>>
PROOF
  <1>1. CASE closedEvent
    BY <1>1 DEF PutWrite, ring, events, Contents
  <1>2. CASE ~ closedEvent
    <2>1. items < Capacity /\ size < Capacity /\ message[t] \in Values
      BY RoomAndValue DEF PutWrite, PermitsBalance, TypeOK
    <2>2. outcome[t] = Pending /\ outcome' = [outcome EXCEPT ![t] = Sent] /\ UNCHANGED closedEvent
      BY <1>2, <2>1 DEF PutWrite, OutcomeOK, Undecided, Conclude, events
    <2>3. Contents' = Append(Contents, message[t]) /\ Len(Contents) = size
      BY <1>2, WriteAppends, ContentsFacts DEF PermitsBalance, ContentsOK
    <2>4. Fifo!Put(t, message[t])
      BY <1>2, <2>1, <2>2, <2>3 DEF Fifo!Put, Fifo!Pending, Fifo!Sent, Pending, Sent
    <2> QED
      BY <2>1, <2>4 DEF Fifo!Next
  <1> QED
    BY <1>1, <1>2

LEMMA TakeRefines ==
  ASSUME PermitsBalance, PermitsBalance', OutcomeOK, NEW t \in Threads, TakeRead(t)
  PROVE  Fifo!Next
PROOF
  <1>1. /\ outcome[t] = Pending /\ outcome' = [outcome EXCEPT ![t] = Received(Stored(head))]
        /\ UNCHANGED closedEvent
    BY DEF TakeRead, OutcomeOK, Undecided, Conclude, Step, Stored, events
  <1>2. Contents # << >> /\ Contents' = Tail(Contents) /\ Head(Contents) = Stored(head)
    BY ReadTakesHead
  <1>3. Fifo!Take(t)
    BY <1>1, <1>2 DEF Fifo!Take, Fifo!Pending, Fifo!Received, Pending, Received
  <1> QED
    BY <1>3 DEF Fifo!Next

LEMMA RefusalRefines ==
  ASSUME OutcomeOK, TypeOK, NEW t \in Threads, SendCheck(t) \/ RecvCheck(t) \/ Reject(t)
  PROVE  [Fifo!Next]_<<Contents, closedEvent, outcome>>
PROOF
  <1>1. outcome[t] = Pending
    BY DEF SendCheck, RecvCheck, Reject, OutcomeOK, Undecided
  <1>2. UNCHANGED <<Contents, closedEvent>>
    BY DEF SendCheck, RecvCheck, Reject, ring, events, Contents
  <1>3. UNCHANGED outcome \/ outcome' = [outcome EXCEPT ![t] = Refused]
    BY DEF SendCheck, RecvCheck, Reject, Conclude
  <1> QED
    BY <1>1, <1>2, <1>3 DEF Fifo!Next, Fifo!Refuse, Fifo!Pending, Fifo!Refused, Pending, Refused

\* Every other step of a thread changes nothing callers see, but for close.
LEMMA OtherRefines ==
  ASSUME NEW t \in Threads,
         \/ Close(t) \/ Locks(t) \/ PutClosed(t) \/ PutSlot(t) \/ PutFull(t) \/ PutNotEmpty(t)
         \/ ReleaseAndReturn(t, "put_unlock") \/ Release(t, "put_undo", "put_giveback")
         \/ PutGiveBack(t) \/ SendWait(t) \/ TakeItem(t) \/ TakeEmpty(t) \/ TakeNotFull(t)
         \/ ReleaseAndReturn(t, "take_unlock") \/ RecvWait(t) \/ SealClosed(t) \/ SealNotFull(t)
         \/ SealNotEmpty(t) \/ ReleaseAndReturn(t, "seal_unlock")
  PROVE  [Fifo!Next]_<<Contents, closedEvent, outcome>>
PROOF
  <1>1. UNCHANGED <<ring, outcome>>
    BY DEF Close, Locks, Acquire, PutClosed, PutSlot, PutFull, PutNotEmpty, ReleaseAndReturn, Release,
           PutGiveBack, SendWait, TakeItem, TakeEmpty, TakeNotFull, RecvWait, SealClosed, SealNotFull,
           SealNotEmpty
  <1>2. UNCHANGED Contents
    BY <1>1 DEF ring, Contents
  <1>3. UNCHANGED closedEvent \/ closedEvent' = TRUE
    BY DEF Close, Locks, Acquire, PutClosed, PutSlot, PutFull, PutNotEmpty, ReleaseAndReturn, Release,
           PutGiveBack, SendWait, TakeItem, TakeEmpty, TakeNotFull, RecvWait, SealClosed, SealNotFull,
           SealNotEmpty, events
  <1> QED
    BY <1>1, <1>2, <1>3 DEF Fifo!Next, Fifo!Close

LEMMA StepRefines ==
  ASSUME IInv, IInv', [Next]_vars
  PROVE  [Fifo!Next]_<<Contents, closedEvent, outcome>>
PROOF
  <1> USE DEF IInv
  <1>1. ASSUME NEW t \in Threads, AStep(t) PROVE [Fifo!Next]_<<Contents, closedEvent, outcome>>
    BY <1>1, CallRefines, PutRefines, TakeRefines, RefusalRefines, OtherRefines
       DEF AStep, Calls, Steps, PermitsBalance
  <1>2. CASE Dispose \/ UNCHANGED vars
    BY <1>2 DEF Dispose, vars, ring, events, Contents
  <1> QED
    BY <1>1, <1>2 DEF Next, AStep

\* The channel implements the bounded FIFO its callers see: a value taken is the oldest
\* one sent, once, nothing enters after close, and a call is answered once.
THEOREM ChannelIsAFifo == Spec => ImplementsFifo
PROOF
  <1>1. Init => Fifo!Init
    <2> SUFFICES ASSUME Init PROVE Fifo!Init
      OBVIOUS
    <2>1. Contents = << >>
      <3>1. size = 0 /\ TypeOK
        BY InitIInv DEF Init, IInv, PermitsBalance
      <3>2. Contents \in Seq(Values) /\ Len(Contents) = 0
        BY <3>1, ContentsFacts DEF ContentsOK
      <3> QED
        BY <3>2, EmptySeq
    <2> QED
      BY <2>1 DEF Init, Fifo!Init, Fifo!Refused, Refused
  <1>2. IInv /\ IInv' /\ [Next]_vars => [Fifo!Next]_<<Contents, closedEvent, outcome>>
    BY StepRefines
  <1> QED
    BY <1>1, <1>2, Invariance, PTL DEF Spec, ImplementsFifo, Fifo!Spec
=============================================================================
