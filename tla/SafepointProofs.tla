--------------------------- MODULE SafepointProofs ---------------------------
(***************************************************************************)
(* Proofs about Safepoint for any finite set of threads.                   *)
(***************************************************************************)
EXTENDS Safepoint, FiniteSetTheorems, TLAPS

CollectPcs == StoppedPcs \cup {"gc_scanlock", "gc_scan"}

SafepointPcs == {"sp_check", "sp_lock", "sp_first", "sp_wait", "sp_relock",
                 "sp_again", "sp_verify"}

StartPcs == {"st_count", "st_create", "st_undo"}

BypassPcs == {"heap", "hl", "gc_lock", "gc_request"} \cup CollectPcs

\* The threads managed_thread_count stands for.
Counted == {t \in Threads : pc[t] \notin {"idle", "claimed", "done"}}

CountOK == managedCount = Cardinality(Counted)

ChildOK ==
    /\ \A t \in Threads : pc[t] \in StartPcs =>
          /\ child[t] \in Threads
          /\ pc[child[t]] = IF pc[t] = "st_count" THEN "claimed" ELSE "counted"
    /\ \A t, u \in Threads :
          pc[t] \in StartPcs /\ pc[u] \in StartPcs /\ child[t] = child[u] => t = u

BypassOK ==
    \A t \in Threads : bypass[t] > 0 =>
        Counted = {t} /\ pc[t] \in BypassPcs \cup {"he_count"}

OwnerOK ==
    /\ heapOwner = NoThread <=> heapDepth = 0
    /\ \A t \in Threads : heapOwner = t =>
          /\ pc[t] \in BypassPcs \cup SafepointPcs \cup
                       {"he_count", "he_acquire", "he_lock", "he_body",
                        "he_yield", "ne_lock", "ne_body"}
          /\ op[t] \notin {"native", "sync"}
          /\ pc[t] \in SafepointPcs => site[t] # "run"

HoldOK ==
    \A t \in Threads :
        /\ pc[t] \in BypassPcs => InHeap(t)
        /\ pc[t] \in {"he_lock", "he_body", "he_yield"} => heapOwner = t
        /\ pc[t] = "he_acquire" => op[t] \notin {"native", "sync"}

SyncOK == syncOwner = NoThread <=> syncDepth = 0

StateOK ==
    \A t \in Threads :
        /\ pc[t] \in ManagedPcs \cup {"he_count"} => gcState[t] = "RUNNING"
        /\ pc[t] \in {"sp_check", "sp_lock", "sp_first", "sp_verify"} /\ site[t] = "run"
              => gcState[t] = "RUNNING"

RequestOK ==
    \A t \in Threads :
        /\ pc[t] \in CollectPcs => gcRequested /\ gcState[t] # "RUNNING"
        /\ pc[t] \in StoppedPcs => \A u \in Threads \ {t} : gcState[u] # "RUNNING"

IInv == /\ TypeOK
        /\ CountOK
        /\ ChildOK
        /\ BypassOK
        /\ OwnerOK
        /\ HoldOK
        /\ SyncOK
        /\ StateOK
        /\ RequestOK

-----------------------------------------------------------------------------
(* Counting: with one counted thread, that thread is alone.                *)

\* The threads that managed_thread_count counts are finitely many.
LEMMA CountedFinite == IsFiniteSet(Counted)
BY ThreadsAssumption, FS_Subset DEF Counted

\* fn_heap_enter's test of managed_thread_count is exact.
LEMMA AloneIfOne ==
    ASSUME CountOK, managedCount <= 1, NEW t \in Counted
    PROVE  Counted = {t}
<1>1. /\ IsFiniteSet(Counted \ {t})
      /\ Cardinality(Counted \ {t}) = Cardinality(Counted) - 1
  BY CountedFinite, FS_RemoveElement
<1>2. Cardinality(Counted) \in Nat /\ Cardinality(Counted \ {t}) \in Nat
  BY <1>1, CountedFinite, FS_CardinalityType
<1>3. Cardinality(Counted \ {t}) = 0
  BY <1>1, <1>2 DEF CountOK
<1>4. Counted \ {t} = {}
  BY <1>1, <1>3, FS_EmptySet
<1> QED BY <1>4

\* The heap monitor and its bypass exclude each other.
LEMMA Exclusive ==
    ASSUME TypeOK, BypassOK, OwnerOK
    PROVE  HeapExclusive
BY ThreadsAssumption DEF TypeOK, BypassOK, OwnerOK, HeapExclusive, InHeap, Counted,
   BypassPcs, CollectPcs, StoppedPcs, SafepointPcs

-----------------------------------------------------------------------------
\* The program starts with one counted thread, no request and no monitor held.
LEMMA InitIInv == Init => IInv
<1> SUFFICES ASSUME Init PROVE IInv
  OBVIOUS
<1> USE ThreadsAssumption, BoundsAssumption DEF Init
<1>1. Counted = {Main}
  BY DEF Counted
<1>2. CountOK
  BY <1>1, FS_Singleton DEF CountOK
<1>3. TypeOK
  <2>1. gcState \in [Threads -> GcStates] /\ pc \in [Threads -> Pcs]
    BY DEF GcStates, Pcs, CoordPcs
  <2>2. op \in [Threads -> Ops] /\ site \in [Threads -> Sites]
    BY DEF Ops, Sites
  <2>3. collected \in [Threads -> 0 .. MaxCollect] /\ bypass \in [Threads -> Nat]
    BY SMT
  <2>4. child \in [Threads -> Threads \cup {NoThread}]
    OBVIOUS
  <2> QED BY <2>1, <2>2, <2>3, <2>4 DEF TypeOK
<1>4. ChildOK /\ BypassOK /\ OwnerOK
  BY DEF ChildOK, StartPcs, BypassOK, OwnerOK
<1>5. HoldOK /\ SyncOK /\ StateOK /\ RequestOK
  BY DEF HoldOK, InHeap, BypassPcs, SyncOK, StateOK, ManagedPcs, RequestOK,
         CollectPcs, StoppedPcs
<1> QED BY <1>2, <1>3, <1>4, <1>5 DEF IInv

\* Every step that starts or ends no thread leaves the count alone.
LEMMA QuietStep ==
    ASSUME IInv, NEW t \in Threads, Step(t),
           ~HeCount(t), ~StartCount(t), ~StartUndo(t), ~MxDec(t)
    PROVE  IInv'
<1> USE ThreadsAssumption, BoundsAssumption
    DEF IInv, TypeOK, ChildOK, BypassOK, OwnerOK, HoldOK, SyncOK, StateOK,
        RequestOK, HeapExclusive, InHeap, BypassPcs, CollectPcs, StoppedPcs,
        SafepointPcs, StartPcs, ManagedPcs, Pcs, CoordPcs, Ops, Sites,
        GcStates, Goto, Publish, ReturnFromSafepoint, BeginHeap,
        HeapReturnPc, NativeReturnPc, heapVars, syncVars
<1>1. CASE Poll(t)
  <2>1. Counted' = Counted
    BY <1>1 DEF Counted, Poll
  <2> QED BY <1>1, <2>1 DEF CountOK, Poll
<1>2. CASE SpCheck(t)
  <2>1. Counted' = Counted
    BY <1>2 DEF Counted, SpCheck
  <2> QED BY <1>2, <2>1 DEF CountOK, SpCheck
<1>3. CASE SpFirst(t)
  <2>1. Counted' = Counted
    BY <1>3 DEF Counted, SpFirst
  <2> QED BY <1>3, <2>1 DEF CountOK, SpFirst
<1>4. CASE SpWait(t)
  <2>1. Counted' = Counted
    BY <1>4 DEF Counted, SpWait
  <2> QED BY <1>4, <2>1 DEF CountOK, SpWait
<1>5. CASE SpAgain(t)
  <2>1. Counted' = Counted
    BY <1>5 DEF Counted, SpAgain
  <2> QED BY <1>5, <2>1 DEF CountOK, SpAgain
<1>6. CASE SpVerify(t)
  <2>1. Counted' = Counted
    BY <1>6 DEF Counted, SpVerify
  <2> QED BY <1>6, <2>1 DEF CountOK, SpVerify
<1>7. CASE NeBody(t)
  <2>1. Counted' = Counted
    BY <1>7 DEF Counted, NeBody
  <2> QED BY <1>7, <2>1 DEF CountOK, NeBody
<1>8. CASE NlBody(t)
  <2>1. Counted' = Counted
    BY <1>8 DEF Counted, NlBody
  <2> QED BY <1>8, <2>1 DEF CountOK, NlBody
<1>9. CASE NlWait(t)
  <2>1. Counted' = Counted
    BY <1>9 DEF Counted, NlWait
  <2> QED BY <1>9, <2>1 DEF CountOK, NlWait
<1>10. CASE BeginNative(t)
  <2>1. Counted' = Counted
    BY <1>10 DEF Counted, BeginNative
  <2> QED BY <1>10, <2>1 DEF CountOK, BeginNative
<1>11. CASE EndNative(t)
  <2>1. Counted' = Counted
    BY <1>11 DEF Counted, EndNative
  <2> QED BY <1>11, <2>1 DEF CountOK, EndNative
<1>12. CASE BeginAlloc(t)
  <2>1. Counted' = Counted
    BY <1>12 DEF Counted, BeginAlloc
  <2> QED BY <1>12, <2>1 DEF CountOK, BeginAlloc
<1>13. CASE BeginCollect(t)
  <2>1. Counted' = Counted
    BY <1>13 DEF Counted, BeginCollect
  <2> QED BY <1>13, <2>1 DEF CountOK, BeginCollect
<1>14. CASE CollectInAlloc(t)
  <2>1. Counted' = Counted
    BY <1>14 DEF Counted, CollectInAlloc
  <2> QED BY <1>14, <2>1 DEF CountOK, CollectInAlloc
<1>15. CASE BeginRetire(t)
  <2>1. Counted' = Counted
    BY <1>15 DEF Counted, BeginRetire
  <2> QED BY <1>15, <2>1 DEF CountOK, BeginRetire
<1>16. CASE HeAcquire(t)
  <2>1. Counted' = Counted
    BY <1>16 DEF Counted, HeAcquire
  <2> QED BY <1>16, <2>1 DEF CountOK, HeAcquire
<1>17. CASE HeBody(t)
  <2>1. Counted' = Counted
    BY <1>17 DEF Counted, HeBody
  <2> QED BY <1>17, <2>1 DEF CountOK, HeBody
<1>18. CASE HeapEnd(t)
  <2>1. Counted' = Counted
    BY <1>18 DEF Counted, HeapEnd
  <2> QED BY <1>18, <2>1 DEF CountOK, HeapEnd
<1>19. CASE HeapLeave(t)
  <2>1. Counted' = Counted
    BY <1>19 DEF Counted, HeapLeave, ReleaseHeap, LeaveSection, AfterHeap
  <2>2. TypeOK'
    BY <1>19 DEF HeapLeave, ReleaseHeap, LeaveSection, AfterHeap
  <2>3. CountOK' /\ ChildOK' /\ BypassOK'
    BY <1>19, <2>1 DEF CountOK, HeapLeave, ReleaseHeap, LeaveSection, AfterHeap
  <2>4. OwnerOK' /\ HoldOK'
    BY <1>19 DEF HeapLeave, ReleaseHeap, LeaveSection, AfterHeap
  <2>5. SyncOK' /\ StateOK' /\ RequestOK'
    BY <1>19 DEF HeapLeave, ReleaseHeap, LeaveSection, AfterHeap
  <2> QED BY <2>2, <2>3, <2>4, <2>5
<1>20. CASE GcRequest(t)
  <2>1. Counted' = Counted
    BY <1>20 DEF Counted, GcRequest
  <2> QED BY <1>20, <2>1, Exclusive DEF CountOK, GcRequest
<1>21. CASE GcScan(t)
  <2>1. Counted' = Counted
    BY <1>21 DEF Counted, GcScan
  <2> QED BY <1>21, <2>1, Exclusive DEF CountOK, GcScan
<1>22. CASE GcDone(t)
  <2>1. Counted' = Counted
    BY <1>22 DEF Counted, GcDone
  <2> QED BY <1>22, <2>1 DEF CountOK, GcDone
<1>23. CASE GcResume(t)
  <2>1. Counted' = Counted
    BY <1>23 DEF Counted, GcResume
  <2>2. HeapExclusive /\ InHeap(t)
    BY <1>23, Exclusive DEF GcResume
  <2>3. \A u \in Threads : pc[u] \in CollectPcs => u = t
    BY <1>23, <2>2 DEF GcResume
  <2>4. TypeOK'
    BY <1>23 DEF GcResume
  <2>5. CountOK'
    BY <1>23, <2>1 DEF CountOK, GcResume
  <2>6. ChildOK'
    BY <1>23, <2>1 DEF GcResume
  <2>7. BypassOK'
    BY <1>23, <2>1 DEF GcResume
  <2>8. OwnerOK' /\ HoldOK' /\ SyncOK' /\ StateOK'
    BY <1>23 DEF GcResume
  <2>9. RequestOK'
    BY <1>23, <2>3 DEF GcResume
  <2> QED BY <2>4, <2>5, <2>6, <2>7, <2>8, <2>9
<1>24. CASE BeginSync(t)
  <2>1. Counted' = Counted
    BY <1>24 DEF Counted, BeginSync
  <2> QED BY <1>24, <2>1 DEF CountOK, BeginSync
<1>25. CASE SyAcquire(t)
  <2>1. Counted' = Counted
    BY <1>25 DEF Counted, SyAcquire
  <2> QED BY <1>25, <2>1 DEF CountOK, SyAcquire
<1>26. CASE SyncLeave(t)
  <2>1. Counted' = Counted
    BY <1>26 DEF Counted, SyncLeave
  <2> QED BY <1>26, <2>1 DEF CountOK, SyncLeave
<1>27. CASE StartClaim(t)
  <2>1. Counted' = Counted
    BY <1>27 DEF Counted, StartClaim
  <2> QED BY <1>27, <2>1 DEF CountOK, StartClaim
<1>28. CASE StartCreate(t)
  <2>1. Counted' = Counted
    BY <1>28 DEF Counted, StartCreate
  <2> QED BY <1>28, <2>1 DEF CountOK, StartCreate
<1>29. CASE Entry(t)
  <2>1. Counted' = Counted
    BY <1>29 DEF Counted, Entry
  <2> QED BY <1>29, <2>1 DEF CountOK, Entry
<1>30. CASE MxBody(t)
  <2>1. Counted' = Counted
    BY <1>30 DEF Counted, MxBody
  <2> QED BY <1>30, <2>1 DEF CountOK, MxBody
<1>31. CASE AcquireCoord(t)
  <2>1. Counted' = Counted
    BY <1>31 DEF Counted, AcquireCoord, Acquire
  <2>2. TypeOK'
    BY <1>31 DEF AcquireCoord, Acquire
  <2>3. CountOK' /\ ChildOK' /\ BypassOK'
    BY <1>31, <2>1 DEF CountOK, AcquireCoord, Acquire
  <2>4. OwnerOK' /\ HoldOK'
    BY <1>31 DEF AcquireCoord, Acquire
  <2>5. SyncOK' /\ StateOK' /\ RequestOK'
    BY <1>31 DEF AcquireCoord, Acquire
  <2> QED BY <2>2, <2>3, <2>4, <2>5
<1> QED BY <1>1, <1>2, <1>3, <1>4, <1>5, <1>6, <1>7, <1>8,
       <1>9, <1>10, <1>11, <1>12, <1>13, <1>14, <1>15, <1>16,
       <1>17, <1>18, <1>19, <1>20, <1>21, <1>22, <1>23, <1>24,
       <1>25, <1>26, <1>27, <1>28, <1>29, <1>30, <1>31
    DEF Step, Choice, Runtime

\* fn_heap_enter: taking no lock is sound because nobody else is counted.
LEMMA HeCountStep ==
    ASSUME IInv, NEW t \in Threads, HeCount(t)
    PROVE  IInv'
<1> USE ThreadsAssumption
    DEF IInv, TypeOK, HeCount, Goto, HeapReturnPc, BypassPcs, CollectPcs,
        StoppedPcs, SafepointPcs, Pcs, CoordPcs, Sites
<1>1. t \in Counted /\ Counted' = Counted
  BY DEF Counted
<1>2. TypeOK' /\ CountOK' /\ ChildOK' /\ SyncOK' /\ StateOK' /\ RequestOK'
  BY <1>1 DEF CountOK, ChildOK, StartPcs, SyncOK, StateOK, ManagedPcs, RequestOK, syncVars
<1>3. CASE managedCount <= 1
  <2>1. Counted = {t}
    BY <1>1, <1>3, AloneIfOne
  <2>2. BypassOK'
    BY <1>1, <1>3, <2>1 DEF BypassOK
  <2>3. OwnerOK' /\ HoldOK'
    BY <1>3 DEF OwnerOK, HoldOK, InHeap
  <2> QED BY <1>2, <2>2, <2>3
<1>4. CASE managedCount > 1
  <2>1. bypass[t] = 0
    <3>1. SUFFICES ASSUME Counted = {t} PROVE FALSE
      BY DEF BypassOK
    <3>2. Cardinality(Counted) = 1
      BY <3>1, FS_Singleton
    <3> QED BY <1>4, <3>2 DEF CountOK
  <2>2. BypassOK'
    BY <1>1, <1>4, <2>1 DEF BypassOK
  <2>3. OwnerOK' /\ HoldOK'
    BY <1>4 DEF OwnerOK, HoldOK, InHeap
  <2> QED BY <1>2, <2>2, <2>3
<1> QED BY <1>3, <1>4

\* The count moves with the threads it counts.
LEMMA CountingStep ==
    ASSUME IInv, NEW t \in Threads, StartCount(t) \/ StartUndo(t) \/ MxDec(t)
    PROVE  IInv'
<1> USE ThreadsAssumption
    DEF IInv, TypeOK, ChildOK, StartPcs, BypassOK, OwnerOK, HoldOK, InHeap,
        SyncOK, StateOK, ManagedPcs, RequestOK, BypassPcs, CollectPcs,
        StoppedPcs, SafepointPcs, Pcs, CoordPcs, Goto, heapVars, syncVars
<1>1. CASE StartCount(t)
  <2>1. child[t] \notin Counted /\ Counted' = Counted \cup {child[t]}
    BY <1>1 DEF StartCount, Counted
  <2>2. CountOK'
    BY <1>1, <2>1, CountedFinite, FS_AddElement DEF StartCount, CountOK
  <2>3. managedCount' \in Nat
    BY <1>1 DEF StartCount
  <2>4. TypeOK' /\ ChildOK'
    BY <1>1, <2>3 DEF StartCount
  <2>5. t \in Counted
    BY <1>1 DEF StartCount, Counted
  <2>6. BypassOK'
    BY <1>1, <2>5 DEF StartCount
  <2>7. OwnerOK' /\ HoldOK' /\ SyncOK' /\ StateOK' /\ RequestOK'
    BY <1>1 DEF StartCount
  <2> QED BY <2>2, <2>4, <2>6, <2>7
<1>2. CASE StartUndo(t)
  <2>1. child[t] \in Counted /\ Counted' = Counted \ {child[t]}
    BY <1>2 DEF StartUndo, Counted
  <2>2. /\ Cardinality(Counted') = Cardinality(Counted) - 1
        /\ Cardinality(Counted') \in Nat
    BY <2>1, CountedFinite, FS_RemoveElement, FS_CardinalityType
  <2>3. CountOK' /\ managedCount' \in Nat
    BY <1>2, <2>2 DEF StartUndo, CountOK
  <2>4. TypeOK' /\ ChildOK'
    BY <1>2, <2>3 DEF StartUndo
  <2>5. t \in Counted
    BY <1>2 DEF StartUndo, Counted
  <2>6. BypassOK'
    BY <1>2, <2>5 DEF StartUndo
  <2>7. OwnerOK' /\ HoldOK' /\ SyncOK' /\ StateOK' /\ RequestOK'
    BY <1>2 DEF StartUndo
  <2> QED BY <2>3, <2>4, <2>6, <2>7
<1>3. CASE MxDec(t)
  <2>1. t \in Counted /\ Counted' = Counted \ {t}
    BY <1>3 DEF MxDec, Counted
  <2>2. /\ Cardinality(Counted') = Cardinality(Counted) - 1
        /\ Cardinality(Counted') \in Nat
    BY <2>1, CountedFinite, FS_RemoveElement, FS_CardinalityType
  <2>3. CountOK' /\ managedCount' \in Nat
    BY <1>3, <2>2 DEF MxDec, CountOK
  <2>4. TypeOK' /\ ChildOK'
    BY <1>3, <2>3 DEF MxDec
  <2>5. BypassOK'
    BY <1>3, <2>1 DEF MxDec
  <2>6. OwnerOK' /\ HoldOK' /\ SyncOK' /\ StateOK' /\ RequestOK'
    BY <1>3 DEF MxDec
  <2> QED BY <2>3, <2>4, <2>5, <2>6
<1> QED BY <1>1, <1>2, <1>3

\* A step that changes nothing keeps the invariant.
LEMMA StutterIInv == IInv /\ UNCHANGED vars => IInv'
BY DEF IInv, vars, TypeOK, CountOK, Counted, ChildOK, BypassOK, OwnerOK, HoldOK,
       InHeap, SyncOK, StateOK, RequestOK

\* The inductive invariant behind every safety theorem of this module.
THEOREM Invariance == Spec => []IInv
<1>1. IInv /\ [Next]_vars => IInv'
  BY QuietStep, HeCountStep, CountingStep, StutterIInv DEF Next
<1> QED BY InitIInv, <1>1, PTL DEF Spec

\* The state of the handshake keeps its types: in particular the counts and
\* recursion depths of fn_heap_leave and fn_sync_leave never go below zero.
THEOREM TypeCorrect == Spec => []TypeOK
<1>1. IInv => TypeOK
  BY DEF IInv
<1> QED BY Invariance, <1>1, PTL

\* The heap monitor and the single-thread bypass of fn_heap_enter never admit
\* two threads at once.
THEOREM HeapExclusion == Spec => []HeapExclusive
<1>1. IInv => HeapExclusive
  BY Exclusive DEF IInv
<1> QED BY Invariance, <1>1, PTL

\* While one thread collects, no other thread runs managed code or holds a
\* RUNNING state: the stop-the-world handshake is sound.
THEOREM WorldIsStopped == Spec => []StoppedWorld
<1>1. IInv => StoppedWorld
  BY DEF IInv, StoppedWorld, StateOK, RequestOK, StoppedPcs
<1> QED BY Invariance, <1>1, PTL

-----------------------------------------------------------------------------
(* The handshake implements StopTheWorld.                                  *)

\* The thread between world stop and world resume is the only one.
LEMMA StopperIs ==
    ASSUME IInv, NEW t \in Stopped
    PROVE  Stopped = {t} /\ Stopper = t
<1>1. HeapExclusive
  BY Exclusive DEF IInv
<1>2. \A u \in Stopped : u \in Threads /\ InHeap(u)
  BY DEF IInv, HoldOK, BypassPcs, CollectPcs, Stopped
<1>3. Stopped = {t}
  BY <1>1, <1>2 DEF HeapExclusive
<1> QED BY <1>3 DEF Stopper

\* With no request pending nobody has stopped the world.
LEMMA NoRequestNoStopper ==
    ASSUME IInv, ~gcRequested
    PROVE  Stopped = {} /\ Stopper = NoThread
BY DEF IInv, RequestOK, CollectPcs, Stopped, Stopper

\* A thread publishes a state, RUNNING only when nothing is requested.
LEMMA PublishStep ==
    ASSUME IInv, NEW t \in Threads, NEW s \in GcStates,
           gcState' = [gcState EXCEPT ![t] = s],
           Stopped' = Stopped,
           s = "RUNNING" => ~gcRequested
    PROVE  [Abstract!Next]_(Abstract!vars)
<1>1. Stopper' = Stopper
  BY DEF Stopper
<1>2. gcState \in [Threads -> GcStates]
  BY DEF IInv, TypeOK
<1>3. CASE s = "RUNNING"
  <2>1. Mutators' = Mutators \cup {t}
    BY <1>2, <1>3 DEF Mutators
  <2>2. Abstract!Enter(t)
    BY <1>1, <1>3, <2>1, NoRequestNoStopper DEF Abstract!Enter
  <2> QED BY <2>2 DEF Abstract!Next
<1>4. CASE s # "RUNNING" /\ gcState[t] = "RUNNING"
  <2>1. t \in Mutators /\ Mutators' = Mutators \ {t}
    BY <1>2, <1>4 DEF Mutators
  <2>2. Abstract!Leave(t)
    BY <1>1, <2>1 DEF Abstract!Leave
  <2> QED BY <2>2 DEF Abstract!Next
<1>5. CASE s # "RUNNING" /\ gcState[t] # "RUNNING"
  <2>1. Mutators' = Mutators
    BY <1>2, <1>5 DEF Mutators
  <2> QED BY <1>1, <2>1 DEF Abstract!vars
<1> QED BY <1>3, <1>4, <1>5

\* A step that moves no collector state and no stopper is a stutter.
LEMMA SilentStep ==
    ASSUME gcState' = gcState, Stopped' = Stopped
    PROVE  UNCHANGED Abstract!vars
BY DEF Abstract!vars, Mutators, Stopper

\* The critical sections that publish a collector state.
LEMMA RefinePublish ==
    ASSUME IInv, NEW t \in Threads,
           \/ SpFirst(t) \/ SpAgain(t) \/ NeBody(t) \/ NlBody(t) \/ HeBody(t)
           \/ MxBody(t) \/ GcRequest(t)
    PROVE  [Abstract!Next]_(Abstract!vars)
<1> USE DEF Goto, Publish, Stopped, StoppedPcs, GcStates
<1>1. pc \in [Threads -> Pcs] /\ gcState \in [Threads -> GcStates]
  BY DEF IInv, TypeOK
<1>2. CASE SpFirst(t)
  <2>1. CASE gcRequested
    BY <1>1, <1>2, <2>1, PublishStep DEF SpFirst
  <2>2. CASE ~gcRequested
    BY <1>1, <1>2, <2>2, SilentStep DEF SpFirst
  <2> QED BY <2>1, <2>2
<1>3. CASE SpAgain(t)
  <2>1. CASE gcRequested
    BY <1>1, <1>3, <2>1, PublishStep DEF SpAgain
  <2>2. CASE ~gcRequested
    BY <1>1, <1>3, <2>2, PublishStep DEF SpAgain
  <2> QED BY <2>1, <2>2
<1>4. CASE NeBody(t)
  <2>1. CASE gcRequested
    BY <1>1, <1>4, <2>1, SilentStep DEF NeBody
  <2>2. CASE ~gcRequested
    BY <1>1, <1>4, <2>2, PublishStep DEF NeBody, NativeReturnPc
  <2> QED BY <2>1, <2>2
<1>5. CASE NlBody(t)
  <2>1. CASE gcRequested
    BY <1>1, <1>5, <2>1, PublishStep DEF NlBody
  <2>2. CASE ~gcRequested
    BY <1>1, <1>5, <2>2, PublishStep DEF NlBody
  <2> QED BY <2>1, <2>2
<1>6. CASE HeBody(t)
  <2>1. CASE gcRequested
    BY <1>1, <1>6, <2>1, SilentStep DEF HeBody
  <2>2. CASE ~gcRequested
    BY <1>1, <1>6, <2>2, PublishStep DEF HeBody, HeapReturnPc
  <2> QED BY <2>1, <2>2
<1>7. CASE MxBody(t)
  BY <1>1, <1>7, PublishStep DEF MxBody
<1>8. CASE GcRequest(t)
  BY <1>1, <1>8, PublishStep DEF GcRequest
<1> QED BY <1>2, <1>3, <1>4, <1>5, <1>6, <1>7, <1>8

\* fn_gc_world_stop returns: nobody mutates and nobody else has stopped.
LEMMA RefineScan ==
    ASSUME IInv, NEW t \in Threads, GcScan(t)
    PROVE  [Abstract!Next]_(Abstract!vars)
<1>1. pc \in [Threads -> Pcs] /\ HeapExclusive
  BY Exclusive DEF IInv, TypeOK
<1>2. CASE \E u \in Threads \ {t} : gcState[u] = "RUNNING"
  <2>1. Stopped' = Stopped /\ gcState' = gcState
    BY <1>1, <1>2 DEF GcScan, Goto, Stopped, StoppedPcs
  <2> QED BY <2>1, SilentStep
<1>3. CASE \A u \in Threads \ {t} : gcState[u] # "RUNNING"
  <2>1. Mutators = {} /\ Mutators' = Mutators
    BY <1>3 DEF GcScan, Mutators, IInv, RequestOK, CollectPcs
  <2>2. \A u \in Stopped : u \in Threads /\ InHeap(u) /\ u # t
    BY DEF GcScan, IInv, HoldOK, BypassPcs, CollectPcs, Stopped, StoppedPcs
  <2>3. InHeap(t)
    BY DEF GcScan, IInv, HoldOK, BypassPcs, CollectPcs
  <2>4. Stopped = {}
    BY <1>1, <2>2, <2>3 DEF HeapExclusive
  <2>5. Stopped' = {t}
    BY <1>1, <1>3, <2>4 DEF GcScan, Goto, Stopped, StoppedPcs
  <2>6. Stopper = NoThread /\ Stopper' = t
    BY <2>4, <2>5 DEF Stopper
  <2>7. Abstract!Stop(t)
    BY <2>1, <2>6 DEF Abstract!Stop
  <2> QED BY <2>7 DEF Abstract!Next
<1> QED BY <1>2, <1>3

\* fn_gc_world_resume: the collector is the first to mutate again.
LEMMA RefineResume ==
    ASSUME IInv, NEW t \in Threads, GcResume(t)
    PROVE  [Abstract!Next]_(Abstract!vars)
<1>1. pc \in [Threads -> Pcs] /\ gcState \in [Threads -> GcStates]
  BY DEF IInv, TypeOK
<1>2. t \in Stopped
  BY DEF GcResume, Stopped, StoppedPcs
<1>3. Stopped = {t} /\ Stopper = t
  BY <1>2, StopperIs
<1>4. Stopped' = {}
  BY <1>1, <1>3 DEF GcResume, Publish, Goto, Stopped, StoppedPcs
<1>5. Mutators' = {t}
  BY <1>1, <1>2 DEF GcResume, Publish, Mutators, IInv, RequestOK, Stopped
<1>6. Abstract!Resume(t)
  BY <1>3, <1>4, <1>5 DEF Abstract!Resume, Stopper
<1> QED BY <1>6 DEF Abstract!Next

\* Every other instruction is invisible.
LEMMA RefineSilent ==
    ASSUME IInv, NEW t \in Threads, Step(t),
           ~(SpFirst(t) \/ SpAgain(t) \/ NeBody(t) \/ NlBody(t) \/ HeBody(t)
             \/ MxBody(t) \/ GcRequest(t) \/ GcScan(t) \/ GcResume(t))
    PROVE  UNCHANGED Abstract!vars
<1> SUFFICES gcState' = gcState /\ Stopped' = Stopped
  BY SilentStep
<1> USE DEF IInv, TypeOK, Goto, Stopped, StoppedPcs
<1>1. CASE Poll(t)
  BY <1>1 DEF Poll
<1>2. CASE SpCheck(t)
  BY <1>2 DEF SpCheck, ReturnFromSafepoint, Sites
<1>3. CASE SpWait(t)
  BY <1>3 DEF SpWait
<1>4. CASE SpVerify(t)
  BY <1>4 DEF SpVerify, ReturnFromSafepoint, Sites
<1>5. CASE NlWait(t)
  BY <1>5 DEF NlWait
<1>6. CASE BeginNative(t)
  BY <1>6 DEF BeginNative
<1>7. CASE EndNative(t)
  BY <1>7 DEF EndNative
<1>8. CASE BeginAlloc(t)
  BY <1>8 DEF BeginAlloc, BeginHeap
<1>9. CASE BeginCollect(t)
  BY <1>9 DEF BeginCollect, BeginHeap
<1>10. CASE CollectInAlloc(t)
  BY <1>10 DEF CollectInAlloc, BeginHeap
<1>11. CASE BeginRetire(t)
  BY <1>11 DEF BeginRetire, BeginHeap
<1>12. CASE HeCount(t)
  BY <1>12 DEF HeCount, HeapReturnPc
<1>13. CASE HeAcquire(t)
  BY <1>13 DEF HeAcquire
<1>14. CASE HeapEnd(t)
  BY <1>14 DEF HeapEnd
<1>15. CASE HeapLeave(t)
  BY <1>15 DEF HeapLeave, LeaveSection, AfterHeap
<1>16. CASE GcDone(t)
  BY <1>16 DEF GcDone
<1>17. CASE BeginSync(t)
  BY <1>17 DEF BeginSync
<1>18. CASE SyAcquire(t)
  BY <1>18 DEF SyAcquire
<1>19. CASE SyncLeave(t)
  BY <1>19 DEF SyncLeave
<1>20. CASE StartClaim(t)
  BY <1>20 DEF StartClaim
<1>21. CASE StartCount(t)
  BY <1>21 DEF StartCount, ChildOK, StartPcs
<1>22. CASE StartCreate(t)
  BY <1>22 DEF StartCreate, ChildOK, StartPcs
<1>23. CASE StartUndo(t)
  BY <1>23 DEF StartUndo, ChildOK, StartPcs
<1>24. CASE Entry(t)
  BY <1>24 DEF Entry
<1>25. CASE MxDec(t)
  BY <1>25 DEF MxDec
<1>26. CASE AcquireCoord(t)
  BY <1>26 DEF AcquireCoord, Acquire
<1> QED BY <1>1, <1>2, <1>3, <1>4, <1>5, <1>6, <1>7, <1>8,
       <1>9, <1>10, <1>11, <1>12, <1>13, <1>14, <1>15, <1>16,
       <1>17, <1>18, <1>19, <1>20, <1>21, <1>22, <1>23, <1>24,
       <1>25, <1>26
    DEF Step, Choice, Runtime

\* Every behaviour of the handshake is a behaviour of StopTheWorld.
THEOREM Refinement == Spec => ImplementsStopTheWorld
<1>1. Init => Abstract!Init
  <2> SUFFICES ASSUME Init PROVE Abstract!Init
    OBVIOUS
  <2>1. Mutators = {Main}
    BY ThreadsAssumption DEF Init, Mutators
  <2>2. Stopped = {}
    BY DEF Init, Stopped, StoppedPcs
  <2> QED BY <2>1, <2>2 DEF Abstract!Init, Stopper
<1>2. IInv /\ [Next]_vars => [Abstract!Next]_(Abstract!vars)
  <2>1. ASSUME IInv, UNCHANGED vars PROVE UNCHANGED Abstract!vars
    BY <2>1 DEF vars, Abstract!vars, Mutators, Stopper, Stopped
  <2> QED BY <2>1, RefinePublish, RefineScan, RefineResume, RefineSilent DEF Next
<1> QED BY <1>1, <1>2, Invariance, PTL DEF Spec, ImplementsStopTheWorld, Abstract!Spec

=============================================================================
