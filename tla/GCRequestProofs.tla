--------------------------- MODULE GCRequestProofs ---------------------------
(***************************************************************************)
(* Proofs about GCRequest, for every set of threads.                       *)
(***************************************************************************)
EXTENDS GCRequest, TLAPS

\* A cycle that hides its snapshot's blocks is past its first pause.
Active == phase \in {"marking", "sweeping"}

\* What is known of the history while a thread is in fn_gc_collect: a thread due a
\* completion has a cycle coming; a thread past its first wait, and one that found
\* the collector idle, meet no cycle but those begun since the call.
FreshOK ==
    \A t \in Threads :
        /\ pc[t] \in {"relock", "returned"} => fresh[t] = "ended"
        /\ pc[t] = "wait" /\ ~due[t] /\ ~busy[t] => fresh[t] = "ended"
        /\ pc[t] = "wait" /\ due[t] => phase # "idle"
        /\ pc[t] = "again" /\ Active => fresh[t] # "none"
        /\ pc[t] = "wait" /\ ~(busy[t] /\ due[t]) /\ Active => fresh[t] # "none"

\* A retrying allocator has kept the monitor since it saw the collector idle.
RetryOK ==
    \A t \in Threads : pc[t] = "returned" /\ emergency[t] => heap = t /\ phase = "idle"

\* Only an allocator has the monitor to release and to take back.
HeldOK ==
    \A t \in Threads :
        /\ pc[t] = "release" => emergency[t] /\ heap = t
        /\ pc[t] = "relock" => emergency[t]

IInv == TypeOK /\ RequestReachesWorker /\ FreshOK /\ RetryOK /\ HeldOK

-----------------------------------------------------------------------------
\* The collector is idle, no thread has called it.
LEMMA InitIInv == Init => IInv
  BY NoneAssumption DEF Init, IInv, TypeOK, RequestReachesWorker, FreshOK, RetryOK,
                        HeldOK, Active

\* Whoever publishes a request leaves a cycle coming, and never an active one where
\* there was none.
LEMMA PublishFacts ==
  ASSUME TypeOK, RequestReachesWorker, Publish
  PROVE  /\ phase' \in {"idle", "requested", "marking", "sweeping"}
         /\ go' \in BOOLEAN /\ worker' = worker
         /\ RequestReachesWorker'
         /\ phase' # "idle"
         /\ phase # "idle" => phase' = phase
         /\ phase = "idle" => phase' = "requested"
PROOF
  <1>1. CASE phase = "idle" /\ phase' = "requested" /\ go' = TRUE
    BY <1>1 DEF TypeOK, RequestReachesWorker, Publish
  <1>2. CASE phase # "idle" /\ UNCHANGED <<phase, go>>
    BY <1>2 DEF TypeOK, RequestReachesWorker, Publish
  <1> QED
    BY <1>1, <1>2 DEF Publish

\* A step of a thread in fn_gc_collect keeps the invariant.
LEMMA CollectStep ==
  ASSUME IInv, NEW t \in Threads, Collect(t)
  PROVE  IInv'
PROOF
  <1> USE NoneAssumption
  <1>1. CASE Call(t)
    BY <1>1 DEF IInv, TypeOK, RequestReachesWorker, FreshOK, RetryOK, HeldOK, Active,
                Call, Goto, collector
  <1>2. CASE CallFromAlloc(t)
    BY <1>2 DEF IInv, TypeOK, RequestReachesWorker, FreshOK, RetryOK, HeldOK, Active,
                CallFromAlloc, Goto, collector, Free
  <1>3. CASE Release(t)
    BY <1>3 DEF IInv, TypeOK, RequestReachesWorker, FreshOK, RetryOK, HeldOK, Active,
                Release, Goto, collector
  <1>4. CASE Request(t)
    <2>1. /\ phase' \in {"idle", "requested", "marking", "sweeping"}
          /\ go' \in BOOLEAN /\ worker' = worker /\ RequestReachesWorker'
          /\ phase' # "idle"
          /\ phase # "idle" => phase' = phase
          /\ phase = "idle" => phase' = "requested"
      BY <1>4, PublishFacts DEF IInv, Request
    <2> QED
      BY <1>4, <2>1 DEF IInv, TypeOK, FreshOK, RetryOK, HeldOK, Active, Request, Goto, Free
  <1>5. CASE WaitEnds(t)
    BY <1>5 DEF IInv, TypeOK, RequestReachesWorker, FreshOK, RetryOK, HeldOK, Active,
                WaitEnds, Goto, collector
  <1>6. CASE Again(t)
    <2>1. /\ phase' \in {"idle", "requested", "marking", "sweeping"}
          /\ go' \in BOOLEAN /\ worker' = worker /\ RequestReachesWorker'
          /\ phase' # "idle"
          /\ phase # "idle" => phase' = phase
          /\ phase = "idle" => phase' = "requested"
      BY <1>6, PublishFacts DEF IInv, Again
    <2> QED
      BY <1>6, <2>1 DEF IInv, TypeOK, FreshOK, RetryOK, HeldOK, Active, Again, Goto, Free
  <1>7. CASE Relock(t)
    <2>1. CASE phase = "idle"
      <3>1. heap = None /\ heap' = t /\ Goto(t, "returned")
        BY <1>7, <2>1 DEF Relock, Free
      <3>2. TypeOK' /\ RequestReachesWorker'
        BY <1>7, <2>1, <3>1 DEF IInv, TypeOK, RequestReachesWorker, Relock, Goto, collector,
                                RetryOK, HeldOK
      <3>3. FreshOK'
        BY <1>7, <3>1 DEF IInv, TypeOK, FreshOK, Active, Relock, Goto, collector
      <3>4. RetryOK' /\ HeldOK'
        BY <1>7, <2>1, <3>1 DEF IInv, TypeOK, RetryOK, HeldOK, Relock, Goto, collector
      <3> QED
        BY <3>2, <3>3, <3>4 DEF IInv
    <2>2. CASE phase # "idle"
      BY <1>7, <2>2 DEF IInv, TypeOK, RequestReachesWorker, FreshOK, RetryOK, HeldOK, Active,
                  Relock, Goto, collector, Free
    <2> QED
      BY <2>1, <2>2
  <1>8. CASE Return(t)
    BY <1>8 DEF IInv, TypeOK, RequestReachesWorker, FreshOK, RetryOK, HeldOK, Active,
                Return, Goto, collector
  <1> QED
    BY <1>1, <1>2, <1>3, <1>4, <1>5, <1>6, <1>7, <1>8 DEF Collect

\* A step of the collector's thread keeps the invariant.
LEMMA WorkerStep ==
  ASSUME IInv, Worker
  PROVE  IInv'
PROOF
  <1> USE NoneAssumption
  <1>1. CASE Wake
    BY <1>1 DEF IInv, TypeOK, RequestReachesWorker, FreshOK, RetryOK, HeldOK, Active,
                Wake, caller
  <1>2. CASE BeginCycle
    <2>1. TypeOK' /\ RequestReachesWorker'
      BY <1>2 DEF IInv, TypeOK, RequestReachesWorker, BeginCycle, caller
    <2>2. FreshOK'
      BY <1>2 DEF IInv, TypeOK, FreshOK, Active, BeginCycle, caller
    <2>3. RetryOK' /\ HeldOK'
      BY <1>2 DEF IInv, TypeOK, RetryOK, HeldOK, BeginCycle, caller, Free
    <2> QED
      BY <2>1, <2>2, <2>3 DEF IInv
  <1>3. CASE EndMarking
    BY <1>3 DEF IInv, TypeOK, RequestReachesWorker, FreshOK, RetryOK, HeldOK, Active,
                EndMarking, caller, Free
  <1>4. CASE EndCycle
    BY <1>4 DEF IInv, TypeOK, RequestReachesWorker, FreshOK, RetryOK, HeldOK, Active,
                EndCycle, Free
  <1> QED
    BY <1>1, <1>2, <1>3, <1>4 DEF Worker

\* Every step keeps the invariant.
LEMMA Step == IInv /\ [Next]_vars => IInv'
PROOF
  <1> SUFFICES ASSUME IInv, [Next]_vars PROVE IInv'
    OBVIOUS
  <1>1. CASE AutoRequest
    <2>1. /\ phase' \in {"idle", "requested", "marking", "sweeping"}
          /\ go' \in BOOLEAN /\ worker' = worker /\ RequestReachesWorker'
          /\ phase' # "idle"
          /\ phase # "idle" => phase' = phase
          /\ phase = "idle" => phase' = "requested"
      BY <1>1, PublishFacts DEF IInv, AutoRequest
    <2> QED
      BY <1>1, <2>1, NoneAssumption DEF IInv, TypeOK, FreshOK, RetryOK, HeldOK, Active,
                        AutoRequest, caller, Free
  <1>2. CASE Worker
    BY <1>2, WorkerStep
  <1>3. ASSUME NEW t \in Threads, Collect(t) PROVE IInv'
    BY <1>3, CollectStep
  <1>4. CASE UNCHANGED vars
    BY <1>4 DEF vars, caller, collector, IInv, TypeOK, RequestReachesWorker, FreshOK,
                RetryOK, HeldOK, Active
  <1> QED
    BY <1>1, <1>2, <1>3, <1>4 DEF Next

\* The inductive invariant holds in every state of every behaviour.
THEOREM Invariance == Spec => []IInv
  BY InitIInv, Step, PTL DEF Spec

-----------------------------------------------------------------------------
\* The variables have their types, and only a thread that collects on behalf of the
\* allocator holds the heap monitor, never while it waits.
THEOREM TypeCorrect == Spec => []TypeOK
PROOF
  <1>1. IInv => TypeOK
    BY DEF IInv
  <1> QED
    BY <1>1, Invariance, PTL

\* When gc_collect returns, a whole cycle has run since it was called.
THEOREM CollectionIsFresh == Spec => []CollectIsFresh
PROOF
  <1>1. IInv => CollectIsFresh
    BY DEF IInv, FreshOK, CollectIsFresh
  <1> QED
    BY <1>1, Invariance, PTL

\* An allocator retries with the monitor and with no cycle under way.
THEOREM RetryIsSound == Spec => []RetrySeesFreeBlocks
PROOF
  <1>1. IInv => RetrySeesFreeBlocks
    BY DEF IInv, RetryOK, RetrySeesFreeBlocks
  <1> QED
    BY <1>1, Invariance, PTL

\* Every request published is served by one cycle.
THEOREM RequestsAreServedOnce == Spec => []RequestReachesWorker
PROOF
  <1>1. IInv => RequestReachesWorker
    BY DEF IInv
  <1> QED
    BY <1>1, Invariance, PTL

=============================================================================
