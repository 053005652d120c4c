------------------------------ MODULE Safepoint ------------------------------
(***************************************************************************)
(* The cooperative stop-the-world protocol the compiler emits into every   *)
(* threaded MiniLang executable (src/mlc/codegen/codegen_threads.ml):      *)
(* fn_gc_safepoint, fn_gc_native_enter/leave, fn_heap_enter/leave,         *)
(* fn_gc_world_stop/resume, fn_sync_enter/leave, and the managed thread    *)
(* count that lets a single-threaded process bypass the heap monitor.      *)
(*                                                                         *)
(* One step is one shared access or one critical section of                *)
(* gc_coord_monitor (its acquisition is a step of its own).  pc[t] says    *)
(* which instruction a thread is at, op[t] which runtime operation its     *)
(* managed code is inside, and site[t] the return address of the           *)
(* safepoint call it is making.                                            *)
(***************************************************************************)
EXTENDS Integers, FiniteSets

CONSTANTS
    Threads,      \* the thread contexts on thread_contexts_head
    Main,         \* the static context of the process' first thread
    NoThread,     \* "no owner"
    MaxSync,      \* bound: recursion of the language's synchronized monitor
    MaxCollect    \* bound: collections one allocation may run (the code: 3)

ASSUME ThreadsAssumption ==
    /\ IsFiniteSet(Threads)
    /\ Main \in Threads
    /\ NoThread \notin Threads

ASSUME BoundsAssumption == MaxSync \in Nat /\ MaxCollect \in Nat

VARIABLES
    managedCount, \* managed_thread_count
    gcRequested,  \* gc_requested # 0
    gcState,      \* THREAD_GC_STATE of each context
    coord,        \* owner of gc_coord_monitor
    heapOwner,    \* owner of heap_monitor (a recursive critical section)
    heapDepth,    \* its recursion count
    bypass,       \* THREAD_HEAP_BYPASS_DEPTH of each context
    syncOwner,    \* owner of sync_monitor (a recursive critical section)
    syncDepth,    \* its recursion count
    pc, op, site,
    collected,    \* collections run by the allocation in progress
    child         \* the context a thread is starting

vars == <<managedCount, gcRequested, gcState, coord, heapOwner, heapDepth,
          bypass, syncOwner, syncDepth, pc, op, site, collected, child>>

GcStates == {"RUNNING", "PARKED", "NATIVE", "INACTIVE", "COLLECTOR"}

\* Instructions inside a critical section of gc_coord_monitor.
CoordPcs == {"sp_first", "sp_again", "ne_body", "nl_body", "he_body",
             "gc_request", "gc_scan", "gc_resume", "mx_body"}

Pcs == CoordPcs \cup
       {"idle", "claimed", "counted", "entry", "run", "native", "done",
        "sp_check", "sp_lock", "sp_wait", "sp_relock", "sp_verify",
        "ne_lock", "nl_lock", "nl_wait",
        "he_count", "he_acquire", "he_lock", "he_yield", "heap", "hl",
        "gc_lock", "gc_scanlock", "gc", "gc_relock",
        "sy_acquire", "st_count", "st_create", "st_undo",
        "mx_lock", "mx_dec"}

Ops == {"none", "native", "sync", "alloc", "collect", "retire"}

\* fn_gc_safepoint is called by a poll in managed code, on the way into a
\* native section, and by fn_heap_enter when it lost the race for the heap.
Sites == {"run", "ne_lock", "sp_check"}

Init ==
    /\ managedCount = 1
    /\ gcRequested = FALSE
    /\ gcState = [t \in Threads |-> IF t = Main THEN "RUNNING" ELSE "INACTIVE"]
    /\ coord = NoThread
    /\ heapOwner = NoThread
    /\ heapDepth = 0
    /\ bypass = [t \in Threads |-> 0]
    /\ syncOwner = NoThread
    /\ syncDepth = 0
    /\ pc = [t \in Threads |-> IF t = Main THEN "run" ELSE "idle"]
    /\ op = [t \in Threads |-> "none"]
    /\ site = [t \in Threads |-> "run"]
    /\ collected = [t \in Threads |-> 0]
    /\ child = [t \in Threads |-> NoThread]

-----------------------------------------------------------------------------
Goto(t, l) == pc' = [pc EXCEPT ![t] = l]

\* EnterCriticalSection(gc_coord_monitor) at instruction "from".
Acquire(t, from, to) ==
    /\ pc[t] = from
    /\ coord = NoThread
    /\ coord' = t
    /\ Goto(t, to)
    /\ UNCHANGED <<managedCount, gcRequested, gcState, heapOwner, heapDepth,
                   bypass, syncOwner, syncDepth, op, site, collected, child>>

\* Publish a collector state and LeaveCriticalSection(gc_coord_monitor).
Publish(t, s, l) ==
    /\ gcState' = [gcState EXCEPT ![t] = s]
    /\ coord' = NoThread
    /\ Goto(t, l)

heapVars == <<heapOwner, heapDepth, bypass>>
syncVars == <<syncOwner, syncDepth>>

-----------------------------------------------------------------------------
(* fn_gc_safepoint *)

\* The poll emitted in loops and calls: one unlocked read of gc_requested.
Poll(t) ==
    /\ pc[t] = "run"
    /\ gcRequested
    /\ Goto(t, "sp_check")
    /\ UNCHANGED <<managedCount, gcRequested, gcState, coord, heapVars,
                   syncVars, op, site, collected, child>>

\* Return to the call site.  fn_heap_enter's retry loop calls again at once.
ReturnFromSafepoint(t) ==
    /\ pc' = [pc EXCEPT ![t] = site[t]]
    /\ site' = [site EXCEPT ![t] = IF site[t] = "sp_check" THEN "ne_lock" ELSE "run"]

\* The unlocked read at the function's head.
SpCheck(t) ==
    /\ pc[t] = "sp_check"
    /\ \/ gcRequested /\ Goto(t, "sp_lock") /\ UNCHANGED site
       \/ ~gcRequested /\ ReturnFromSafepoint(t)
    /\ UNCHANGED <<managedCount, gcRequested, gcState, coord, heapVars,
                   syncVars, op, collected, child>>

SpFirst(t) ==
    /\ pc[t] = "sp_first"
    /\ \/ gcRequested /\ Publish(t, "PARKED", "sp_wait")
       \/ ~gcRequested /\ Publish(t, gcState[t], "sp_verify")
    /\ UNCHANGED <<managedCount, gcRequested, heapVars, syncVars, op, site,
                   collected, child>>

\* l_wait: Sleep(0) until the request is gone.
SpWait(t) ==
    /\ pc[t] = "sp_wait"
    /\ ~gcRequested
    /\ Goto(t, "sp_relock")
    /\ UNCHANGED <<managedCount, gcRequested, gcState, coord, heapVars,
                   syncVars, op, site, collected, child>>

\* Mutants of l_recheck: the request is not read again under the monitor; the
\* state is not restored.
SpAgainUnchecked(t) ==
    /\ pc[t] = "sp_again"
    /\ Publish(t, "RUNNING", "sp_verify")
    /\ UNCHANGED <<managedCount, gcRequested, heapVars, syncVars, op, site,
                   collected, child>>

SpAgainStaysParked(t) ==
    /\ pc[t] = "sp_again"
    /\ Publish(t, "PARKED", IF gcRequested THEN "sp_wait" ELSE "sp_verify")
    /\ UNCHANGED <<managedCount, gcRequested, heapVars, syncVars, op, site,
                   collected, child>>

\* l_recheck: a back-to-back collection must find this thread parked.
SpAgain(t) ==
    /\ pc[t] = "sp_again"
    /\ \/ gcRequested /\ Publish(t, "PARKED", "sp_wait")
       \/ ~gcRequested /\ Publish(t, "RUNNING", "sp_verify")
    /\ UNCHANGED <<managedCount, gcRequested, heapVars, syncVars, op, site,
                   collected, child>>

\* Mutant of l_resume: spin for the request to clear while still RUNNING.
SpVerifySpins(t) ==
    /\ pc[t] = "sp_verify"
    /\ \/ gcRequested /\ Goto(t, "sp_wait") /\ UNCHANGED site
       \/ ~gcRequested /\ ReturnFromSafepoint(t)
    /\ UNCHANGED <<managedCount, gcRequested, gcState, coord, heapVars,
                   syncVars, op, collected, child>>

\* l_resume: the last unlocked read; a new request goes back to the monitor.
SpVerify(t) ==
    /\ pc[t] = "sp_verify"
    /\ \/ gcRequested /\ Goto(t, "sp_relock") /\ UNCHANGED site
       \/ ~gcRequested /\ ReturnFromSafepoint(t)
    /\ UNCHANGED <<managedCount, gcRequested, gcState, coord, heapVars,
                   syncVars, op, collected, child>>

-----------------------------------------------------------------------------
(* fn_gc_native_enter, fn_gc_native_leave *)

NativeReturnPc(o) == CASE o = "native" -> "native"
                       [] o = "sync"   -> "sy_acquire"
                       [] OTHER        -> "he_acquire"

NeBody(t) ==
    /\ pc[t] = "ne_body"
    /\ \/ /\ gcRequested
          /\ coord' = NoThread
          /\ Goto(t, "sp_check")
          /\ site' = [site EXCEPT ![t] = "ne_lock"]
          /\ UNCHANGED gcState
       \/ /\ ~gcRequested
          /\ Publish(t, "NATIVE", NativeReturnPc(op[t]))
          /\ UNCHANGED site
    /\ UNCHANGED <<managedCount, gcRequested, heapVars, syncVars, op,
                   collected, child>>

\* Mutant: a thread back from native code does not look at the request.
NlBodyUnchecked(t) ==
    /\ pc[t] = "nl_body"
    /\ Publish(t, "RUNNING", "run")
    /\ op' = [op EXCEPT ![t] = "none"]
    /\ UNCHANGED <<managedCount, gcRequested, heapVars, syncVars, site,
                   collected, child>>

NlBody(t) ==
    /\ pc[t] = "nl_body"
    /\ \/ /\ gcRequested
          /\ Publish(t, "PARKED", "nl_wait")
          /\ UNCHANGED op
       \/ /\ ~gcRequested
          /\ Publish(t, "RUNNING", "run")
          /\ op' = [op EXCEPT ![t] = "none"]
    /\ UNCHANGED <<managedCount, gcRequested, heapVars, syncVars, site,
                   collected, child>>

NlWait(t) ==
    /\ pc[t] = "nl_wait"
    /\ ~gcRequested
    /\ Goto(t, "nl_lock")
    /\ UNCHANGED <<managedCount, gcRequested, gcState, coord, heapVars,
                   syncVars, op, site, collected, child>>

\* Managed code calls a blocking extern, Sleep, Join, ...
BeginNative(t) ==
    /\ pc[t] = "run"
    /\ Goto(t, "ne_lock")
    /\ op' = [op EXCEPT ![t] = "native"]
    /\ UNCHANGED <<managedCount, gcRequested, gcState, coord, heapVars,
                   syncVars, site, collected, child>>

\* The blocking call returns, at any time or never.
EndNative(t) ==
    /\ pc[t] = "native"
    /\ Goto(t, "nl_lock")
    /\ UNCHANGED <<managedCount, gcRequested, gcState, coord, heapVars,
                   syncVars, op, site, collected, child>>

-----------------------------------------------------------------------------
(* fn_heap_enter, fn_heap_leave *)

InHeap(t) == bypass[t] > 0 \/ heapOwner = t

\* Where fn_heap_enter returns: an allocation, the retirement of a TLAB, or
\* fn_gc_collect (entered from managed code or from inside an allocation).
HeapReturnPc(o) == IF o = "collect" THEN "gc_lock" ELSE "heap"

BeginHeap(t, o) ==
    /\ Goto(t, "he_count")
    /\ op' = [op EXCEPT ![t] = o]
    /\ UNCHANGED <<managedCount, gcRequested, gcState, coord, heapVars,
                   syncVars, site, child>>

BeginAlloc(t) == pc[t] = "run" /\ BeginHeap(t, "alloc") /\ UNCHANGED collected

BeginCollect(t) == pc[t] = "run" /\ BeginHeap(t, "collect") /\ UNCHANGED collected

\* The allocation's limits, or the reserve, are exhausted.
CollectInAlloc(t) ==
    /\ pc[t] = "heap"
    /\ op[t] = "alloc"
    /\ collected[t] < MaxCollect
    /\ collected' = [collected EXCEPT ![t] = @ + 1]
    /\ BeginHeap(t, "collect")

\* A worker's entry function returned: retire its TLAB before leaving.  The
\* code blocks of synchronized sections are nested, so none is held here.
BeginRetire(t) ==
    /\ pc[t] = "run"
    /\ t # Main
    /\ syncOwner # t
    /\ BeginHeap(t, "retire")
    /\ UNCHANGED collected

\* Mutant: the bypass still applies when a first worker is starting.
HeCountOffByOne(t) ==
    /\ pc[t] = "he_count"
    /\ \/ /\ managedCount <= 2
          /\ bypass' = [bypass EXCEPT ![t] = @ + 1]
          /\ Goto(t, HeapReturnPc(op[t]))
          /\ UNCHANGED site
       \/ /\ managedCount > 2
          /\ Goto(t, "sp_check")
          /\ site' = [site EXCEPT ![t] = "ne_lock"]
          /\ UNCHANGED bypass
    /\ UNCHANGED <<managedCount, gcRequested, gcState, coord, heapOwner,
                   heapDepth, syncVars, op, collected, child>>

\* A process with one managed thread takes no lock.
HeCount(t) ==
    /\ pc[t] = "he_count"
    /\ \/ /\ managedCount <= 1
          /\ bypass' = [bypass EXCEPT ![t] = @ + 1]
          /\ Goto(t, HeapReturnPc(op[t]))
          /\ UNCHANGED site
       \/ /\ managedCount > 1
          /\ Goto(t, "sp_check")
          /\ site' = [site EXCEPT ![t] = "ne_lock"]
          /\ UNCHANGED bypass
    /\ UNCHANGED <<managedCount, gcRequested, gcState, coord, heapOwner,
                   heapDepth, syncVars, op, collected, child>>

HeAcquire(t) ==
    /\ pc[t] = "he_acquire"
    /\ heapOwner \in {NoThread, t}
    /\ heapOwner' = t
    /\ heapDepth' = heapDepth + 1
    /\ Goto(t, "he_lock")
    /\ UNCHANGED <<managedCount, gcRequested, gcState, coord, bypass,
                   syncVars, op, site, collected, child>>

\* Rejoin managed execution with the heap held, or give it back and park.
HeBody(t) ==
    /\ pc[t] = "he_body"
    /\ IF gcRequested THEN Publish(t, gcState[t], "he_yield")
                      ELSE Publish(t, "RUNNING", HeapReturnPc(op[t]))
    /\ UNCHANGED <<managedCount, gcRequested, heapVars, syncVars, op, site,
                   collected, child>>

ReleaseHeap ==
    /\ heapDepth' = heapDepth - 1
    /\ heapOwner' = IF heapDepth = 1 THEN NoThread ELSE heapOwner

\* The end of an allocation, a retirement or a collection.
HeapEnd(t) ==
    /\ pc[t] = "heap"
    /\ Goto(t, "hl")
    /\ UNCHANGED <<managedCount, gcRequested, gcState, coord, heapVars,
                   syncVars, op, site, collected, child>>

\* What runs once the innermost heap section of t is over.
AfterHeap(t, nested) ==
    IF nested THEN "heap" ELSE IF op[t] = "retire" THEN "mx_lock" ELSE "run"

LeaveSection(t, nested) ==
    /\ Goto(t, AfterHeap(t, nested))
    /\ op' = [op EXCEPT ![t] = IF nested THEN "alloc" ELSE "none"]
    /\ collected' = [collected EXCEPT ![t] = IF nested THEN @ ELSE 0]

\* fn_heap_leave: a bypassed entry is left before a locked one.  The same
\* LeaveCriticalSection serves the retry path of fn_heap_enter.
HeapLeave(t) ==
    /\ \/ /\ pc[t] = "hl"
          /\ bypass[t] > 0
          /\ bypass' = [bypass EXCEPT ![t] = @ - 1]
          /\ LeaveSection(t, bypass[t] > 1 \/ heapOwner = t)
          /\ UNCHANGED <<heapOwner, heapDepth, site>>
       \/ /\ pc[t] \in {"hl", "he_yield"}
          /\ bypass[t] = 0
          /\ ReleaseHeap
          /\ IF pc[t] = "hl"
             THEN LeaveSection(t, heapDepth > 1) /\ UNCHANGED site
             ELSE /\ Goto(t, "sp_check")
                  /\ site' = [site EXCEPT ![t] = "sp_check"]
                  /\ UNCHANGED <<op, collected>>
          /\ UNCHANGED bypass
    /\ UNCHANGED <<managedCount, gcRequested, gcState, coord, syncVars, child>>

-----------------------------------------------------------------------------
(* fn_gc_world_stop, fn_gc_world_resume, as fn_gc_collect calls them *)

GcRequest(t) ==
    /\ pc[t] = "gc_request"
    /\ gcRequested' = TRUE
    /\ Publish(t, "COLLECTOR", "gc_scanlock")
    /\ UNCHANGED <<managedCount, heapVars, syncVars, op, site, collected, child>>

\* One walk over thread_contexts_head, inside the monitor.
GcScan(t) ==
    /\ pc[t] = "gc_scan"
    /\ coord' = NoThread
    /\ \/ /\ \E u \in Threads \ {t} : gcState[u] = "RUNNING"
          /\ Goto(t, "gc_scanlock")
       \/ /\ \A u \in Threads \ {t} : gcState[u] # "RUNNING"
          /\ Goto(t, "gc")
    /\ UNCHANGED <<managedCount, gcRequested, gcState, heapVars, syncVars, op,
                   site, collected, child>>

\* Mark and sweep run here, then fn_gc_world_resume is called.
GcDone(t) ==
    /\ pc[t] = "gc"
    /\ Goto(t, "gc_relock")
    /\ UNCHANGED <<managedCount, gcRequested, gcState, coord, heapVars,
                   syncVars, op, site, collected, child>>

GcResume(t) ==
    /\ pc[t] = "gc_resume"
    /\ gcRequested' = FALSE
    /\ Publish(t, "RUNNING", "hl")
    /\ UNCHANGED <<managedCount, heapVars, syncVars, op, site, collected, child>>

-----------------------------------------------------------------------------
(* fn_sync_enter, fn_sync_leave *)

BeginSync(t) ==
    /\ pc[t] = "run"
    /\ syncOwner = t => syncDepth < MaxSync
    /\ Goto(t, "ne_lock")
    /\ op' = [op EXCEPT ![t] = "sync"]
    /\ UNCHANGED <<managedCount, gcRequested, gcState, coord, heapVars,
                   syncVars, site, collected, child>>

\* EnterCriticalSection(sync_monitor), then fn_gc_native_leave.
SyAcquire(t) ==
    /\ pc[t] = "sy_acquire"
    /\ syncOwner \in {NoThread, t}
    /\ syncOwner' = t
    /\ syncDepth' = syncDepth + 1
    /\ Goto(t, "nl_lock")
    /\ UNCHANGED <<managedCount, gcRequested, gcState, coord, heapVars, op,
                   site, collected, child>>

SyncLeave(t) ==
    /\ pc[t] = "run"
    /\ syncOwner = t
    /\ syncDepth' = syncDepth - 1
    /\ syncOwner' = IF syncDepth = 1 THEN NoThread ELSE t
    /\ UNCHANGED <<managedCount, gcRequested, gcState, coord, heapVars, pc, op,
                   site, collected, child>>

-----------------------------------------------------------------------------
(* The managed thread count: fn_thread_start and fn_thread_entry.  The      *)
(* lifecycle of the Thread object itself is module ThreadLifecycle.         *)

\* The claim CREATED -> STARTING of fn_thread_start.
StartClaim(t) ==
    /\ pc[t] = "run"
    /\ \E w \in Threads \ {Main, t} :
          /\ pc[w] = "idle"
          /\ pc' = [pc EXCEPT ![t] = "st_count", ![w] = "claimed"]
          /\ child' = [child EXCEPT ![t] = w]
    /\ UNCHANGED <<managedCount, gcRequested, gcState, coord, heapVars,
                   syncVars, op, site, collected>>

StartCount(t) ==
    /\ pc[t] = "st_count"
    /\ managedCount' = managedCount + 1
    /\ pc' = [pc EXCEPT ![t] = "st_create", ![child[t]] = "counted"]
    /\ UNCHANGED <<gcRequested, gcState, coord, heapVars, syncVars, op, site,
                   collected, child>>

\* CreateThread succeeds, or fails and leaves the Thread FAILED.
StartCreate(t) ==
    /\ pc[t] = "st_create"
    /\ \/ /\ pc' = [pc EXCEPT ![t] = "run", ![child[t]] = "entry"]
          /\ child' = [child EXCEPT ![t] = NoThread]
       \/ /\ Goto(t, "st_undo")
          /\ UNCHANGED child
    /\ UNCHANGED <<managedCount, gcRequested, gcState, coord, heapVars,
                   syncVars, op, site, collected>>

StartUndo(t) ==
    /\ pc[t] = "st_undo"
    /\ managedCount' = managedCount - 1
    /\ pc' = [pc EXCEPT ![t] = "run", ![child[t]] = "done"]
    /\ child' = [child EXCEPT ![t] = NoThread]
    /\ UNCHANGED <<gcRequested, gcState, coord, heapVars, syncVars, op, site,
                   collected>>

\* The native thread runs fn_thread_entry and calls fn_gc_native_leave.
Entry(t) ==
    /\ pc[t] = "entry"
    /\ Goto(t, "nl_lock")
    /\ UNCHANGED <<managedCount, gcRequested, gcState, coord, heapVars,
                   syncVars, op, site, collected, child>>

\* fn_gc_managed_exit
MxBody(t) ==
    /\ pc[t] = "mx_body"
    /\ Publish(t, "INACTIVE", "mx_dec")
    /\ UNCHANGED <<managedCount, gcRequested, heapVars, syncVars, op, site,
                   collected, child>>

MxDec(t) ==
    /\ pc[t] = "mx_dec"
    /\ managedCount' = managedCount - 1
    /\ Goto(t, "done")
    /\ UNCHANGED <<gcRequested, gcState, coord, heapVars, syncVars, op, site,
                   collected, child>>

-----------------------------------------------------------------------------
AcquireCoord(t) ==
    \/ Acquire(t, "sp_lock", "sp_first")
    \/ Acquire(t, "sp_relock", "sp_again")
    \/ Acquire(t, "ne_lock", "ne_body")
    \/ Acquire(t, "nl_lock", "nl_body")
    \/ Acquire(t, "he_lock", "he_body")
    \/ Acquire(t, "gc_lock", "gc_request")
    \/ Acquire(t, "gc_scanlock", "gc_scan")
    \/ Acquire(t, "gc_relock", "gc_resume")
    \/ Acquire(t, "mx_lock", "mx_body")

\* What managed code may choose to do, and a blocking call that may not end.
Choice(t) ==
    \/ BeginNative(t) \/ EndNative(t)
    \/ BeginAlloc(t) \/ BeginCollect(t) \/ CollectInAlloc(t) \/ BeginRetire(t)
    \/ BeginSync(t) \/ SyncLeave(t)
    \/ StartClaim(t)

\* What the runtime does next without anybody's choice.
Runtime(t) ==
    \/ Poll(t) \/ SpCheck(t) \/ SpFirst(t) \/ SpWait(t) \/ SpAgain(t) \/ SpVerify(t)
    \/ NeBody(t) \/ NlBody(t) \/ NlWait(t)
    \/ HeCount(t) \/ HeBody(t) \/ HeapEnd(t) \/ HeapLeave(t)
    \/ GcRequest(t) \/ GcScan(t) \/ GcDone(t) \/ GcResume(t)
    \/ StartCount(t) \/ StartCreate(t) \/ StartUndo(t)
    \/ Entry(t) \/ MxBody(t) \/ MxDec(t)

Step(t) ==
    \/ AcquireCoord(t) \/ HeAcquire(t) \/ SyAcquire(t)
    \/ Choice(t) \/ Runtime(t)

Next == \E t \in Threads : Step(t)

Spec == Init /\ [][Next]_vars

\* The operating system runs every thread that can run (weak fairness of its
\* next runtime instruction) and lets every waiter into a critical section
\* that is released again and again (strong fairness of the acquisitions).
\* Nothing is assumed about what managed code chooses, except that it polls.
Fairness ==
    \A t \in Threads :
        /\ WF_vars(Runtime(t))
        /\ SF_vars(AcquireCoord(t))
        /\ SF_vars(HeAcquire(t))
        /\ SF_vars(SyAcquire(t))

FairSpec == Spec /\ Fairness

-----------------------------------------------------------------------------
\* Types, and the bounds that keep the model finite.
TypeOK ==
    /\ managedCount \in Nat
    /\ gcRequested \in BOOLEAN
    /\ gcState \in [Threads -> GcStates]
    /\ coord \in Threads \cup {NoThread}
    /\ heapOwner \in Threads \cup {NoThread}
    /\ heapDepth \in Nat
    /\ bypass \in [Threads -> Nat]
    /\ syncOwner \in Threads \cup {NoThread}
    /\ syncDepth \in Nat
    /\ pc \in [Threads -> Pcs]
    /\ op \in [Threads -> Ops]
    /\ site \in [Threads -> Sites]
    /\ collected \in [Threads -> 0 .. MaxCollect]
    /\ child \in [Threads -> Threads \cup {NoThread}]

\* Instructions that read or write managed values: user code, the allocator
\* with the heap held, and fn_thread_start handling the Thread object.
ManagedPcs == {"run", "heap", "hl", "gc_lock", "gc_request",
               "st_count", "st_create", "st_undo"}

\* While a collector marks and sweeps, no other thread touches the heap: every
\* other context is parked, native or inactive and stays so.
StoppedWorld ==
    \A t \in Threads : pc[t] = "gc" =>
        \A u \in Threads \ {t} : gcState[u] # "RUNNING" /\ pc[u] \notin ManagedPcs

\* Two threads are never inside the heap at once, although a process with one
\* managed thread enters it without the monitor and may leave that mode again.
HeapExclusive ==
    \A t, u \in Threads : InHeap(t) /\ InHeap(u) => t = u

\* A requested collection gets its stopped world.
WorldStopCompletes ==
    \A t \in Threads : pc[t] = "gc_scanlock" ~> pc[t] = "gc"

\* A thread parked for a collection runs again unless collections go on
\* forever: the handshake loses no wake-up.
ParkedResumes ==
    <>[](~gcRequested) => \A t \in Threads : gcState[t] = "PARKED" ~> gcState[t] = "RUNNING"

\* The threads for which the world stands still: fn_gc_world_stop returned
\* and fn_gc_world_resume has not yet cleared the request.
StoppedPcs == {"gc", "gc_relock", "gc_resume"}
Stopped == {t \in Threads : pc[t] \in StoppedPcs}

Mutators == {t \in Threads : gcState[t] = "RUNNING"}
Stopper == IF Stopped = {} THEN NoThread ELSE CHOOSE t \in Stopped : TRUE

Abstract == INSTANCE StopTheWorld WITH mutators <- Mutators, stopper <- Stopper

\* The handshake implements StopTheWorld: the published GC states are the
\* mutators, and no context is published RUNNING between fn_gc_world_stop
\* and fn_gc_world_resume.
ImplementsStopTheWorld == Abstract!Spec

=============================================================================
