----------------------------- MODULE GCRequest ------------------------------
(***************************************************************************)
(* How the threads of a program ask the concurrent collector for cycles    *)
(* and wait for them: fn_gc_concurrent_request, fn_gc_collect and          *)
(* fn_gc_concurrent_worker of mlc/codegen/codegen_concurrent_gc.ml, with   *)
(* the points of a cycle at which it publishes its phase.                  *)
(*                                                                         *)
(* A request publishes phase 3 and sets an auto-reset event when the       *)
(* collector is idle, and coalesces with the cycle under way otherwise.    *)
(* Either way it answers with the completion to wait for, always the next  *)
(* one, so a waiter is modelled by whether it is still due (due), not by   *)
(* the counter gc_concurrent_completed.  The waits poll every 10 ms: the   *)
(* event gc_concurrent_done shortens them and decides nothing, and is left *)
(* out.  A pause of the worker needs the heap monitor and is one step.     *)
(***************************************************************************)
CONSTANTS
    Threads,    \* managed threads
    None        \* nobody holds the heap monitor

ASSUME NoneAssumption == None \notin Threads

VARIABLES
    pc,        \* where each thread is in fn_gc_collect
    emergency, \* it was called by fn_alloc, with the heap monitor held
    busy,      \* a cycle was active when it requested: request a fresh one
    due,       \* the completion it waits for has not come
    heap,      \* owner of the heap monitor between steps
    phase,     \* gc_concurrent_phase: idle 0, requested 3, marking 1 or 4, sweeping 2
    go,        \* gc_concurrent_go
    worker,    \* fn_gc_concurrent_worker: waiting for go, woken, in a cycle
    fresh      \* history: has a cycle begun, and ended, since the call?

caller == <<pc, emergency, busy, due>>
collector == <<phase, go, worker>>
vars == <<caller, heap, collector, fresh>>

Init ==
    /\ pc = [t \in Threads |-> "out"]
    /\ emergency = [t \in Threads |-> FALSE]
    /\ busy = [t \in Threads |-> FALSE]
    /\ due = [t \in Threads |-> FALSE]
    /\ heap = None
    /\ phase = "idle" /\ go = FALSE /\ worker = "wait"
    /\ fresh = [t \in Threads |-> "none"]

Goto(t, l) == pc' = [pc EXCEPT ![t] = l]

-----------------------------------------------------------------------------
(* fn_gc_concurrent_request, under the heap monitor                         *)

Free == heap = None

\* Mutant: the event is set for a request that coalesces, too.
PublishAlways ==
    /\ UNCHANGED worker
    /\ go' = TRUE
    /\ phase' = IF phase = "idle" THEN "requested" ELSE phase

Publish ==
    /\ UNCHANGED worker
    /\ \/ phase = "idle" /\ phase' = "requested" /\ go' = TRUE
       \/ phase # "idle" /\ UNCHANGED <<phase, go>>

\* An allocation crosses a threshold and does not wait for the cycle.
AutoRequest ==
    /\ Free
    /\ Publish
    /\ UNCHANGED <<caller, heap, fresh>>

-----------------------------------------------------------------------------
(* fn_gc_collect                                                            *)

Call(t) ==
    /\ pc[t] = "out"
    /\ Goto(t, "request")
    /\ emergency' = [emergency EXCEPT ![t] = FALSE]
    /\ fresh' = [fresh EXCEPT ![t] = "none"]
    /\ UNCHANGED <<busy, due, heap, collector>>

\* The allocator found no room; its monitor is released level by level.
CallFromAlloc(t) ==
    /\ pc[t] = "out" /\ Free
    /\ Goto(t, "release") /\ heap' = t
    /\ emergency' = [emergency EXCEPT ![t] = TRUE]
    /\ fresh' = [fresh EXCEPT ![t] = "none"]
    /\ UNCHANGED <<busy, due, collector>>

Release(t) ==
    /\ pc[t] = "release"
    /\ Goto(t, "request") /\ heap' = None
    /\ UNCHANGED <<emergency, busy, due, collector, fresh>>

\* Mutant: the cycle that was active is as good as a fresh one.
RequestOnce(t) ==
    /\ pc[t] = "request" /\ Free
    /\ Publish
    /\ busy' = [busy EXCEPT ![t] = FALSE]
    /\ due' = [due EXCEPT ![t] = TRUE]
    /\ Goto(t, "wait")
    /\ UNCHANGED <<emergency, heap, fresh>>

Request(t) ==
    /\ pc[t] = "request" /\ Free
    /\ Publish
    /\ busy' = [busy EXCEPT ![t] = phase # "idle"]
    /\ due' = [due EXCEPT ![t] = TRUE]
    /\ Goto(t, "wait")
    /\ UNCHANGED <<emergency, heap, fresh>>

\* Mutant: the collector must be seen idle, too.
WaitEndsIdle(t) ==
    /\ pc[t] = "wait" /\ ~due[t] /\ phase = "idle"
    /\ Goto(t, IF busy[t] THEN "again" ELSE IF emergency[t] THEN "relock" ELSE "returned")
    /\ UNCHANGED <<emergency, busy, due, heap, collector, fresh>>

\* The completion has come.
WaitEnds(t) ==
    /\ pc[t] = "wait" /\ ~due[t]
    /\ Goto(t, IF busy[t] THEN "again" ELSE IF emergency[t] THEN "relock" ELSE "returned")
    /\ UNCHANGED <<emergency, busy, due, heap, collector, fresh>>

\* The second request: whatever cycle it finds began after the call.
Again(t) ==
    /\ pc[t] = "again" /\ Free
    /\ Publish
    /\ busy' = [busy EXCEPT ![t] = FALSE]
    /\ due' = [due EXCEPT ![t] = TRUE]
    /\ Goto(t, "wait")
    /\ UNCHANGED <<emergency, heap, fresh>>

\* Mutant: the phase is not looked at again.
RelockUnchecked(t) ==
    /\ pc[t] = "relock" /\ Free
    /\ heap' = t /\ Goto(t, "returned")
    /\ UNCHANGED <<emergency, busy, due, collector, fresh>>

\* Back in the allocator's monitor, unless another cycle hides the free blocks.
Relock(t) ==
    /\ pc[t] = "relock" /\ Free
    /\ IF phase = "idle" THEN heap' = t /\ Goto(t, "returned")
                         ELSE UNCHANGED heap /\ Goto(t, "again")
    /\ UNCHANGED <<emergency, busy, due, collector, fresh>>

\* The caller goes on; the allocator retries and leaves the monitor.
Return(t) ==
    /\ pc[t] = "returned"
    /\ Goto(t, "out")
    /\ heap' = IF heap = t THEN None ELSE heap
    /\ UNCHANGED <<emergency, busy, due, collector, fresh>>

-----------------------------------------------------------------------------
(* fn_gc_concurrent_worker and the phases of fn_gc_concurrent_cycle         *)

Wake ==
    /\ worker = "wait" /\ go
    /\ worker' = "woken" /\ go' = FALSE
    /\ UNCHANGED <<caller, heap, phase, fresh>>

BeginCycle ==
    /\ worker = "woken" /\ Free
    /\ worker' = "cycle" /\ phase' = "marking"
    /\ fresh' = [t \in Threads |-> IF fresh[t] = "none" THEN "begun" ELSE fresh[t]]
    /\ UNCHANGED <<caller, heap, go>>

EndMarking ==
    /\ worker = "cycle" /\ phase = "marking" /\ Free
    /\ phase' = "sweeping"
    /\ UNCHANGED <<caller, heap, go, worker, fresh>>

EndCycle ==
    /\ worker = "cycle" /\ phase = "sweeping" /\ Free
    /\ worker' = "wait" /\ phase' = "idle"
    /\ due' = [t \in Threads |-> FALSE]
    /\ fresh' = [t \in Threads |-> IF fresh[t] = "begun" THEN "ended" ELSE fresh[t]]
    /\ UNCHANGED <<pc, emergency, busy, heap, go>>

Collect(t) ==
    \/ Call(t) \/ CallFromAlloc(t) \/ Release(t) \/ Request(t) \/ WaitEnds(t)
    \/ Again(t) \/ Relock(t) \/ Return(t)

Worker == Wake \/ BeginCycle \/ EndMarking \/ EndCycle

Next == AutoRequest \/ Worker \/ \E t \in Threads : Collect(t)

Spec == Init /\ [][Next]_vars

\* The OS runs every thread and admits each to the monitor in the end; no thread
\* need call the collector, but one that has goes on.
Fairness ==
    /\ SF_vars(Worker)
    /\ \A t \in Threads :
        /\ WF_vars(Release(t) \/ WaitEnds(t) \/ Return(t))
        /\ SF_vars(Request(t) \/ Again(t) \/ Relock(t))

FairSpec == Spec /\ Fairness

-----------------------------------------------------------------------------
\* Types, and who may hold the heap monitor: fn_gc_collect waits for nothing with it.
TypeOK ==
    /\ pc \in [Threads -> {"out", "release", "request", "wait", "again", "relock", "returned"}]
    /\ emergency \in [Threads -> BOOLEAN]
    /\ busy \in [Threads -> BOOLEAN]
    /\ due \in [Threads -> BOOLEAN]
    /\ heap \in {t \in Threads : emergency[t] /\ pc[t] \in {"release", "returned"}} \cup {None}
    /\ phase \in {"idle", "requested", "marking", "sweeping"}
    /\ go \in BOOLEAN
    /\ worker \in {"wait", "woken", "cycle"}
    /\ fresh \in [Threads -> {"none", "begun", "ended"}]

\* gc_collect() is synchronous: when it returns, a whole cycle, snapshot included,
\* has run since the call, though requests coalesce with the cycle under way.
CollectIsFresh == \A t \in Threads : pc[t] = "returned" => fresh[t] = "ended"

\* An allocator that waited retries in its monitor with no cycle under way: the
\* free blocks are all published and one retry finds them.
RetrySeesFreeBlocks ==
    \A t \in Threads : pc[t] = "returned" /\ emergency[t] => heap = t /\ phase = "idle"

\* Every request published reaches the worker once: no wake-up is lost, and none is
\* left over to run a cycle nobody asked for.
RequestReachesWorker ==
    /\ phase = "requested" <=> go \/ worker = "woken"
    /\ ~(go /\ worker = "woken")
    /\ phase \in {"marking", "sweeping"} <=> worker = "cycle"

\* An explicit gc_collect() returns, though allocations request cycle after cycle.
CollectReturns ==
    \A t \in Threads : pc[t] = "request" /\ ~emergency[t] ~> pc[t] = "returned"

=============================================================================
