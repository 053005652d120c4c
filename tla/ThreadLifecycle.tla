--------------------------- MODULE ThreadLifecycle ---------------------------
(***************************************************************************)
(* One Thread object from construction to reclamation: the lock-free       *)
(* lifecycle of src/mlc/codegen/codegen_threads.ml (Start, Stop, Join,     *)
(* SetLogicalId, Close, the worker's fn_thread_entry) raced by several     *)
(* managed callers, and the collector that reclaims abandoned objects      *)
(* (fn_gc_collect in codegen_memory.ml).                                   *)
(*                                                                         *)
(* A step is one atomic access (a load, a store, a LOCK CMPXCHG) or one    *)
(* call of the operating system.  Of the safepoint protocol (module        *)
(* Safepoint) only the contract is used: the world stops when no managed   *)
(* thread is between two polls, and a thread that leaves native code or    *)
(* enters the heap waits until no collection is requested.                 *)
(***************************************************************************)
EXTENDS Integers, FiniteSets

CONSTANTS
    Callers,      \* managed threads that share the Thread object
    MaxTimeout,   \* bound on the finite timeouts given to Join, in ms
    WaitsFail     \* whether WaitForSingleObject may report an error

ASSUME CallersAssumption == IsFiniteSet(Callers)
ASSUME TimeoutAssumption == MaxTimeout \in Nat
ASSUME WaitsAssumption == WaitsFail \in BOOLEAN

Forever == -1
Timeouts == {Forever} \cup 0 .. MaxTimeout

VARIABLES
    status,    \* THREAD_STATUS
    handle,    \* THREAD_HANDLE # 0
    users,     \* THREAD_HANDLE_USERS
    payload,   \* CODE, ARG, RESULT and the other roots: "set" or "cleared"
    result,    \* THREAD_RESULT holds what the worker returned
    freed,     \* the collector recycled the object
    osHandle,  \* the kernel's handle: "none", "open" or "closed"
    worker,    \* the instruction of the native worker
    gc,        \* "none", "requested" or "stopped"
    pc,        \* the instruction of each caller
    timeout,   \* what is left of a caller's Join timeout
    holds,     \* the caller has a reference to the object
    answer     \* the last result of Start, Stop, Join and Close

vars == <<status, handle, users, payload, result, freed, osHandle, worker, gc,
          pc, timeout, holds, answer>>

Terminal == {"COMPLETED", "STOPPED", "FAILED"}
Statuses == {"CREATED", "CONFIGURING", "STARTING", "RUNNING",
             "STOP_REQUESTED"} \cup Terminal

Init ==
    /\ status = "CREATED"
    /\ handle = FALSE
    /\ users = 0
    /\ payload = "set"
    /\ result = FALSE
    /\ freed = FALSE
    /\ osHandle = "none"
    /\ worker = "none"
    /\ gc = "none"
    /\ pc = [c \in Callers |-> "idle"]
    /\ timeout = [c \in Callers |-> 0]
    /\ holds = [c \in Callers |-> TRUE]
    /\ answer = [c \in Callers |-> "none"]

Goto(c, l) == pc' = [pc EXCEPT ![c] = l]

\* Managed code begins an operation on the object; a poll precedes it.
Begin(c, l) ==
    /\ pc[c] = "idle"
    /\ holds[c]
    /\ gc = "none"
    /\ Goto(c, l)
    /\ answer' = [answer EXCEPT ![c] = "none"]

Return(c, r) ==
    /\ Goto(c, "idle")
    /\ answer' = [answer EXCEPT ![c] = r]

shared == <<status, handle, users, payload, result, freed, osHandle, worker>>
local  == <<timeout, holds>>

-----------------------------------------------------------------------------
(* fn_thread_start.  The caller stays RUNNING throughout, so no collection *)
(* happens between CreateThread and the publication of the handle.         *)

StartBegin(c) == Begin(c, "st_claim") /\ UNCHANGED <<shared, gc, local>>

\* CAS CREATED -> STARTING, spinning while SetLogicalId is CONFIGURING.
StartClaim(c) ==
    /\ pc[c] = "st_claim"
    /\ status # "CONFIGURING"
    /\ IF status = "CREATED"
       THEN status' = "STARTING" /\ Goto(c, "st_create") /\ UNCHANGED answer
       ELSE Return(c, "start_false") /\ UNCHANGED status
    /\ UNCHANGED <<handle, users, payload, result, freed, osHandle, worker, gc, local>>

\* The argument is stored, the thread counted, and the native worker created.
StartCreate(c) ==
    /\ pc[c] = "st_create"
    /\ osHandle' = "open"
    /\ worker' = "entry"
    /\ Goto(c, "st_publish")
    /\ UNCHANGED <<status, handle, users, payload, result, freed, gc, local, answer>>

StartFail(c) ==
    /\ pc[c] = "st_create"
    /\ status' = "FAILED"
    /\ Return(c, "start_false")
    /\ UNCHANGED <<handle, users, payload, result, freed, osHandle, worker, gc, local>>

StartPublish(c) ==
    /\ pc[c] = "st_publish"
    /\ handle' = TRUE
    /\ Goto(c, "st_run")
    /\ UNCHANGED <<status, users, payload, result, freed, osHandle, worker, gc, local, answer>>

\* Mutant: RUNNING is stored unconditionally.
StartRunStores(c) ==
    /\ pc[c] = "st_run"
    /\ status' = "RUNNING"
    /\ Return(c, "start_true")
    /\ UNCHANGED <<handle, users, payload, result, freed, osHandle, worker, gc, local>>

\* CAS STARTING -> RUNNING; a stop request published meanwhile is kept.
StartRun(c) ==
    /\ pc[c] = "st_run"
    /\ status' = IF status = "STARTING" THEN "RUNNING" ELSE status
    /\ Return(c, "start_true")
    /\ UNCHANGED <<handle, users, payload, result, freed, osHandle, worker, gc, local>>

-----------------------------------------------------------------------------
(* fn_thread_stop *)

StopBegin(c) == Begin(c, "sp_running") /\ UNCHANGED <<shared, gc, local>>

StopRunning(c) ==
    /\ pc[c] = "sp_running"
    /\ \/ status = "RUNNING" /\ status' = "STOP_REQUESTED" /\ Return(c, "stop_true")
       \/ status = "STARTING" /\ Goto(c, "sp_starting") /\ UNCHANGED <<status, answer>>
       \/ status \notin {"RUNNING", "STARTING"} /\ Return(c, "stop_false") /\ UNCHANGED status
    /\ UNCHANGED <<handle, users, payload, result, freed, osHandle, worker, gc, local>>

StopStarting(c) ==
    /\ pc[c] = "sp_starting"
    /\ \/ status = "STARTING" /\ status' = "STOP_REQUESTED" /\ Return(c, "stop_true")
       \/ status = "RUNNING" /\ Goto(c, "sp_running") /\ UNCHANGED <<status, answer>>
       \/ status \notin {"RUNNING", "STARTING"} /\ Return(c, "stop_false") /\ UNCHANGED status
    /\ UNCHANGED <<handle, users, payload, result, freed, osHandle, worker, gc, local>>

-----------------------------------------------------------------------------
(* fn_thread_set_logical_id *)

SetIdBegin(c) == Begin(c, "id_claim") /\ UNCHANGED <<shared, gc, local>>

SetIdClaim(c) ==
    /\ pc[c] = "id_claim"
    /\ IF status = "CREATED"
       THEN status' = "CONFIGURING" /\ Goto(c, "id_write") /\ UNCHANGED answer
       ELSE Return(c, "id_false") /\ UNCHANGED status
    /\ UNCHANGED <<handle, users, payload, result, freed, osHandle, worker, gc, local>>

SetIdWrite(c) ==
    /\ pc[c] = "id_write"
    /\ status' = "CREATED"
    /\ Return(c, "id_true")
    /\ UNCHANGED <<handle, users, payload, result, freed, osHandle, worker, gc, local>>

-----------------------------------------------------------------------------
(* fn_gc_native_enter and fn_gc_native_leave, by their contract *)

\* Instructions a caller executes as GC_THREAD_NATIVE.
NativePcs == {"jn_status", "jn_load", "jn_pin", "jn_recheck", "jn_wait",
              "jn_unpin", "jn_lost", "jn_false", "jn_leave",
              "cl_users", "cl_wait", "cl_close", "cl_closed", "cl_failed",
              "cl_waitfailed"}

EnterNative(c, from, to) ==
    /\ pc[c] = from
    /\ gc = "none"
    /\ Goto(c, to)
    /\ UNCHANGED <<shared, gc, local, answer>>

-----------------------------------------------------------------------------
(* fn_thread_join *)

JoinBegin(c) ==
    /\ Begin(c, "jn_enter")
    /\ \E ms \in Timeouts : timeout' = [timeout EXCEPT ![c] = ms]
    /\ UNCHANGED <<shared, gc, holds>>

\* l_wait_handle: while Start is publishing, sleep a millisecond of the timeout.
JoinStatus(c) ==
    /\ pc[c] = "jn_status"
    /\ \/ /\ status = "STARTING"
          /\ timeout[c] = 0
          /\ Goto(c, "jn_false")
          /\ UNCHANGED timeout
       \/ /\ status = "STARTING"
          /\ timeout[c] # 0
          /\ timeout' = [timeout EXCEPT ![c] = IF @ = Forever THEN @ ELSE @ - 1]
          /\ UNCHANGED pc
       \/ /\ status # "STARTING"
          /\ Goto(c, "jn_load")
          /\ UNCHANGED timeout
    /\ UNCHANGED <<shared, gc, holds, answer>>

JoinLoad(c) ==
    /\ pc[c] = "jn_load"
    /\ Goto(c, IF handle THEN "jn_pin" ELSE "jn_false")
    /\ UNCHANGED <<shared, gc, local, answer>>

JoinPin(c) ==
    /\ pc[c] = "jn_pin"
    /\ users' = users + 1
    /\ Goto(c, "jn_recheck")
    /\ UNCHANGED <<status, handle, payload, result, freed, osHandle, worker, gc, local, answer>>

\* Mutant: the pinned handle is not compared with the object's again.
JoinRecheckSkipped(c) ==
    /\ pc[c] = "jn_recheck"
    /\ Goto(c, "jn_wait")
    /\ UNCHANGED <<shared, gc, local, answer>>

\* Close may have taken the handle between the load and the pin.
JoinRecheck(c) ==
    /\ pc[c] = "jn_recheck"
    /\ Goto(c, IF handle THEN "jn_wait" ELSE "jn_lost")
    /\ UNCHANGED <<shared, gc, local, answer>>

\* Mutant: the result of the wait is not looked at.
JoinWaitUntested(c) ==
    /\ pc[c] = "jn_wait"
    /\ worker = "ended" \/ timeout[c] # Forever
    /\ answer' = [answer EXCEPT ![c] = "join_true"]
    /\ Goto(c, "jn_unpin")
    /\ UNCHANGED <<shared, gc, local>>

\* WaitForSingleObject returns because the thread ended, or the time is over.
JoinWait(c) ==
    /\ pc[c] = "jn_wait"
    /\ \/ worker = "ended" /\ answer' = [answer EXCEPT ![c] = "join_true"]
       \/ timeout[c] # Forever /\ answer' = [answer EXCEPT ![c] = "join_false"]
    /\ Goto(c, "jn_unpin")
    /\ UNCHANGED <<shared, gc, local>>

\* It may also fail.
JoinWaitFails(c) ==
    /\ WaitsFail
    /\ pc[c] = "jn_wait"
    /\ answer' = [answer EXCEPT ![c] = "join_false"]
    /\ Goto(c, "jn_unpin")
    /\ UNCHANGED <<shared, gc, local>>

JoinUnpin(c) ==
    /\ pc[c] \in {"jn_unpin", "jn_lost"}
    /\ users' = users - 1
    /\ Goto(c, IF pc[c] = "jn_unpin" THEN "jn_leave" ELSE "jn_false")
    /\ UNCHANGED <<status, handle, payload, result, freed, osHandle, worker, gc, local, answer>>

JoinReturn(c) ==
    /\ pc[c] \in {"jn_leave", "jn_false"}
    /\ gc = "none"
    /\ Return(c, IF pc[c] = "jn_leave" THEN answer[c] ELSE "join_false")
    /\ timeout' = [timeout EXCEPT ![c] = 0]
    /\ UNCHANGED <<shared, gc, holds>>

-----------------------------------------------------------------------------
(* fn_thread_close *)

CloseBegin(c) == Begin(c, "cl_status") /\ UNCHANGED <<shared, gc, local>>

CloseStatus(c) ==
    /\ pc[c] = "cl_status"
    /\ \/ status = "CREATED" /\ Goto(c, "cl_cancel") /\ UNCHANGED answer
       \/ status \in Terminal /\ Goto(c, "cl_load") /\ UNCHANGED answer
       \/ status \notin Terminal \cup {"CREATED"} /\ Return(c, "close_false")
    /\ UNCHANGED <<shared, gc, local>>

\* CAS CREATED -> STOPPED consumes the lifecycle of a thread never started.
CloseCancel(c) ==
    /\ pc[c] = "cl_cancel"
    /\ IF status = "CREATED"
       THEN status' = "STOPPED" /\ Goto(c, "cl_clear") /\ UNCHANGED answer
       ELSE Return(c, "close_false") /\ UNCHANGED status
    /\ UNCHANGED <<handle, users, payload, result, freed, osHandle, worker, gc, local>>

CloseLoad(c) ==
    /\ pc[c] = "cl_load"
    /\ IF handle THEN Goto(c, "cl_take") /\ UNCHANGED answer ELSE Return(c, "close_false")
    /\ UNCHANGED <<shared, gc, local>>

\* CAS handle -> 0: one closer owns it from here.
CloseTake(c) ==
    /\ pc[c] = "cl_take"
    /\ IF handle
       THEN handle' = FALSE /\ Goto(c, "cl_enter") /\ UNCHANGED answer
       ELSE Return(c, "close_false") /\ UNCHANGED handle
    /\ UNCHANGED <<status, users, payload, result, freed, osHandle, worker, gc, local>>

\* Joins that pinned the handle leave first.
CloseUsers(c) ==
    /\ pc[c] = "cl_users"
    /\ users = 0
    /\ Goto(c, "cl_wait")
    /\ UNCHANGED <<shared, gc, local, answer>>

\* The infinite wait for the worker's native epilogue.
CloseWait(c) ==
    /\ pc[c] = "cl_wait"
    /\ worker = "ended"
    /\ Goto(c, "cl_close")
    /\ UNCHANGED <<shared, gc, local, answer>>

CloseWaitFails(c) ==
    /\ WaitsFail
    /\ pc[c] = "cl_wait"
    /\ Goto(c, "cl_waitfailed")
    /\ UNCHANGED <<shared, gc, local, answer>>

CloseHandle(c) ==
    /\ pc[c] = "cl_close"
    /\ \/ osHandle' = "closed" /\ Goto(c, "cl_closed")
       \/ Goto(c, "cl_failed") /\ UNCHANGED osHandle
    /\ UNCHANGED <<status, handle, users, payload, result, freed, worker, gc, local, answer>>

CloseLeave(c) ==
    /\ pc[c] \in {"cl_closed", "cl_failed", "cl_waitfailed"}
    /\ gc = "none"
    /\ Goto(c, IF pc[c] = "cl_closed" THEN "cl_clear" ELSE "cl_restore")
    /\ UNCHANGED <<shared, gc, local, answer>>

CloseClear(c) ==
    /\ pc[c] = "cl_clear"
    /\ payload' = "cleared"
    /\ result' = FALSE
    /\ Return(c, "close_true")
    /\ UNCHANGED <<status, handle, users, freed, osHandle, worker, gc, local>>

\* CAS 0 -> handle gives the handle back for a later attempt.
CloseRestore(c) ==
    /\ pc[c] = "cl_restore"
    /\ handle' = TRUE
    /\ Return(c, "close_false")
    /\ UNCHANGED <<status, users, payload, result, freed, osHandle, worker, gc, local>>

-----------------------------------------------------------------------------
(* fn_thread_entry *)

Work(from, to) == worker = from /\ worker' = to

\* Wait for Start's publication, then fn_gc_native_leave.
WorkerEnter ==
    /\ Work("entry", "take")
    /\ status # "STARTING"
    /\ gc = "none"
    /\ UNCHANGED <<status, handle, users, payload, result, freed, osHandle, gc, pc, local, answer>>

\* ARG is moved to the callee, which runs; it polls, so collections may happen.
WorkerCall ==
    /\ Work("take", "call")
    /\ UNCHANGED <<status, handle, users, payload, result, freed, osHandle, gc, pc, local, answer>>

WorkerReturn ==
    /\ Work("call", "final")
    /\ gc = "none"
    /\ result' = TRUE
    /\ UNCHANGED <<status, handle, users, payload, freed, osHandle, gc, pc, local, answer>>

\* CAS RUNNING -> COMPLETED or FAILED.  A pending stop wins, in a second store.
WorkerFinal ==
    /\ worker = "final"
    /\ \/ /\ status = "RUNNING"
          /\ status' \in {"COMPLETED", "FAILED"}
          /\ worker' = "retire"
       \/ /\ status # "RUNNING"
          /\ worker' = IF status = "STOP_REQUESTED" THEN "stopped" ELSE "retire"
          /\ UNCHANGED status
    /\ UNCHANGED <<handle, users, payload, result, freed, osHandle, gc, pc, local, answer>>

WorkerStopped ==
    /\ Work("stopped", "retire")
    /\ status' = "STOPPED"
    /\ UNCHANGED <<handle, users, payload, result, freed, osHandle, gc, pc, local, answer>>

\* tlab_retire_internal enters the heap, then fn_gc_managed_exit.
WorkerRetire ==
    /\ Work("retire", "exit")
    /\ gc = "none"
    /\ UNCHANGED <<status, handle, users, payload, result, freed, osHandle, gc, pc, local, answer>>

WorkerExit ==
    /\ Work("exit", "epilogue")
    /\ UNCHANGED <<status, handle, users, payload, result, freed, osHandle, gc, pc, local, answer>>

\* managed_thread_count is decremented and the native thread returns.
WorkerEnd ==
    /\ Work("epilogue", "ended")
    /\ UNCHANGED <<status, handle, users, payload, result, freed, osHandle, gc, pc, local, answer>>

-----------------------------------------------------------------------------
(* The collector: fn_gc_world_stop, the context roots and the weak registry *)

Request ==
    /\ gc = "none"
    /\ gc' = "requested"
    /\ UNCHANGED <<shared, pc, local, answer>>

\* Mutant: Close waits without leaving managed code.
CallerSafeClose(c) ==
    pc[c] \in (NativePcs \ {"cl_users", "cl_wait", "cl_close"}) \cup {"idle", "jn_enter", "cl_enter"}

\* A caller between operations, or native, is safe; so is a worker that polls.
CallerSafe(c) == pc[c] \in NativePcs \cup {"idle", "jn_enter", "cl_enter"}
WorkerActive == worker \in {"take", "call", "final", "stopped", "retire", "exit"}
WorkerSafe == ~WorkerActive \/ worker \in {"call", "retire"}

WorldStop ==
    /\ gc = "requested"
    /\ \A c \in Callers : CallerSafe(c)
    /\ WorkerSafe
    /\ gc' = "stopped"
    /\ UNCHANGED <<shared, pc, local, answer>>

WorldResume ==
    /\ gc = "stopped"
    /\ gc' = "none"
    /\ UNCHANGED <<shared, pc, local, answer>>

\* Mutant: every inactive context is weak.
ContextRootedActive == WorkerActive

\* An active context is a root, and so is an inactive one whose native thread
\* has a handle and has not been signalled.
ContextRooted == WorkerActive \/ (handle /\ worker # "ended")

\* An object nothing refers to is unlinked, after closing its handle; when
\* CloseHandle fails the object is retained instead (the step does nothing).
Reap ==
    /\ gc = "stopped"
    /\ ~freed
    /\ \A c \in Callers : ~holds[c]
    /\ ~ContextRooted
    /\ osHandle' = IF handle THEN "closed" ELSE osHandle
    /\ handle' = FALSE
    /\ freed' = TRUE
    /\ UNCHANGED <<status, users, payload, result, worker, gc, pc, local, answer>>

\* A caller drops its last reference.
Drop(c) ==
    /\ pc[c] = "idle"
    /\ holds[c]
    /\ holds' = [holds EXCEPT ![c] = FALSE]
    /\ UNCHANGED <<shared, gc, pc, timeout, answer>>

-----------------------------------------------------------------------------
CallerBegins(c) ==
    \/ StartBegin(c) \/ StopBegin(c) \/ SetIdBegin(c) \/ JoinBegin(c)
    \/ CloseBegin(c) \/ Drop(c)

CallerSteps(c) ==
    \/ StartClaim(c) \/ StartCreate(c) \/ StartFail(c) \/ StartPublish(c) \/ StartRun(c)
    \/ StopRunning(c) \/ StopStarting(c)
    \/ SetIdClaim(c) \/ SetIdWrite(c)
    \/ EnterNative(c, "jn_enter", "jn_status")
    \/ JoinStatus(c) \/ JoinLoad(c) \/ JoinPin(c) \/ JoinRecheck(c) \/ JoinWait(c)
    \/ JoinUnpin(c) \/ JoinReturn(c)
    \/ CloseStatus(c) \/ CloseCancel(c) \/ CloseLoad(c) \/ CloseTake(c)
    \/ EnterNative(c, "cl_enter", "cl_users")
    \/ CloseUsers(c) \/ CloseWait(c) \/ CloseHandle(c) \/ CloseLeave(c)
    \/ CloseClear(c) \/ CloseRestore(c)

WaitFails(c) == JoinWaitFails(c) \/ CloseWaitFails(c)

WorkerSteps ==
    \/ WorkerEnter \/ WorkerCall \/ WorkerReturn \/ WorkerFinal \/ WorkerStopped
    \/ WorkerRetire \/ WorkerExit \/ WorkerEnd

Next ==
    \/ \E c \in Callers : CallerBegins(c) \/ CallerSteps(c) \/ WaitFails(c)
    \/ WorkerSteps
    \/ Request \/ WorldStop \/ WorldResume \/ Reap

Spec == Init /\ [][Next]_vars

\* Every thread is scheduled, a requested collection is carried out, and the
\* worker's function returns.  A step that waits for "no collection requested"
\* is retried between collections (strong fairness).  A wait may fail, and need not.
Fairness ==
    /\ \A c \in Callers : SF_vars(CallerSteps(c))
    /\ SF_vars(WorkerSteps)
    /\ WF_vars(WorldStop)
    /\ WF_vars(WorldResume)

FairSpec == Spec /\ Fairness

-----------------------------------------------------------------------------
Pcs == NativePcs \cup
       {"idle", "st_claim", "st_create", "st_publish", "st_run", "sp_running",
        "sp_starting", "id_claim", "id_write", "jn_enter", "cl_status",
        "cl_cancel", "cl_load", "cl_take", "cl_enter", "cl_clear", "cl_restore"}

WorkerPcs == {"none", "entry", "take", "call", "final", "stopped", "retire",
              "exit", "epilogue", "ended"}

Answers == {"none", "start_true", "start_false", "stop_true", "stop_false",
            "id_true", "id_false", "join_true", "join_false", "close_true",
            "close_false"}

\* Types; the pins of the handle are never released more often than taken.
TypeOK ==
    /\ status \in Statuses
    /\ handle \in BOOLEAN
    /\ users \in Nat
    /\ payload \in {"set", "cleared"}
    /\ result \in BOOLEAN
    /\ freed \in BOOLEAN
    /\ osHandle \in {"none", "open", "closed"}
    /\ worker \in WorkerPcs
    /\ gc \in {"none", "requested", "stopped"}
    /\ pc \in [Callers -> Pcs]
    /\ timeout \in [Callers -> Timeouts]
    /\ holds \in [Callers -> BOOLEAN]
    /\ answer \in [Callers -> Answers]

\* The kernel handle is waited on, or closed, only while it is open, whatever
\* Join, Close and the collector do at the same time.
HandleUsedOpen ==
    \A c \in Callers : pc[c] \in {"jn_wait", "cl_wait", "cl_close"} => osHandle = "open"

\* What the worker uses outlives it: Close clears code, argument and result, and the
\* collector recycles the Thread, only when no native worker can touch them any more and
\* none is created afterwards; and no kernel handle is left open in a recycled one.
ObjectOutlivesWorker ==
    /\ payload = "cleared" \/ freed => worker \in {"none", "ended"}
    /\ freed => osHandle # "open"

\* A Stop() that answered true is never overtaken by a normal completion.
StopIsHonoured ==
    \A c \in Callers : answer[c] = "stop_true" => status \in {"STOP_REQUESTED", "STOPPED", "FAILED"}

\* Join() = true: the worker is gone and its result is published.
JoinMeansDone ==
    \A c \in Callers : answer[c] = "join_true" =>
        /\ worker = "ended"
        /\ status \in Terminal
        /\ result \/ payload = "cleared"

\* The calls that hold the handle outside the object's field.
HandleOwners ==
    {c \in Callers : pc[c] \in {"st_publish", "cl_enter", "cl_users", "cl_wait", "cl_close",
                                "cl_failed", "cl_waitfailed", "cl_restore"}}

\* At most one party owns the kernel handle, and an open one is never lost.
HandleHasOneOwner ==
    /\ Cardinality(HandleOwners) + (IF handle THEN 1 ELSE 0) <= 1
    /\ osHandle = "open" => handle \/ HandleOwners # {}

\* The kernel handle is used soundly by Join, Close and the collector: its pins are
\* counted right (a type), it is open while used, and one party owns it.
HandleIsSound == TypeOK /\ HandleUsedOpen /\ HandleHasOneOwner

\* Close() and an unlimited Join() of a started thread always come back: neither
\* deadlocks with a collection that waits for the caller, or with a worker parked
\* while it retires its TLAB.
BlockingCallsReturn ==
    \A c \in Callers : pc[c] \in {"cl_enter", "jn_enter"} ~> pc[c] = "idle"

\* "A Join racing Start waits for native-handle publication instead of failing
\* early": Join stops waiting only when no Start is between its claim of the
\* object and its store of the handle.
JoinAwaitsPublication ==
    [][\A c \in Callers : pc[c] = "jn_status" /\ pc'[c] = "jn_load" =>
          \A s \in Callers : pc[s] \notin {"st_create", "st_publish"}]_vars

=============================================================================
