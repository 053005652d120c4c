----------------------------- MODULE ThreadPool ------------------------------
(***************************************************************************)
(* The managed worker pool of src/std/concurrent/thread_pool.ml: submit,   *)
(* shutdown, stop, join and close of ThreadPool, the job lifecycle         *)
(* (_begin, _execute, cancel, close) and _threadPoolWorker.                *)
(*                                                                         *)
(* What pool.guard or a job's guard protects is touched only under that    *)
(* lock, so each critical section is one step; the semaphore, the threads' *)
(* ends and the flags read without the lock are steps of their own.  The   *)
(* circular queue is a sequence here, which module JobQueue implements.    *)
(* pool.close and the disposal of a job are documented not to race the     *)
(* active users of either.                                                 *)
(***************************************************************************)
EXTENDS Integers, Sequences, FiniteSets

CONSTANTS
    Clients,       \* threads that use the pool
    Workers,       \* its native workers
    Jobs,          \* identities of job objects, reused once unreachable
    QueueCapacity, \* 0 for an unbounded queue
    Nobody, NoJob

ASSUME SetsAssumption ==
    /\ IsFiniteSet(Clients) /\ Nobody \notin Clients
    /\ IsFiniteSet(Workers) /\ Workers # {}
    /\ NoJob \notin Jobs
ASSUME CapacityAssumption == QueueCapacity \in Nat

VARIABLES
    queue,      \* jobs between queueHead and queueTail
    accepting, stopping, stopped, closed,
    signal,     \* tokens of the semaphore
    status,     \* of each job; "unborn" before it is allocated
    wpc, wjob,  \* each worker's instruction and local variable job
    pc, cjob,   \* each client's instruction and the job it submits
    closer      \* the client inside close(), or Nobody

poolVars == <<queue, accepting, stopping, stopped, closed>>
workVars == <<wpc, wjob>>
userVars == <<pc, cjob, closer>>
vars == <<poolVars, signal, status, workVars, userVars>>

Init ==
    /\ queue = <<>>
    /\ accepting = TRUE
    /\ stopping = FALSE
    /\ stopped = FALSE
    /\ closed = FALSE
    /\ signal = 0
    /\ status = [j \in Jobs |-> "unborn"]
    /\ wpc = [w \in Workers |-> "acquire"]
    /\ wjob = [w \in Workers |-> NoJob]
    /\ pc = [c \in Clients |-> "idle"]
    /\ cjob = [c \in Clients |-> NoJob]
    /\ closer = Nobody

Goto(c, l) == pc' = [pc EXCEPT ![c] = l]
Step(c, from, to) == pc[c] = from /\ Goto(c, to)

\* A public operation begins; none overlaps a close().
Begin(c, l) == closer = Nobody /\ Step(c, "idle", l)

Terminal == {"Completed", "Failed", "Cancelled"}
Queued == {queue[i] : i \in DOMAIN queue}

\* Clients have the handle of a job once submit has returned it.
Published(j) == status[j] # "unborn" /\ \A c \in Clients : cjob[c] # j

-----------------------------------------------------------------------------
(* submit *)

Submit(c) ==
    /\ Begin(c, "sb_put")
    /\ \E j \in Jobs :
          /\ status[j] = "unborn"
          /\ cjob' = [cjob EXCEPT ![c] = j]
          /\ status' = [status EXCEPT ![j] = "Queued"]
    /\ UNCHANGED <<poolVars, signal, workVars, closer>>

\* A job that is not accepted is cancelled, closed and dropped.
SubmitReject(c) ==
    /\ Step(c, "sb_put", "idle")
    /\ \/ closed \/ ~accepting
       \/ QueueCapacity > 0 /\ Len(queue) >= QueueCapacity
    /\ status' = [status EXCEPT ![cjob[c]] = "unborn"]
    /\ cjob' = [cjob EXCEPT ![c] = NoJob]
    /\ UNCHANGED <<poolVars, signal, workVars, closer>>

SubmitPut(c) ==
    /\ Step(c, "sb_put", "sb_signal")
    /\ ~closed /\ accepting
    /\ QueueCapacity = 0 \/ Len(queue) < QueueCapacity
    /\ queue' = Append(queue, cjob[c])
    /\ UNCHANGED <<accepting, stopping, stopped, closed, signal, status, workVars, cjob, closer>>

\* Mutant: no token is released while a worker is awake already.
SubmitSignalAsleep(c) ==
    /\ Step(c, "sb_signal", "idle")
    /\ signal' = IF \E w \in Workers : wpc[w] = "take" THEN signal ELSE signal + 1
    /\ cjob' = [cjob EXCEPT ![c] = NoJob]
    /\ UNCHANGED <<poolVars, status, workVars, closer>>

\* signal.release(), after pool.guard was released.
SubmitSignal(c) ==
    /\ Step(c, "sb_signal", "idle")
    /\ signal' = signal + 1
    /\ cjob' = [cjob EXCEPT ![c] = NoJob]
    /\ UNCHANGED <<poolVars, status, workVars, closer>>

-----------------------------------------------------------------------------
(* The job handle *)

CancelJob(c, j) ==
    /\ pc[c] = "idle"
    /\ Published(j)
    /\ status[j] = "Queued"
    /\ status' = [status EXCEPT ![j] = "Cancelled"]
    /\ UNCHANGED <<poolVars, signal, workVars, userVars>>

\* job.close(): the lock of a closed job can no longer be acquired.
CloseJob(c, j) ==
    /\ pc[c] = "idle"
    /\ Published(j)
    /\ status[j] \in Terminal
    /\ status' = [status EXCEPT ![j] = "closed"]
    /\ UNCHANGED <<poolVars, signal, workVars, userVars>>

\* The object is garbage and its identity may be used for another job.
Reclaim(j) ==
    /\ status[j] = "closed"
    /\ j \notin Queued
    /\ \A w \in Workers : wjob[w] # j
    /\ status' = [status EXCEPT ![j] = "unborn"]
    /\ UNCHANGED <<poolVars, signal, workVars, userVars>>

-----------------------------------------------------------------------------
(* _threadPoolWorker *)

GoWorker(w, from, to) == wpc[w] = from /\ wpc' = [wpc EXCEPT ![w] = to]

WorkerAcquire(w) ==
    /\ GoWorker(w, "acquire", "take")
    /\ signal > 0
    /\ signal' = signal - 1
    /\ UNCHANGED <<poolVars, status, wjob, userVars>>

\* Mutant: nothing is taken once stopping is set.
WorkerTakeStopped(w) ==
    /\ wpc[w] = "take"
    /\ \/ /\ queue = <<>> \/ stopping
          /\ GoWorker(w, "take", "stopping")
          /\ UNCHANGED <<queue, wjob>>
       \/ /\ queue # <<>> /\ ~stopping
          /\ wjob' = [wjob EXCEPT ![w] = Head(queue)]
          /\ queue' = Tail(queue)
          /\ GoWorker(w, "take", "begin")
    /\ UNCHANGED <<accepting, stopping, stopped, closed, signal, status, userVars>>

\* _poolTake
WorkerTake(w) ==
    /\ wpc[w] = "take"
    /\ \/ /\ queue = <<>>
          /\ GoWorker(w, "take", "stopping")
          /\ UNCHANGED <<queue, wjob>>
       \/ /\ queue # <<>>
          /\ wjob' = [wjob EXCEPT ![w] = Head(queue)]
          /\ queue' = Tail(queue)
          /\ GoWorker(w, "take", "begin")
    /\ UNCHANGED <<accepting, stopping, stopped, closed, signal, status, userVars>>

\* _poolIsStopping
WorkerStopping(w) ==
    /\ GoWorker(w, "stopping", IF stopping /\ queue = <<>> THEN "ended" ELSE "acquire")
    /\ UNCHANGED <<poolVars, signal, status, wjob, userVars>>

\* Mutant: the state is not tested under the job's lock.
WorkerBeginUnchecked(w) ==
    /\ GoWorker(w, "begin", "execute")
    /\ status' = [status EXCEPT ![wjob[w]] = "Running"]
    /\ UNCHANGED <<poolVars, signal, wjob, userVars>>

\* _begin claims a job that nobody cancelled.
WorkerBegin(w) ==
    /\ \/ /\ GoWorker(w, "begin", "execute")
          /\ status[wjob[w]] = "Queued"
          /\ status' = [status EXCEPT ![wjob[w]] = "Running"]
          /\ UNCHANGED wjob
       \/ /\ GoWorker(w, "begin", "acquire")
          /\ status[wjob[w]] # "Queued"
          /\ wjob' = [wjob EXCEPT ![w] = NoJob]
          /\ UNCHANGED status
    /\ UNCHANGED <<poolVars, signal, userVars>>

\* _execute: the callback returns a value or an error, which is published.
WorkerExecute(w) ==
    /\ GoWorker(w, "execute", "acquire")
    /\ \E s \in {"Completed", "Failed"} :
          status' = [status EXCEPT ![wjob[w]] = IF @ = "Running" THEN s ELSE @]
    /\ wjob' = [wjob EXCEPT ![w] = NoJob]
    /\ UNCHANGED <<poolVars, signal, userVars>>

-----------------------------------------------------------------------------
(* shutdown and stop *)

\* The operation is over, or close() goes on with its next call.
Return(c, next) == Goto(c, IF closer = c THEN next ELSE "idle")

ShutdownBegin(c) ==
    /\ Begin(c, "sd_flags")
    /\ UNCHANGED <<poolVars, signal, status, workVars, cjob, closer>>

Shutdown(c) ==
    /\ pc[c] = "sd_flags"
    /\ IF closed \/ stopping
       THEN Return(c, "jn_check") /\ UNCHANGED <<accepting, stopping>>
       ELSE Goto(c, "sd_release") /\ accepting' = FALSE /\ stopping' = TRUE
    /\ UNCHANGED <<queue, stopped, closed, signal, status, workVars, cjob, closer>>

\* Stop cancels what is queued under the same lock and empties the queue.
Stop(c) ==
    /\ Begin(c, "sd_release")
    /\ ~closed /\ ~stopping
    /\ accepting' = FALSE
    /\ stopping' = TRUE
    /\ status' = [j \in Jobs |-> IF j \in Queued /\ status[j] = "Queued"
                                 THEN "Cancelled" ELSE status[j]]
    /\ queue' = <<>>
    /\ UNCHANGED <<stopped, closed, signal, workVars, cjob, closer>>

\* Mutant: one token for all workers.
ReleaseOne(c) ==
    /\ pc[c] = "sd_release"
    /\ Return(c, "jn_check")
    /\ signal' = signal + 1
    /\ UNCHANGED <<poolVars, status, workVars, cjob, closer>>

\* signal.releaseMany(count)
ReleaseAll(c) ==
    /\ pc[c] = "sd_release"
    /\ Return(c, "jn_check")
    /\ signal' = signal + Cardinality(Workers)
    /\ UNCHANGED <<poolVars, status, workVars, cjob, closer>>

-----------------------------------------------------------------------------
(* join, joinFor and close *)

JoinBegin(c) ==
    /\ Begin(c, "jn_check")
    /\ UNCHANGED <<poolVars, signal, status, workVars, cjob, closer>>

\* isShutdown
JoinCheck(c) ==
    /\ Step(c, "jn_check", IF accepting THEN "idle" ELSE "jn_wait")
    /\ UNCHANGED <<poolVars, signal, status, workVars, cjob, closer>>

JoinWait(c) ==
    /\ Step(c, "jn_wait", "jn_stopped")
    /\ \A w \in Workers : wpc[w] = "ended"
    /\ UNCHANGED <<poolVars, signal, status, workVars, cjob, closer>>

\* joinFor gives up on a worker.
JoinTimeout(c) ==
    /\ closer # c
    /\ Step(c, "jn_wait", "idle")
    /\ UNCHANGED <<poolVars, signal, status, workVars, cjob, closer>>

JoinStopped(c) ==
    /\ pc[c] = "jn_stopped"
    /\ Return(c, "cl_close")
    /\ stopped' = TRUE
    /\ UNCHANGED <<queue, accepting, stopping, closed, signal, status, workVars, cjob, closer>>

\* close(): shutdown unless done already, join, then close the handles.
CloseBegin(c) ==
    /\ \A d \in Clients : pc[d] = "idle"
    /\ ~closed
    /\ Goto(c, IF accepting THEN "sd_flags" ELSE "jn_check")
    /\ closer' = c
    /\ UNCHANGED <<poolVars, signal, status, workVars, cjob>>

CloseHandles(c) ==
    /\ Step(c, "cl_close", "idle")
    /\ queue' = <<>>
    /\ closed' = TRUE
    /\ closer' = Nobody
    /\ UNCHANGED <<accepting, stopping, stopped, signal, status, workVars, cjob>>

-----------------------------------------------------------------------------
Begins(c) ==
    \/ Submit(c) \/ ShutdownBegin(c) \/ Stop(c) \/ JoinBegin(c) \/ CloseBegin(c)
    \/ \E j \in Jobs : CancelJob(c, j) \/ CloseJob(c, j)

Continues(c) ==
    \/ SubmitReject(c) \/ SubmitPut(c) \/ SubmitSignal(c)
    \/ Shutdown(c) \/ ReleaseAll(c)
    \/ JoinCheck(c) \/ JoinWait(c) \/ JoinStopped(c) \/ CloseHandles(c)

Works(w) ==
    \/ WorkerAcquire(w) \/ WorkerTake(w) \/ WorkerStopping(w)
    \/ WorkerBegin(w) \/ WorkerExecute(w)

Next ==
    \/ \E c \in Clients : Begins(c) \/ Continues(c) \/ JoinTimeout(c)
    \/ \E w \in Workers : Works(w)
    \/ \E j \in Jobs : Reclaim(j)

Spec == Init /\ [][Next]_vars

\* Clients finish the call they are in, workers are scheduled, callbacks return.
Fairness ==
    /\ \A c \in Clients : WF_vars(Continues(c))
    /\ \A w \in Workers : WF_vars(Works(w))

FairSpec == Spec /\ Fairness

-----------------------------------------------------------------------------
\* Types: a status only moves between the states the code knows.
TypeOK ==
    /\ queue \in Seq(Jobs)
    /\ accepting \in BOOLEAN /\ stopping \in BOOLEAN
    /\ stopped \in BOOLEAN /\ closed \in BOOLEAN
    /\ signal \in Nat
    /\ status \in [Jobs -> {"unborn", "Queued", "Running", "closed"} \cup Terminal]
    /\ wpc \in [Workers -> {"acquire", "take", "stopping", "begin", "execute", "ended"}]
    /\ wjob \in [Workers -> Jobs \cup {NoJob}]
    /\ pc \in [Clients -> {"idle", "sb_put", "sb_signal", "sd_flags", "sd_release",
                           "jn_check", "jn_wait", "jn_stopped", "cl_close"}]
    /\ cjob \in [Clients -> Jobs \cup {NoJob}]
    /\ closer \in Clients \cup {Nobody}

Working(l) == {w \in Workers : wpc[w] = l}
Calling(l) == {c \in Clients : pc[c] = l}

\* Tokens match work: every queued job, and once shutdown has begun every worker
\* that has not ended, has a token in the semaphore, on its way to it from a
\* submit or a shutdown, or in the hands of a worker about to take.  After Stop
\* there may be more.
TokensCoverWork == TypeOK /\
    LET tokens == signal + Cardinality(Calling("sb_signal")) + Cardinality(Working("take"))
                    + Cardinality(Calling("sd_release")) * Cardinality(Workers)
        leaving == IF stopping THEN Cardinality({w \in Workers : wpc[w] \notin {"ended", "stopping"}})
                   ELSE 0
    IN  tokens >= Len(queue) + leaving

\* What a client can tell of a job.
ServiceStatus(j) ==
    IF \E c \in Clients : cjob[c] = j /\ pc[c] = "sb_put" THEN "none"
    ELSE CASE status[j] = "Queued"    -> "queued"
           [] status[j] = "Running"   -> "running"
           [] status[j] = "Cancelled" -> "cancelled"
           [] status[j] \in {"Completed", "Failed"} -> "done"
           [] OTHER -> "none"

Service == INSTANCE JobService WITH
    status     <- [j \in Jobs |-> ServiceStatus(j)],
    down       <- stopping,
    terminated <- stopped

\* The pool implements the job service its clients see (module JobService).
ImplementsService == Service!Spec

\* An accepted job reaches a terminal state, in a pool that may be shut down or
\* stopped at any time.
AcceptedJobsEnd ==
    \A j \in Jobs : status[j] = "Queued" ~> status[j] \notin {"Queued", "Running"}

\* "Stop accepting jobs and cancel every job that is still queued": when stop()
\* takes effect no accepted job is left in the state Queued.
StopCancelsQueued ==
    [][(\E c \in Clients : pc[c] = "idle" /\ pc'[c] = "sd_release") =>
          (\A j \in Jobs : ServiceStatus(j) = "queued" => status'[j] = "Cancelled")]_vars

\* After shutdown or stop every worker ends, so join() and close() return.
WorkersEnd == stopping ~> \A w \in Workers : wpc[w] = "ended"

=============================================================================
