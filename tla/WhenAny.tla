------------------------------- MODULE WhenAny -------------------------------
(***************************************************************************)
(* whenAnyFor of src/std/concurrent/task.ml and the completion listeners   *)
(* of ThreadPoolJob (_watch, _unwatch, _signalCompletionLocked in          *)
(* src/std/concurrent/thread_pool.ml): a waiter registers one event with   *)
(* each of several jobs, sleeps on it, looks which job is done, removes    *)
(* its registrations and closes the event.                                 *)
(*                                                                         *)
(* A job's fields are only touched under its guard: one critical section   *)
(* is one step.  Disposing of a future that is waited for is excluded      *)
(* (docs/LANGUAGE_REFERENCE.md: job disposal must not race active users).  *)
(* Slots count from 1 here and from 0 in the code.                         *)
(***************************************************************************)
EXTENDS Integers, Sequences, FiniteSets

CONSTANTS
    Waiters,
    Jobs,        \* the jobs
    MaxFutures,  \* bound: futures of one call
    MaxWatches,  \* bound: registrations a job sees
    Nobody

ASSUME BoundsAssumption == MaxFutures \in Nat \ {0} /\ MaxWatches \in Nat
ASSUME WaitersAssumption == IsFiniteSet(Waiters) /\ Nobody \notin Waiters

VARIABLES
    done,      \* jobs in a terminal state
    listeners, \* per job: the events (of waiters) in registration order
    notice,    \* per waiter: its event is "set", "unset", or "closed"
    pc, i,     \* per waiter: where it is, and its loop counter
    futures,   \* per waiter: the array given to the call
    timed,     \* per waiter: milliseconds >= 0
    slots,     \* per waiter and future: the slot, or -1
    result     \* per waiter: the index found, -1, or Failed for an error

vars == <<done, listeners, notice, pc, i, futures, timed, slots, result>>

Failed == -2
Arrays == UNION {[1 .. n -> Jobs] : n \in 1 .. MaxFutures}

Init ==
    /\ done = {}
    /\ listeners = [j \in Jobs |-> <<>>]
    /\ notice = [w \in Waiters |-> "closed"]
    /\ pc = [w \in Waiters |-> "idle"]
    /\ i = [w \in Waiters |-> 1]
    /\ futures = [w \in Waiters |-> <<>>]
    /\ timed = [w \in Waiters |-> FALSE]
    /\ slots = [w \in Waiters |-> [n \in 1 .. MaxFutures |-> -1]]
    /\ result = [w \in Waiters |-> -1]

Count(w) == Len(futures[w])
Future(w) == futures[w][i[w]]

\* The next iteration of a loop over the futures, or what follows it.
Loop(w, again, after) ==
    /\ pc' = [pc EXCEPT ![w] = IF i[w] < Count(w) THEN again ELSE after]
    /\ i' = [i EXCEPT ![w] = IF @ < Count(w) THEN @ + 1 ELSE 1]

Leave(w, l) ==
    /\ pc' = [pc EXCEPT ![w] = l]
    /\ i' = [i EXCEPT ![w] = 1]

-----------------------------------------------------------------------------
(* whenAnyFor *)

\* The bound MaxWatches: room for the futures of every call under way and one more.
RoomToWatch ==
    \A j \in Jobs : Len(listeners[j]) + MaxFutures
        * (1 + Cardinality({v \in Waiters : pc[v] # "idle"})) <= MaxWatches

Call(w) ==
    /\ pc[w] = "idle"
    /\ RoomToWatch
    /\ Leave(w, "scan")
    /\ \E a \in Arrays : futures' = [futures EXCEPT ![w] = a]
    /\ \E b \in BOOLEAN : timed' = [timed EXCEPT ![w] = b]
    /\ result' = [result EXCEPT ![w] = -1]
    /\ UNCHANGED <<done, listeners, notice, slots>>

\* The first look; milliseconds = 0 returns -1 after it.
Scan(w) ==
    /\ pc[w] = "scan"
    /\ \/ /\ Future(w) \in done
          /\ result' = [result EXCEPT ![w] = i[w]]
          /\ Leave(w, "idle")
          /\ UNCHANGED notice
       \/ /\ Future(w) \notin done
          /\ Loop(w, "scan", "watch")
          /\ notice' = [notice EXCEPT ![w] = IF i[w] = Count(w) THEN "unset" ELSE @]
          /\ UNCHANGED result
       \/ /\ Future(w) \notin done /\ i[w] = Count(w) /\ timed[w]
          /\ Leave(w, "idle")
          /\ UNCHANGED <<notice, result>>
       \/ /\ Future(w) \notin done /\ i[w] = Count(w)      \* Event.new fails
          /\ result' = [result EXCEPT ![w] = Failed]
          /\ Leave(w, "idle")
          /\ UNCHANGED notice
    /\ UNCHANGED <<done, listeners, futures, timed, slots>>

\* Mutant of _watch: completion before the registration goes unnoticed.
WatchUnchecked(w) ==
    /\ pc[w] = "watch"
    /\ listeners' = [listeners EXCEPT ![Future(w)] = Append(@, w)]
    /\ slots' = [slots EXCEPT ![w][i[w]] = Len(listeners[Future(w)]) + 1]
    /\ Loop(w, "watch", "wait")
    /\ UNCHANGED <<done, futures, timed, result, notice>>

\* _watch: a job that is done sets the event at once, any other remembers it.
Watch(w) ==
    /\ pc[w] = "watch"
    /\ \/ /\ Future(w) \in done
          /\ notice' = [notice EXCEPT ![w] = "set"]
          /\ slots' = [slots EXCEPT ![w][i[w]] = -1]
          /\ UNCHANGED listeners
       \/ /\ Future(w) \notin done
          /\ listeners' = [listeners EXCEPT ![Future(w)] = Append(@, w)]
          /\ slots' = [slots EXCEPT ![w][i[w]] = Len(listeners[Future(w)]) + 1]
          /\ UNCHANGED notice
    /\ Loop(w, "watch", "wait")
    /\ UNCHANGED <<done, futures, timed, result>>

Wait(w) ==
    /\ pc[w] = "wait"
    /\ notice[w] = "set" \/ timed[w]
    /\ Leave(w, "rescan")
    /\ UNCHANGED <<done, listeners, notice, futures, timed, slots, result>>

\* Mutant: the index is read after the loop has moved on.
RescanNext(w) ==
    /\ pc[w] = "rescan"
    /\ \/ /\ Future(w) \in done
          /\ result' = [result EXCEPT ![w] = IF i[w] < Count(w) THEN i[w] + 1 ELSE i[w]]
          /\ Leave(w, "unwatch")
       \/ /\ Future(w) \notin done
          /\ Loop(w, "rescan", "unwatch")
          /\ UNCHANGED result
    /\ UNCHANGED <<done, listeners, notice, futures, timed, slots>>

Rescan(w) ==
    /\ pc[w] = "rescan"
    /\ \/ /\ Future(w) \in done
          /\ result' = [result EXCEPT ![w] = i[w]]
          /\ Leave(w, "unwatch")
       \/ /\ Future(w) \notin done
          /\ Loop(w, "rescan", "unwatch")
          /\ UNCHANGED result
    /\ UNCHANGED <<done, listeners, notice, futures, timed, slots>>

\* Mutant: only the registration with the job that was found is removed.
UnwatchFound(w) ==
    /\ pc[w] = "unwatch"
    /\ listeners' = [listeners EXCEPT ![Future(w)] =
                        IF slots[w][i[w]] \in DOMAIN @ /\ result[w] = i[w]
                        THEN [@ EXCEPT ![slots[w][i[w]]] = Nobody] ELSE @]
    /\ slots' = [slots EXCEPT ![w][i[w]] = -1]
    /\ Loop(w, "unwatch", "close")
    /\ UNCHANGED <<done, notice, futures, timed, result>>

\* _unwatch: the slot is emptied, unless a completion dropped all of them.
Unwatch(w) ==
    /\ pc[w] = "unwatch"
    /\ listeners' = [listeners EXCEPT ![Future(w)] =
                        IF slots[w][i[w]] \in DOMAIN @
                        THEN [@ EXCEPT ![slots[w][i[w]]] = Nobody] ELSE @]
    /\ slots' = [slots EXCEPT ![w][i[w]] = -1]
    /\ Loop(w, "unwatch", "close")
    /\ UNCHANGED <<done, notice, futures, timed, result>>

CloseNotice(w) ==
    /\ pc[w] = "close"
    /\ notice' = [notice EXCEPT ![w] = "closed"]
    /\ Leave(w, "idle")
    /\ UNCHANGED <<done, listeners, futures, timed, slots, result>>

-----------------------------------------------------------------------------
(* A job ends: _execute or cancel, with _signalCompletionLocked.            *)

Listening(j) == {w \in Waiters : \E k \in DOMAIN listeners[j] : listeners[j][k] = w}

\* Mutant: only the first listener is told.
CompleteFirst(j) ==
    /\ j \notin done
    /\ done' = done \cup {j}
    /\ notice' = [w \in Waiters |-> IF listeners[j] # <<>> /\ w = Head(listeners[j])
                                    THEN "set" ELSE notice[w]]
    /\ listeners' = [listeners EXCEPT ![j] = <<>>]
    /\ UNCHANGED <<pc, i, futures, timed, slots, result>>

Complete(j) ==
    /\ j \notin done
    /\ done' = done \cup {j}
    /\ notice' = [w \in Waiters |-> IF w \in Listening(j) /\ notice[w] # "closed"
                                    THEN "set" ELSE notice[w]]
    /\ listeners' = [listeners EXCEPT ![j] = <<>>]
    /\ UNCHANGED <<pc, i, futures, timed, slots, result>>

Steps(w) ==
    \/ Scan(w) \/ Watch(w) \/ Wait(w) \/ Rescan(w) \/ Unwatch(w) \/ CloseNotice(w)

Next ==
    \/ \E w \in Waiters : Call(w) \/ Steps(w)
    \/ \E j \in Jobs : Complete(j)

Spec == Init /\ [][Next]_vars

FairSpec == Spec /\ \A w \in Waiters : WF_vars(Steps(w))

-----------------------------------------------------------------------------
\* Types and the ranges of the two loops over the futures.
TypeOK ==
    /\ done \subseteq Jobs
    /\ listeners \in [Jobs -> Seq(Waiters \cup {Nobody})]
    /\ notice \in [Waiters -> {"set", "unset", "closed"}]
    /\ pc \in [Waiters -> {"idle", "scan", "watch", "wait", "rescan", "unwatch", "close"}]
    /\ futures \in [Waiters -> {<<>>} \cup Arrays]
    /\ i \in [Waiters -> 1 .. MaxFutures]
    /\ \A w \in Waiters : i[w] = 1 \/ i[w] <= Count(w)
    /\ timed \in [Waiters -> BOOLEAN]
    /\ slots \in [Waiters -> [1 .. MaxFutures -> {-1} \cup 1 .. MaxWatches]]
    /\ result \in [Waiters -> {-1, Failed} \cup 1 .. MaxFutures]

\* Every registration a job holds is one its owner still has the slot of, and the
\* owner's event is open: nobody sets an event after whenAnyFor closed it.
ListenersAreLive == TypeOK /\
    \A j \in Jobs : \A k \in DOMAIN listeners[j] : listeners[j][k] # Nobody =>
        LET w == listeners[j][k] IN
        /\ notice[w] # "closed"
        /\ \E n \in 1 .. Count(w) : futures[w][n] = j /\ slots[w][n] = k

\* No completion is missed: a waiter asleep with its event unset waits for jobs
\* that are all still to end, and each of them will set the event.
AsleepIsRegistered ==
    \A w \in Waiters : pc[w] = "wait" /\ notice[w] = "unset" =>
        \A n \in 1 .. Count(w) : futures[w][n] \notin done /\ w \in Listening(futures[w][n])

\* The index whenAnyFor returns is that of a finished job, and without a timeout it
\* never returns without one, whatever woke the waiter.
AnswerIsDone ==
    \A w \in Waiters : pc[w] = "idle" /\ futures[w] # <<>> /\ result[w] # Failed =>
        IF result[w] = -1 THEN timed[w] ELSE futures[w][result[w]] \in done

\* When one of the futures of a call has ended, the call returns.
WhenAnyReturns ==
    \A w \in Waiters :
        pc[w] # "idle" /\ (\E n \in 1 .. Count(w) : futures[w][n] \in done) ~> pc[w] = "idle"

=============================================================================
