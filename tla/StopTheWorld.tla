---------------------------- MODULE StopTheWorld ----------------------------
(***************************************************************************)
(* What the safepoint protocol promises the collector: at most one thread  *)
(* has stopped the world, it stops it only when nobody is mutating, and    *)
(* nobody starts to mutate before it resumes the world.                    *)
(***************************************************************************)
CONSTANTS Threads, Main, NoThread

VARIABLES
    mutators,  \* the threads that may read and write managed objects
    stopper    \* the thread for which the world is stopped

vars == <<mutators, stopper>>

Init == mutators = {Main} /\ stopper = NoThread

\* A thread leaves native code or a safepoint, or starts.
Enter(t) ==
    /\ stopper = NoThread
    /\ mutators' = mutators \cup {t}
    /\ UNCHANGED stopper

\* A thread parks, blocks in native code, exits or decides to collect.
Leave(t) ==
    /\ t \in mutators
    /\ mutators' = mutators \ {t}
    /\ UNCHANGED stopper

Stop(t) ==
    /\ stopper = NoThread
    /\ mutators = {}
    /\ stopper' = t
    /\ UNCHANGED mutators

Resume(t) ==
    /\ stopper = t
    /\ stopper' = NoThread
    /\ mutators' = {t}

Next == \E t \in Threads : Enter(t) \/ Leave(t) \/ Stop(t) \/ Resume(t)

Spec == Init /\ [][Next]_vars

=============================================================================
