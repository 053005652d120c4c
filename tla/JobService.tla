----------------------------- MODULE JobService ------------------------------
(* What a thread pool promises: a job is accepted or not, runs at most once, *)
(* ends as done or cancelled, and when the service has terminated none that  *)
(* was accepted is left.                                                     *)
CONSTANT Jobs

VARIABLES status, down, terminated

Init ==
    /\ status = [j \in Jobs |-> "none"]
    /\ down = FALSE
    /\ terminated = FALSE

Move(j, from, to) ==
    /\ status[j] = from
    /\ status' = [status EXCEPT ![j] = to]
    /\ UNCHANGED <<down, terminated>>

Accept(j) == ~down /\ Move(j, "none", "queued")
Run(j)    == Move(j, "queued", "running")
Cancel(j) == Move(j, "queued", "cancelled")
Finish(j) == Move(j, "running", "done")
Forget(j) == Move(j, "done", "none") \/ Move(j, "cancelled", "none")

\* No further job is accepted; waiting ones may be cancelled.
ShutDown ==
    /\ down' = TRUE
    /\ \E S \in SUBSET {j \in Jobs : status[j] = "queued"} :
          status' = [j \in Jobs |-> IF j \in S THEN "cancelled" ELSE status[j]]
    /\ UNCHANGED terminated

Terminate ==
    /\ down
    /\ \A j \in Jobs : status[j] \notin {"queued", "running"}
    /\ terminated' = TRUE
    /\ UNCHANGED <<status, down>>

Next ==
    \/ \E j \in Jobs : Accept(j) \/ Run(j) \/ Cancel(j) \/ Finish(j) \/ Forget(j)
    \/ ShutDown \/ Terminate

Spec == Init /\ [][Next]_<<status, down, terminated>>
=============================================================================
