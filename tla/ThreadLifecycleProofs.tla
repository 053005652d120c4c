------------------------ MODULE ThreadLifecycleProofs ------------------------
(***************************************************************************)
(* Proofs about ThreadLifecycle, for every finite set of callers, every    *)
(* bound on the timeouts and waits that may or may not fail.               *)
(***************************************************************************)
EXTENDS ThreadLifecycle, FiniteSetTheorems, TLAPS

\* Where a worker whose function has returned is.
Returned == {"final", "stopped", "retire", "exit", "epilogue", "ended"}

\* Instructions of Close once it has found the thread in a terminal state.
Closing == {"cl_load", "cl_take", "cl_enter", "cl_users", "cl_wait", "cl_close", "cl_closed",
            "cl_failed", "cl_waitfailed", "cl_restore", "cl_clear"}

\* Joins that have the handle pinned, and the instructions they are at.
PinPcs == {"jn_recheck", "jn_wait", "jn_unpin", "jn_lost"}
Pinned == {c \in Callers : pc[c] \in PinPcs}

\* The status is one the worker's progress allows.
StatusFits ==
  /\ worker = "none" => status \notin {"RUNNING", "COMPLETED"}
  /\ worker = "entry" => status \in {"STARTING", "RUNNING", "STOP_REQUESTED"}
  /\ worker \in {"take", "call", "final"} => status \in {"RUNNING", "STOP_REQUESTED"}
  /\ worker = "stopped" => status = "STOP_REQUESTED"
  /\ worker \in {"retire", "exit", "epilogue", "ended"} => status \in Terminal

\* ... and the one each caller has won or seen.
CallerFits(c) ==
  /\ pc[c] = "st_create" => worker = "none" /\ status \in {"STARTING", "STOP_REQUESTED"}
  /\ pc[c] = "st_run" => worker # "none"
  /\ pc[c] = "id_write" => status = "CONFIGURING"
  /\ pc[c] \in Closing => status \in Terminal
  /\ pc[c] \in {"cl_close", "cl_closed", "cl_failed"} => worker = "ended"
  /\ pc[c] = "cl_clear" => worker \in {"none", "ended"}

CallersFit == \A c \in Callers : CallerFits(c)

\* One caller at a time creates the thread, or writes its id.
OneClaim ==
  \A c, d \in Callers : pc[c] = pc[d] /\ pc[c] \in {"st_create", "id_write"} => c = d

\* The kernel handle is owned by the object's field or by one call.
OwnersOK ==
  /\ \A c, d \in HandleOwners : c = d
  /\ handle => HandleOwners = {}
  /\ osHandle = "open" <=> handle \/ HandleOwners # {}
  /\ osHandle = "none" <=> worker = "none"
  /\ osHandle = "closed" => worker = "ended"

\* A join waits on an open handle, and no closer gets past its pin.
PinsOK ==
  /\ users = Cardinality(Pinned)
  /\ \A c \in Callers : pc[c] = "jn_wait" =>
       osHandle = "open" /\ \A d \in Callers : pc[d] \notin {"cl_wait", "cl_close"}

\* What the worker returned is there until Close clears it, after the worker.
PayloadOK ==
  /\ worker \in Returned => result \/ payload = "cleared"
  /\ payload = "cleared" => worker \in {"none", "ended"} /\ status \in Terminal

\* A stopped world, an abandoned object and a recycled one.
HeapOK ==
  /\ gc = "stopped" => WorkerSafe /\ \A c \in Callers : CallerSafe(c)
  /\ \A c \in Callers : ~holds[c] => pc[c] = "idle"
  /\ freed => (\A c \in Callers : ~holds[c]) /\ worker \in {"none", "ended"} /\ osHandle # "open"

IInv ==
  /\ TypeOK /\ StatusFits /\ CallersFit /\ OneClaim /\ OwnersOK /\ PinsOK /\ PayloadOK /\ HeapOK
  /\ StopIsHonoured /\ JoinMeansDone
-----------------------------------------------------------------------------
LEMMA InitIInv == Init => IInv
PROOF
  <1> SUFFICES ASSUME Init PROVE IInv
    OBVIOUS
  <1>1. TypeOK
    <2>1. 0 \in Timeouts
      BY TimeoutAssumption DEF Timeouts
    <2> QED
      BY <2>1 DEF Init, TypeOK, Pcs, WorkerPcs, Answers, Statuses
  <1>2. StatusFits /\ CallersFit /\ OneClaim
    BY DEF Init, StatusFits, CallersFit, CallerFits, OneClaim, Closing
  <1>3. HandleOwners = {} /\ Pinned = {}
    BY DEF Init, HandleOwners, Pinned, PinPcs
  <1>4. OwnersOK /\ PinsOK
    BY <1>3, FS_EmptySet DEF Init, OwnersOK, PinsOK
  <1>5. PayloadOK /\ HeapOK /\ StopIsHonoured /\ JoinMeansDone
    BY DEF Init, PayloadOK, HeapOK, Returned, StopIsHonoured, JoinMeansDone
  <1> QED
    BY <1>1, <1>2, <1>4, <1>5 DEF IInv
-----------------------------------------------------------------------------
(* Types.                                                                  *)

\* The steps of a caller by the routine they belong to.
Starts(c) == StartClaim(c) \/ StartCreate(c) \/ StartFail(c) \/ StartPublish(c) \/ StartRun(c)
StopsOrIds(c) == StopRunning(c) \/ StopStarting(c) \/ SetIdClaim(c) \/ SetIdWrite(c)
Joins(c) ==
  \/ EnterNative(c, "jn_enter", "jn_status") \/ JoinStatus(c) \/ JoinLoad(c) \/ JoinPin(c)
  \/ JoinRecheck(c) \/ JoinWait(c) \/ JoinWaitFails(c) \/ JoinUnpin(c) \/ JoinReturn(c)
Closes(c) ==
  \/ CloseStatus(c) \/ CloseCancel(c) \/ CloseLoad(c) \/ CloseTake(c)
  \/ EnterNative(c, "cl_enter", "cl_users") \/ CloseUsers(c) \/ CloseWait(c) \/ CloseWaitFails(c)
  \/ CloseHandle(c) \/ CloseLeave(c) \/ CloseClear(c) \/ CloseRestore(c)

CallerStep(c) == CallerBegins(c) \/ Starts(c) \/ StopsOrIds(c) \/ Joins(c) \/ Closes(c)
Collector == Request \/ WorldStop \/ WorldResume \/ Reap

LEMMA NextCases ==
  ASSUME Next
  PROVE  (\E c \in Callers : CallerStep(c)) \/ WorkerSteps \/ Collector
  BY DEF Next, CallerStep, CallerSteps, WaitFails, Starts, StopsOrIds, Joins, Closes, Collector

\* A caller's step moves that caller only.
LEMMA OneMoves ==
  ASSUME TypeOK, NEW c \in Callers, CallerStep(c)
  PROVE  \E l \in Pcs : pc' = [pc EXCEPT ![c] = l]
PROOF
  <1> USE DEF TypeOK, Goto, Return, Pcs, NativePcs
  <1>1. CASE CallerBegins(c)
    BY <1>1 DEF CallerBegins, StartBegin, StopBegin, SetIdBegin, JoinBegin, CloseBegin, Drop, Begin
  <1>2. CASE Starts(c)
    BY <1>2 DEF Starts, StartClaim, StartCreate, StartFail, StartPublish, StartRun
  <1>3. CASE StopsOrIds(c)
    BY <1>3 DEF StopsOrIds, StopRunning, StopStarting, SetIdClaim, SetIdWrite
  <1>4. CASE Joins(c)
    BY <1>4 DEF Joins, EnterNative, JoinStatus, JoinLoad, JoinPin, JoinRecheck, JoinWait,
                JoinWaitFails, JoinUnpin, JoinReturn
  <1>5. CASE Closes(c)
    BY <1>5 DEF Closes, EnterNative, CloseStatus, CloseCancel, CloseLoad, CloseTake, CloseUsers,
                CloseWait, CloseWaitFails, CloseHandle, CloseLeave, CloseClear, CloseRestore
  <1> QED
    BY <1>1, <1>2, <1>3, <1>4, <1>5 DEF CallerStep

\* Everything but the count of the pins keeps its type.
LEMMA CallerTypes ==
  ASSUME TypeOK, NEW c \in Callers, CallerStep(c), users' \in Nat
  PROVE  TypeOK'
PROOF
  <1>1. pc' \in [Callers -> Pcs]
    BY OneMoves DEF TypeOK
  <1>2. timeout' \in [Callers -> Timeouts]
    <2>1. CASE JoinStatus(c)
      <3>1. timeout[c] # 0 /\ timeout[c] # Forever => timeout[c] - 1 \in Timeouts
        BY TimeoutAssumption DEF TypeOK, Timeouts, Forever
      <3> QED
        BY <2>1, <3>1 DEF JoinStatus, TypeOK
    <2>2. CASE JoinReturn(c)
      BY <2>2, TimeoutAssumption DEF JoinReturn, TypeOK, Timeouts
    <2>3. CASE CallerBegins(c)
      BY <2>3 DEF CallerBegins, StartBegin, StopBegin, SetIdBegin, JoinBegin, CloseBegin, Drop, local,
                  TypeOK
    <2>4. CASE Starts(c) \/ StopsOrIds(c) \/ Closes(c)
      BY <2>4 DEF Starts, StartClaim, StartCreate, StartFail, StartPublish, StartRun, StopsOrIds,
                  StopRunning, StopStarting, SetIdClaim, SetIdWrite, Closes, EnterNative, CloseStatus,
                  CloseCancel, CloseLoad, CloseTake, CloseUsers, CloseWait, CloseWaitFails,
                  CloseHandle, CloseLeave, CloseClear, CloseRestore, local, TypeOK
    <2>5. CASE \/ EnterNative(c, "jn_enter", "jn_status") \/ JoinLoad(c) \/ JoinPin(c)
               \/ JoinRecheck(c) \/ JoinWait(c) \/ JoinWaitFails(c) \/ JoinUnpin(c)
      BY <2>5 DEF EnterNative, JoinLoad, JoinPin, JoinRecheck, JoinWait, JoinWaitFails, JoinUnpin,
                  local, TypeOK
    <2> QED
      BY <2>1, <2>2, <2>3, <2>4, <2>5 DEF CallerStep, Joins
  <1> USE DEF Statuses, Terminal, Answers, Return, Begin, shared, local
  <1>3. CASE CallerBegins(c)
    <2>1. holds' \in [Callers -> BOOLEAN] /\ answer' \in [Callers -> Answers]
      BY <1>3 DEF CallerBegins, StartBegin, StopBegin, SetIdBegin, JoinBegin, CloseBegin, Drop, TypeOK
    <2>2. UNCHANGED <<shared, gc>>
      BY <1>3 DEF CallerBegins, StartBegin, StopBegin, SetIdBegin, JoinBegin, CloseBegin, Drop
    <2> QED
      BY <1>1, <1>2, <2>1, <2>2 DEF TypeOK
  <1>4. CASE Starts(c)
    <2> USE DEF Starts, StartClaim, StartCreate, StartFail, StartPublish, StartRun
    <2>1. answer' \in [Callers -> Answers]
      BY <1>4 DEF TypeOK
    <2>2. /\ status' \in Statuses /\ handle' \in BOOLEAN /\ worker' \in WorkerPcs
          /\ osHandle' \in {"none", "open", "closed"}
      BY <1>4 DEF TypeOK, WorkerPcs
    <2>3. UNCHANGED <<payload, result, freed, gc, holds>>
      BY <1>4
    <2> QED
      BY <1>1, <1>2, <2>1, <2>2, <2>3 DEF TypeOK
  <1>5. CASE StopsOrIds(c)
    BY <1>1, <1>2, <1>5 DEF StopsOrIds, StopRunning, StopStarting, SetIdClaim, SetIdWrite, TypeOK
  <1>6. CASE Joins(c)
    BY <1>1, <1>2, <1>6 DEF Joins, EnterNative, JoinStatus, JoinLoad, JoinPin, JoinRecheck, JoinWait,
                            JoinWaitFails, JoinUnpin, JoinReturn, TypeOK
  <1>7. CASE Closes(c)
    <2> USE DEF Closes, EnterNative, CloseStatus, CloseCancel, CloseLoad, CloseTake, CloseUsers,
                CloseWait, CloseWaitFails, CloseHandle, CloseLeave, CloseClear, CloseRestore
    <2>1. answer' \in [Callers -> Answers]
      BY <1>7 DEF TypeOK
    <2>2. /\ status' \in Statuses /\ handle' \in BOOLEAN /\ payload' \in {"set", "cleared"}
          /\ result' \in BOOLEAN /\ osHandle' \in {"none", "open", "closed"}
      BY <1>7 DEF TypeOK
    <2>3. UNCHANGED <<worker, freed, gc, holds>>
      BY <1>7
    <2> QED
      BY <1>1, <1>2, <2>1, <2>2, <2>3 DEF TypeOK
  <1> QED
    BY <1>3, <1>4, <1>5, <1>6, <1>7 DEF CallerStep
-----------------------------------------------------------------------------
(* Status.                                                                 *)

\* What a caller's step does to the status and the worker.
LEMMA CallerStatus ==
  ASSUME TypeOK, StatusFits, CallersFit, OneClaim, OwnersOK, NEW c \in Callers, CallerStep(c)
  PROVE  StatusFits' /\ CallersFit' /\ OneClaim'
PROOF
  <1>0. pc \in [Callers -> Pcs] /\ status \in Statuses /\ worker \in WorkerPcs
    BY DEF TypeOK
  <1> USE <1>0 DEF StatusFits, CallersFit, CallerFits, OneClaim, Closing, Terminal, Statuses,
                   Goto, Return, Begin, shared, local
  <1>1. status = "CREATED" => worker = "none"
    BY DEF WorkerPcs
  <1>2. CASE CallerBegins(c)
    BY <1>2 DEF CallerBegins, StartBegin, StopBegin, SetIdBegin, JoinBegin, CloseBegin, Drop
  <1>3. CASE StartClaim(c)
    BY <1>3, <1>1 DEF StartClaim
  <1>4. CASE StartFail(c)
    BY <1>4 DEF StartFail
  <1>5. CASE StartPublish(c)
    <2>1. worker # "none"
      BY <1>5 DEF StartPublish, OwnersOK, HandleOwners
    <2> QED
      BY <1>5, <2>1 DEF StartPublish
  <1>6. CASE StartRun(c)
    BY <1>6 DEF StartRun
  <1>7. CASE StartCreate(c)
    BY <1>7 DEF StartCreate
  <1>8. CASE StopsOrIds(c)
    BY <1>8 DEF StopsOrIds, StopRunning, StopStarting, SetIdClaim, SetIdWrite
  <1>9. CASE Joins(c)
    BY <1>9 DEF Joins, EnterNative, JoinStatus, JoinLoad, JoinPin, JoinRecheck, JoinWait,
                JoinWaitFails, JoinUnpin, JoinReturn
  <1>10. CASE Closes(c)
    <2>1. CASE CloseStatus(c)
      BY <2>1 DEF CloseStatus
    <2>2. CASE CloseCancel(c)
      BY <1>1, <2>2 DEF CloseCancel
    <2>3. CASE \/ CloseLoad(c) \/ CloseTake(c) \/ EnterNative(c, "cl_enter", "cl_users")
               \/ CloseUsers(c) \/ CloseWait(c) \/ CloseWaitFails(c)
      BY <2>3 DEF CloseLoad, CloseTake, EnterNative, CloseUsers, CloseWait, CloseWaitFails
    <2>4. CASE CloseHandle(c) \/ CloseLeave(c) \/ CloseClear(c) \/ CloseRestore(c)
      BY <2>4 DEF CloseHandle, CloseLeave, CloseClear, CloseRestore
    <2> QED
      BY <1>10, <2>1, <2>2, <2>3, <2>4 DEF Closes
  <1> QED
    BY <1>2, <1>3, <1>4, <1>5, <1>6, <1>7, <1>8, <1>9, <1>10 DEF CallerStep, Starts

\* The worker goes through its states in order, and settles the status once.
LEMMA WorkerStatus ==
  ASSUME TypeOK, StatusFits, CallersFit, OneClaim, WorkerSteps
  PROVE  TypeOK' /\ StatusFits' /\ CallersFit' /\ OneClaim'
PROOF
  <1> USE DEF WorkerSteps, WorkerEnter, WorkerCall, WorkerReturn, WorkerFinal, WorkerStopped, WorkerRetire,
              WorkerExit, WorkerEnd, Work, local, Statuses, Terminal
  <1>1. TypeOK'
    BY DEF TypeOK, WorkerPcs
  <1>2. StatusFits'
    BY DEF TypeOK, StatusFits
  <1>3. CallersFit'
    BY DEF TypeOK, StatusFits, CallersFit, CallerFits, Closing
  <1>4. OneClaim'
    BY DEF OneClaim
  <1> QED
    BY <1>1, <1>2, <1>3, <1>4

LEMMA CollectorStatus ==
  ASSUME TypeOK, StatusFits, CallersFit, OneClaim, Collector
  PROVE  TypeOK' /\ StatusFits' /\ CallersFit' /\ OneClaim'
PROOF
  <1> USE DEF Collector, Request, WorldStop, WorldResume, Reap, shared, local
  <1>1. TypeOK'
    BY DEF TypeOK
  <1>2. UNCHANGED <<pc, status, worker>>
    OBVIOUS
  <1> QED
    BY <1>1, <1>2 DEF StatusFits, CallersFit, CallerFits, OneClaim
-----------------------------------------------------------------------------
(* The kernel handle.                                                      *)

\* The instructions at which a call owns the handle.
OwnerPcs == {"st_publish", "cl_enter", "cl_users", "cl_wait", "cl_close", "cl_failed",
             "cl_waitfailed", "cl_restore"}

\* A step that neither opens, closes, gives nor takes the handle.
LEMMA OwnersKept ==
  ASSUME TypeOK, OwnersOK, NEW c \in Callers, NEW l, pc' = [pc EXCEPT ![c] = l],
         pc[c] \in OwnerPcs <=> l \in OwnerPcs, UNCHANGED <<handle, osHandle, worker>>
  PROVE  OwnersOK'
PROOF
  <1>1. HandleOwners' = HandleOwners
    BY DEF HandleOwners, OwnerPcs, TypeOK
  <1> QED
    BY <1>1 DEF OwnersOK

\* The owners after a step that gives or takes the handle.
LEMMA OwnersMove ==
  ASSUME TypeOK, NEW c \in Callers, NEW l, pc' = [pc EXCEPT ![c] = l]
  PROVE  /\ l \in OwnerPcs => HandleOwners' = HandleOwners \cup {c}
         /\ l \notin OwnerPcs => HandleOwners' = HandleOwners \ {c}
         /\ c \in HandleOwners <=> pc[c] \in OwnerPcs
  BY DEF HandleOwners, OwnerPcs, TypeOK

LEMMA CallerOwners ==
  ASSUME TypeOK, StatusFits, CallersFit, OneClaim, OwnersOK, NEW c \in Callers, CallerStep(c)
  PROVE  OwnersOK'
PROOF
  <1>0. pc \in [Callers -> Pcs]
    BY DEF TypeOK
  <1> USE DEF Goto, Return, Begin, shared, local
  <1>1. CASE CallerBegins(c) \/ StopsOrIds(c) \/ Joins(c)
    <2>1. UNCHANGED <<handle, osHandle, worker>>
      BY <1>1 DEF CallerBegins, StartBegin, StopBegin, SetIdBegin, JoinBegin, CloseBegin, Drop,
                  StopsOrIds, StopRunning, StopStarting, SetIdClaim, SetIdWrite, Joins, EnterNative,
                  JoinStatus, JoinLoad, JoinPin, JoinRecheck, JoinWait, JoinWaitFails, JoinUnpin,
                  JoinReturn
    <2>2. \E l \in Pcs : pc' = [pc EXCEPT ![c] = l] /\ pc[c] \notin OwnerPcs /\ l \notin OwnerPcs
      <3> USE DEF OwnerPcs, Pcs, NativePcs
      <3>1. CASE CallerBegins(c)
        BY <1>0, <3>1 DEF CallerBegins, StartBegin, StopBegin, SetIdBegin, JoinBegin, CloseBegin, Drop
      <3>2. CASE StopsOrIds(c)
        BY <1>0, <3>2 DEF StopsOrIds, StopRunning, StopStarting, SetIdClaim, SetIdWrite
      <3>3. CASE Joins(c)
        BY <1>0, <3>3 DEF Joins, EnterNative, JoinStatus, JoinLoad, JoinPin, JoinRecheck, JoinWait,
                          JoinWaitFails, JoinUnpin, JoinReturn
      <3> QED
        BY <1>1, <3>1, <3>2, <3>3
    <2> QED
      BY <2>1, <2>2, OwnersKept
  <1>2. CASE StartClaim(c) \/ StartFail(c) \/ StartRun(c)
    BY <1>0, <1>2, OwnersKept DEF StartClaim, StartFail, StartRun, OwnerPcs
  <1>3. CASE StartCreate(c)
    <2>1. worker = "none" /\ pc' = [pc EXCEPT ![c] = "st_publish"]
      BY <1>3 DEF StartCreate, CallersFit, CallerFits
    <2>2. HandleOwners = {} /\ ~ handle
      BY <2>1 DEF OwnersOK
    <2>3. HandleOwners' = {c}
      BY <2>1, <2>2, OwnersMove DEF OwnerPcs
    <2> QED
      BY <1>3, <2>2, <2>3 DEF StartCreate, OwnersOK
  <1>4. CASE StartPublish(c)
    <2>1. c \in HandleOwners /\ HandleOwners' = HandleOwners \ {c}
      BY <1>4, OwnersMove DEF StartPublish, OwnerPcs
    <2> QED
      BY <1>4, <2>1 DEF StartPublish, OwnersOK
  <1>5. CASE CloseTake(c)
    <2>1. CASE handle
      <3>1. HandleOwners = {} /\ pc' = [pc EXCEPT ![c] = "cl_enter"]
        BY <1>5, <2>1 DEF CloseTake, OwnersOK
      <3>2. HandleOwners' = {c}
        BY <3>1, OwnersMove DEF OwnerPcs
      <3> QED
        BY <1>5, <2>1, <3>2 DEF CloseTake, OwnersOK
    <2>2. CASE ~ handle
      BY <1>5, <2>2, OwnersKept DEF CloseTake, OwnerPcs
    <2> QED
      BY <2>1, <2>2
  <1>6. CASE CloseHandle(c)
    <2>1. c \in HandleOwners /\ worker = "ended"
      BY <1>6 DEF CloseHandle, HandleOwners, CallersFit, CallerFits
    <2>2. CASE pc' = [pc EXCEPT ![c] = "cl_closed"] /\ osHandle' = "closed"
      <3>1. HandleOwners' = HandleOwners \ {c}
        <4>1. "cl_closed" \notin OwnerPcs
          BY DEF OwnerPcs
        <4> QED
          BY <2>2, <4>1, OwnersMove
      <3>2. HandleOwners = {c} /\ ~ handle
        BY <2>1 DEF OwnersOK
      <3>3. HandleOwners' = {}
        BY <3>1, <3>2
      <3> QED
        BY <1>6, <2>1, <2>2, <3>2, <3>3 DEF CloseHandle, OwnersOK
    <2>3. CASE pc' = [pc EXCEPT ![c] = "cl_failed"] /\ UNCHANGED osHandle
      BY <1>6, <2>3, OwnersKept DEF CloseHandle, OwnerPcs
    <2> QED
      BY <1>6, <2>2, <2>3 DEF CloseHandle
  <1>7. CASE CloseRestore(c)
    <2>1. pc[c] = "cl_restore" /\ pc' = [pc EXCEPT ![c] = "idle"]
      BY <1>7 DEF CloseRestore
    <2>2. c \in HandleOwners
      BY <2>1 DEF HandleOwners
    <2>3. HandleOwners' = HandleOwners \ {c}
      <3>1. "idle" \notin OwnerPcs
        BY DEF OwnerPcs
      <3> QED
        BY <2>1, <3>1, OwnersMove
    <2> QED
      BY <1>7, <2>2, <2>3 DEF CloseRestore, OwnersOK
  <1>8. CASE \/ CloseStatus(c) \/ CloseCancel(c) \/ CloseLoad(c) \/ CloseClear(c) \/ CloseLeave(c)
    BY <1>0, <1>8, OwnersKept DEF CloseStatus, CloseCancel, CloseLoad, CloseClear, CloseLeave, OwnerPcs
  <1>9. CASE \/ EnterNative(c, "cl_enter", "cl_users") \/ CloseUsers(c) \/ CloseWait(c)
             \/ CloseWaitFails(c)
    BY <1>0, <1>9, OwnersKept DEF EnterNative, CloseUsers, CloseWait, CloseWaitFails, OwnerPcs
  <1> QED
    BY <1>1, <1>2, <1>3, <1>4, <1>5, <1>6, <1>7, <1>8, <1>9 DEF CallerStep, Starts, Closes

\* An abandoned object's handle is closed with it, after its worker.
LEMMA OtherOwners ==
  ASSUME TypeOK, OwnersOK, WorkerSteps \/ Collector
  PROVE  OwnersOK'
PROOF
  <1>1. UNCHANGED pc
    BY DEF WorkerSteps, WorkerEnter, WorkerCall, WorkerReturn, WorkerFinal, WorkerStopped, WorkerRetire,
           WorkerExit, WorkerEnd, Collector, Request, WorldStop, WorldResume, Reap
  <1>2. HandleOwners' = HandleOwners
    BY <1>1 DEF HandleOwners
  <1>3. CASE WorkerSteps
    <2>1. UNCHANGED <<handle, osHandle>> /\ worker \notin {"none", "ended"} /\ worker' # "none"
      BY <1>3 DEF WorkerSteps, WorkerEnter, WorkerCall, WorkerReturn, WorkerFinal, WorkerStopped,
                  WorkerRetire, WorkerExit, WorkerEnd, Work
    <2> QED
      BY <1>2, <2>1 DEF OwnersOK
  <1>4. CASE Request \/ WorldStop \/ WorldResume
    BY <1>2, <1>4 DEF Request, WorldStop, WorldResume, shared, OwnersOK
  <1>5. CASE Reap
    BY <1>2, <1>5 DEF Reap, ContextRooted, OwnersOK, TypeOK
  <1> QED
    BY <1>3, <1>4, <1>5 DEF Collector
-----------------------------------------------------------------------------
(* The pins.                                                               *)

LEMMA PinnedCounts ==
  ASSUME TypeOK, NEW c \in Callers, NEW l, pc' = [pc EXCEPT ![c] = l]
  PROVE  /\ Cardinality(Pinned) \in Nat /\ Cardinality(Pinned') \in Nat
         /\ pc[c] \in PinPcs => Cardinality(Pinned) >= 1
         /\ (pc[c] \in PinPcs <=> l \in PinPcs) => Cardinality(Pinned') = Cardinality(Pinned)
         /\ pc[c] \in PinPcs /\ l \notin PinPcs => Cardinality(Pinned') = Cardinality(Pinned) - 1
         /\ pc[c] \notin PinPcs /\ l \in PinPcs => Cardinality(Pinned') = Cardinality(Pinned) + 1
PROOF
  <1>1. IsFiniteSet(Pinned) /\ IsFiniteSet(Pinned')
    <2>1. Pinned \in SUBSET Callers /\ Pinned' \in SUBSET Callers
      BY DEF Pinned
    <2> QED
      BY <2>1, CallersAssumption, FS_Subset
  <1>2. Cardinality(Pinned) \in Nat /\ Cardinality(Pinned') \in Nat
    BY <1>1, FS_CardinalityType
  <1>3. Pinned' = IF l \in PinPcs THEN Pinned \cup {c} ELSE Pinned \ {c}
    BY DEF Pinned, TypeOK
  <1>4. c \in Pinned <=> pc[c] \in PinPcs
    BY DEF Pinned
  <1>5. pc[c] \in PinPcs => Cardinality(Pinned) # 0
    BY <1>1, <1>4, FS_EmptySet
  <1>6. CASE l \in PinPcs
    BY <1>1, <1>2, <1>3, <1>4, <1>5, <1>6, FS_AddElement
  <1>7. CASE l \notin PinPcs
    BY <1>1, <1>2, <1>3, <1>4, <1>5, <1>7, FS_RemoveElement
  <1> QED
    BY <1>6, <1>7

\* The steps that pin or unpin nothing.
LEMMA PinsCounted ==
  ASSUME TypeOK, PinsOK, NEW c \in Callers, CallerStep(c)
  PROVE  users' \in Nat /\ users' = Cardinality(Pinned')
PROOF
  <1>0. pc \in [Callers -> Pcs] /\ users = Cardinality(Pinned)
    BY DEF TypeOK, PinsOK
  <1> USE DEF Goto, Return, Begin, shared, local
  <1>1. CASE JoinPin(c)
    <2>1. pc[c] \notin PinPcs /\ "jn_recheck" \in PinPcs
      BY <1>1 DEF JoinPin, PinPcs
    <2> QED
      BY <1>0, <1>1, <2>1, PinnedCounts DEF JoinPin
  <1>2. CASE JoinUnpin(c)
    <2>1. pc[c] \in PinPcs /\ users' = users - 1
      BY <1>2 DEF JoinUnpin, PinPcs
    <2>2. PICK l \in {"jn_leave", "jn_false"} : pc' = [pc EXCEPT ![c] = l]
      BY <1>2 DEF JoinUnpin
    <2>3. l \notin PinPcs
      BY <2>2 DEF PinPcs
    <2> QED
      BY <1>0, <2>1, <2>2, <2>3, PinnedCounts
  <1>3. ASSUME UNCHANGED users, \E l \in Pcs : pc' = [pc EXCEPT ![c] = l] /\ (pc[c] \in PinPcs <=> l \in PinPcs)
        PROVE  users' \in Nat /\ users' = Cardinality(Pinned')
    BY <1>0, <1>3, PinnedCounts
  <1> USE DEF PinPcs, Pcs, NativePcs
  <1>4. CASE CallerBegins(c)
    BY <1>0, <1>3, <1>4 DEF CallerBegins, StartBegin, StopBegin, SetIdBegin, JoinBegin, CloseBegin, Drop
  <1>5. CASE Starts(c)
    BY <1>0, <1>3, <1>5 DEF Starts, StartClaim, StartCreate, StartFail, StartPublish, StartRun
  <1>6. CASE StopsOrIds(c)
    BY <1>0, <1>3, <1>6 DEF StopsOrIds, StopRunning, StopStarting, SetIdClaim, SetIdWrite
  <1>7. CASE \/ EnterNative(c, "jn_enter", "jn_status") \/ JoinStatus(c) \/ JoinLoad(c)
             \/ JoinRecheck(c) \/ JoinWait(c) \/ JoinWaitFails(c) \/ JoinReturn(c)
    BY <1>0, <1>3, <1>7 DEF EnterNative, JoinStatus, JoinLoad, JoinRecheck, JoinWait, JoinWaitFails,
                            JoinReturn
  <1>8. CASE Closes(c)
    BY <1>0, <1>3, <1>8 DEF Closes, EnterNative, CloseStatus, CloseCancel, CloseLoad, CloseTake,
       CloseUsers, CloseWait, CloseWaitFails, CloseHandle, CloseLeave, CloseClear, CloseRestore
  <1> QED
    BY <1>1, <1>2, <1>4, <1>5, <1>6, <1>7, <1>8 DEF CallerStep, Joins

\* Nobody is pinned when the count is zero.
LEMMA NoPins ==
  ASSUME PinsOK, users = 0, NEW c \in Callers
  PROVE  pc[c] # "jn_wait"
PROOF
  <1>1. IsFiniteSet(Pinned)
    <2>1. Pinned \in SUBSET Callers
      BY DEF Pinned
    <2> QED
      BY <2>1, CallersAssumption, FS_Subset
  <1>2. Pinned = {}
    BY <1>1, FS_EmptySet DEF PinsOK
  <1> QED
    BY <1>2 DEF Pinned, PinPcs

Waiting == \A c \in Callers : pc[c] = "jn_wait" =>
             osHandle = "open" /\ \A d \in Callers : pc[d] \notin {"cl_wait", "cl_close"}

LEMMA CallerPins ==
  ASSUME TypeOK, OwnersOK, PinsOK, NEW c \in Callers, CallerStep(c)
  PROVE  PinsOK'
PROOF
  <1>0. pc \in [Callers -> Pcs] /\ Waiting
    BY DEF TypeOK, PinsOK, Waiting
  <1> USE <1>0 DEF Goto, Return, Begin, shared, local, Waiting
  <1>1. CASE JoinRecheck(c)
    <2>1. handle => osHandle = "open" /\ \A d \in Callers : pc[d] \notin {"cl_wait", "cl_close"}
      BY DEF OwnersOK, HandleOwners
    <2> QED
      BY <1>1, <2>1, PinsCounted DEF JoinRecheck, PinsOK, CallerStep, Joins
  <1>2. CASE CloseUsers(c)
    <2>1. \A d \in Callers : pc[d] # "jn_wait"
      BY <1>2, NoPins DEF CloseUsers
    <2>2. Waiting'
      BY <1>2, <2>1 DEF CloseUsers
    <2> QED
      BY <2>2, PinsCounted DEF PinsOK
  <1>3. CASE CallerBegins(c)
    <2>1. Waiting'
      BY <1>3 DEF CallerBegins, StartBegin, StopBegin, SetIdBegin, JoinBegin, CloseBegin, Drop
    <2> QED
      BY <2>1, PinsCounted DEF PinsOK
  <1>4. CASE Starts(c) \/ StopsOrIds(c)
    <2>1. Waiting'
      BY <1>4 DEF Starts, StartClaim, StartCreate, StartFail, StartPublish, StartRun, StopsOrIds,
                  StopRunning, StopStarting, SetIdClaim, SetIdWrite
    <2> QED
      BY <2>1, PinsCounted DEF PinsOK
  <1>5. CASE \/ EnterNative(c, "jn_enter", "jn_status") \/ JoinStatus(c) \/ JoinLoad(c) \/ JoinPin(c)
             \/ JoinWait(c) \/ JoinWaitFails(c) \/ JoinUnpin(c) \/ JoinReturn(c)
    <2>1. Waiting'
      BY <1>5 DEF EnterNative, JoinStatus, JoinLoad, JoinPin, JoinWait, JoinWaitFails, JoinUnpin,
                  JoinReturn
    <2> QED
      BY <2>1, PinsCounted DEF PinsOK
  <1>6. CASE CloseWait(c) \/ CloseHandle(c) \/ CloseWaitFails(c)
    <2>1. Waiting'
      BY <1>6 DEF CloseWait, CloseHandle, CloseWaitFails
    <2> QED
      BY <2>1, PinsCounted DEF PinsOK
  <1>7. CASE \/ CloseStatus(c) \/ CloseCancel(c) \/ CloseLoad(c) \/ CloseTake(c)
             \/ EnterNative(c, "cl_enter", "cl_users") \/ CloseLeave(c) \/ CloseClear(c)
             \/ CloseRestore(c)
    <2>1. Waiting'
      BY <1>7 DEF EnterNative, CloseStatus, CloseCancel, CloseLoad, CloseTake, CloseLeave, CloseClear,
                  CloseRestore
    <2> QED
      BY <2>1, PinsCounted DEF PinsOK
  <1> QED
    BY <1>1, <1>2, <1>3, <1>4, <1>5, <1>6, <1>7 DEF CallerStep, Joins, Closes

LEMMA OtherPins ==
  ASSUME PinsOK, HeapOK, WorkerSteps \/ Collector
  PROVE  PinsOK'
PROOF
  <1>1. CASE WorkerSteps
    BY <1>1 DEF WorkerSteps, WorkerEnter, WorkerCall, WorkerReturn, WorkerFinal, WorkerStopped,
                WorkerRetire, WorkerExit, WorkerEnd, PinsOK, Pinned
  <1>2. CASE Request \/ WorldStop \/ WorldResume
    BY <1>2 DEF Request, WorldStop, WorldResume, shared, PinsOK, Pinned
  <1>3. CASE Reap
    <2>1. \A c \in Callers : pc[c] = "idle"
      BY <1>3 DEF Reap, HeapOK
    <2> QED
      BY <1>3, <2>1 DEF Reap, PinsOK, Pinned
  <1> QED
    BY <1>1, <1>2, <1>3 DEF Collector
-----------------------------------------------------------------------------
(* Payload and answers.                                                    *)

\* A terminal status is final, and no caller undoes an accepted stop.
LEMMA StatusMoves ==
  ASSUME StatusFits, CallersFit, (\E c \in Callers : CallerStep(c)) \/ WorkerSteps \/ Collector
  PROVE  /\ status \in Terminal => status' \in Terminal
         /\ status \in {"STOP_REQUESTED", "STOPPED", "FAILED"} =>
              status' \in {"STOP_REQUESTED", "STOPPED", "FAILED"}
PROOF
  <1> USE DEF Terminal, StatusFits, CallersFit, CallerFits, Goto, Return, Begin, shared
  <1>1. ASSUME NEW c \in Callers, CallerBegins(c) \/ Joins(c) PROVE UNCHANGED status
    BY <1>1 DEF CallerBegins, StartBegin, StopBegin, SetIdBegin, JoinBegin, CloseBegin, Drop, Joins,
                EnterNative, JoinStatus, JoinLoad, JoinPin, JoinRecheck, JoinWait, JoinWaitFails,
                JoinUnpin, JoinReturn
  <1>2. ASSUME NEW c \in Callers, Starts(c)
        PROVE  \/ UNCHANGED status \/ status' = "FAILED"
               \/ status = "CREATED" \/ status = "STARTING"
    BY <1>2 DEF Starts, StartClaim, StartCreate, StartFail, StartPublish, StartRun
  <1>3. ASSUME NEW c \in Callers, StopsOrIds(c)
        PROVE  UNCHANGED status \/ status \in {"RUNNING", "STARTING", "CREATED", "CONFIGURING"}
    BY <1>3 DEF StopsOrIds, StopRunning, StopStarting, SetIdClaim, SetIdWrite
  <1>4. ASSUME NEW c \in Callers, Closes(c) PROVE UNCHANGED status \/ status = "CREATED"
    BY <1>4 DEF Closes, EnterNative, CloseStatus, CloseCancel, CloseLoad, CloseTake, CloseUsers,
                CloseWait, CloseWaitFails, CloseHandle, CloseLeave, CloseClear, CloseRestore
  <1>5. WorkerSteps => UNCHANGED status \/ status = "RUNNING" \/ status' = "STOPPED"
    BY DEF WorkerSteps, WorkerEnter, WorkerCall, WorkerReturn, WorkerFinal, WorkerStopped, WorkerRetire,
           WorkerExit, WorkerEnd
  <1>6. Collector => UNCHANGED status
    BY DEF Collector, Request, WorldStop, WorldResume, Reap
  <1> QED
    BY <1>1, <1>2, <1>3, <1>4, <1>5, <1>6 DEF CallerStep

LEMMA CallerPayload ==
  ASSUME TypeOK, StatusFits, CallersFit, PayloadOK, NEW c \in Callers, CallerStep(c)
  PROVE  PayloadOK'
PROOF
  <1>0. status \in Terminal => status' \in Terminal
    BY StatusMoves
  <1>1. CASE CloseClear(c)
    <2>1. worker \in {"none", "ended"} /\ status \in Terminal
      BY <1>1 DEF CloseClear, CallersFit, CallerFits, Closing
    <2> QED
      BY <1>1, <2>1 DEF CloseClear, PayloadOK
  <1>2. CASE StartCreate(c)
    <2>1. status \notin Terminal
      BY <1>2 DEF StartCreate, CallersFit, CallerFits, Terminal
    <2> QED
      BY <1>2, <2>1 DEF StartCreate, PayloadOK, Returned
  <1>3. ASSUME UNCHANGED <<worker, result, payload>> PROVE PayloadOK'
    BY <1>0, <1>3 DEF PayloadOK
  <1> USE DEF shared
  <1>4. CASE CallerBegins(c) \/ Joins(c)
    BY <1>3, <1>4 DEF CallerBegins, StartBegin, StopBegin, SetIdBegin, JoinBegin, CloseBegin, Drop, Joins,
                EnterNative, JoinStatus, JoinLoad, JoinPin, JoinRecheck, JoinWait, JoinWaitFails,
                JoinUnpin, JoinReturn
  <1>5. CASE \/ StartClaim(c) \/ StartFail(c) \/ StartPublish(c) \/ StartRun(c) \/ StopsOrIds(c)
    BY <1>3, <1>5 DEF StartClaim, StartFail, StartPublish, StartRun, StopsOrIds, StopRunning,
                      StopStarting, SetIdClaim, SetIdWrite
  <1>6. CASE \/ CloseStatus(c) \/ CloseCancel(c) \/ CloseLoad(c) \/ CloseTake(c)
             \/ EnterNative(c, "cl_enter", "cl_users") \/ CloseUsers(c) \/ CloseWait(c)
             \/ CloseWaitFails(c) \/ CloseHandle(c) \/ CloseLeave(c) \/ CloseRestore(c)
    BY <1>3, <1>6 DEF EnterNative, CloseStatus, CloseCancel, CloseLoad, CloseTake, CloseUsers,
                CloseWait, CloseWaitFails, CloseHandle, CloseLeave, CloseRestore
  <1> QED
    BY <1>1, <1>2, <1>4, <1>5, <1>6 DEF CallerStep, Starts, Closes

LEMMA OtherPayload ==
  ASSUME StatusFits, CallersFit, PayloadOK, WorkerSteps \/ Collector
  PROVE  PayloadOK'
PROOF
  <1>0. status \in Terminal => status' \in Terminal
    BY StatusMoves
  <1>1. CASE WorkerSteps
    BY <1>0, <1>1 DEF WorkerSteps, WorkerEnter, WorkerCall, WorkerReturn, WorkerFinal, WorkerStopped,
                      WorkerRetire, WorkerExit, WorkerEnd, Work, PayloadOK, Returned
  <1>2. CASE Collector
    BY <1>0, <1>2 DEF Collector, Request, WorldStop, WorldResume, Reap, shared, PayloadOK
  <1> QED
    BY <1>1, <1>2

\* Nobody gets a new answer "true" from Stop, or from Join, but by the steps that decide it.
LEMMA NewAnswers ==
  ASSUME TypeOK, NEW c \in Callers, CallerStep(c), NEW d \in Callers
  PROVE  /\ answer'[d] = "stop_true" /\ answer[d] # "stop_true" => status' = "STOP_REQUESTED"
         /\ answer'[d] = "join_true" /\ answer[d] # "join_true" => worker = "ended"
PROOF
  <1>0. answer \in [Callers -> Answers]
    BY DEF TypeOK
  <1> USE <1>0 DEF Goto, Return, Begin, shared, local
  <1>1. CASE CallerBegins(c)
    BY <1>1 DEF CallerBegins, StartBegin, StopBegin, SetIdBegin, JoinBegin, CloseBegin, Drop
  <1>2. CASE Starts(c)
    BY <1>2 DEF Starts, StartClaim, StartCreate, StartFail, StartPublish, StartRun
  <1>3. CASE StopsOrIds(c)
    BY <1>3 DEF StopsOrIds, StopRunning, StopStarting, SetIdClaim, SetIdWrite
  <1>4. CASE Joins(c)
    BY <1>4 DEF Joins, EnterNative, JoinStatus, JoinLoad, JoinPin, JoinRecheck, JoinWait,
                JoinWaitFails, JoinUnpin, JoinReturn
  <1>5. CASE Closes(c)
    BY <1>5 DEF Closes, EnterNative, CloseStatus, CloseCancel, CloseLoad, CloseTake, CloseUsers,
                CloseWait, CloseWaitFails, CloseHandle, CloseLeave, CloseClear, CloseRestore
  <1> QED
    BY <1>1, <1>2, <1>3, <1>4, <1>5 DEF CallerStep

\* A worker that has ended stays ended.
LEMMA EndedStays ==
  ASSUME CallersFit, (\E c \in Callers : CallerStep(c)) \/ WorkerSteps \/ Collector, worker = "ended"
  PROVE  worker' = "ended"
PROOF
  <1> USE DEF shared
  <1>1. ASSUME NEW c \in Callers, CallerBegins(c) \/ StopsOrIds(c) \/ Joins(c) PROVE UNCHANGED worker
    BY <1>1 DEF CallerBegins, StartBegin, StopBegin, SetIdBegin, JoinBegin, CloseBegin, Drop,
       StopsOrIds, StopRunning, StopStarting, SetIdClaim, SetIdWrite, Joins, EnterNative, JoinStatus,
       JoinLoad, JoinPin, JoinRecheck, JoinWait, JoinWaitFails, JoinUnpin, JoinReturn
  <1>2. ASSUME NEW c \in Callers, Closes(c) PROVE UNCHANGED worker
    BY <1>2 DEF Closes, EnterNative, CloseStatus, CloseCancel, CloseLoad, CloseTake, CloseUsers,
                CloseWait, CloseWaitFails, CloseHandle, CloseLeave, CloseClear, CloseRestore
  <1>3. ASSUME NEW c \in Callers, Starts(c) PROVE UNCHANGED worker
    BY <1>3 DEF Starts, StartClaim, StartCreate, StartFail, StartPublish, StartRun, CallersFit, CallerFits
  <1>4. ~ WorkerSteps
    BY DEF WorkerSteps, WorkerEnter, WorkerCall, WorkerReturn, WorkerFinal, WorkerStopped, WorkerRetire,
           WorkerExit, WorkerEnd, Work
  <1>5. Collector => UNCHANGED worker
    BY DEF Collector, Request, WorldStop, WorldResume, Reap
  <1> QED
    BY <1>1, <1>2, <1>3, <1>4, <1>5 DEF CallerStep

LEMMA StepAnswers ==
  ASSUME TypeOK, StatusFits, StatusFits', CallersFit, PayloadOK, PayloadOK', StopIsHonoured,
         JoinMeansDone, (\E c \in Callers : CallerStep(c)) \/ WorkerSteps \/ Collector
  PROVE  StopIsHonoured' /\ JoinMeansDone'
PROOF
  <1>1. ASSUME NEW d \in Callers
        PROVE  /\ answer'[d] = "stop_true" /\ answer[d] # "stop_true" => status' = "STOP_REQUESTED"
               /\ answer'[d] = "join_true" /\ answer[d] # "join_true" => worker = "ended"
    <2>1. (\E c \in Callers : CallerStep(c)) \/ UNCHANGED answer
      BY DEF WorkerSteps, WorkerEnter, WorkerCall, WorkerReturn, WorkerFinal, WorkerStopped,
             WorkerRetire, WorkerExit, WorkerEnd, Collector, Request, WorldStop, WorldResume, Reap
    <2> QED
      BY <2>1, NewAnswers
  <1>2. StopIsHonoured'
    BY <1>1, StatusMoves DEF StopIsHonoured
  <1>3. worker = "ended" => worker' = "ended"
    BY EndedStays
  <1>4. worker' = "ended" => status' \in Terminal /\ (result' \/ payload' = "cleared")
    BY DEF StatusFits, PayloadOK, Returned
  <1> QED
    BY <1>1, <1>2, <1>3, <1>4 DEF JoinMeansDone
-----------------------------------------------------------------------------
(* The collector.                                                          *)

\* Nobody leaves the states a stopped world allows.
LEMMA SafeStays ==
  ASSUME TypeOK, NEW c \in Callers, CallerStep(c), gc = "stopped", CallerSafe(c)
  PROVE  UNCHANGED worker /\ CallerSafe(c)'
PROOF
  <1>0. pc \in [Callers -> Pcs] /\ holds \in [Callers -> BOOLEAN]
    BY DEF TypeOK
  <1>1. PICK l \in Pcs : pc' = [pc EXCEPT ![c] = l]
    BY OneMoves
  <1>2. ~ Starts(c) /\ ~ StopsOrIds(c)
    BY DEF CallerSafe, NativePcs, Starts, StartClaim, StartCreate, StartFail, StartPublish, StartRun,
           StopsOrIds, StopRunning, StopStarting, SetIdClaim, SetIdWrite
  <1> USE <1>0 DEF CallerSafe, NativePcs, Goto, Return, Begin, shared, local
  <1>3. CASE CallerBegins(c)
    BY <1>3 DEF CallerBegins, StartBegin, StopBegin, SetIdBegin, JoinBegin, CloseBegin, Drop
  <1>4. CASE Joins(c)
    BY <1>4 DEF Joins, EnterNative, JoinStatus, JoinLoad, JoinPin, JoinRecheck, JoinWait,
                JoinWaitFails, JoinUnpin, JoinReturn
  <1>5. CASE Closes(c)
    BY <1>5 DEF Closes, EnterNative, CloseStatus, CloseCancel, CloseLoad, CloseTake, CloseUsers,
                CloseWait, CloseWaitFails, CloseHandle, CloseLeave, CloseClear, CloseRestore
  <1> QED
    BY <1>2, <1>3, <1>4, <1>5 DEF CallerStep

\* A caller that is doing something has the object, and drops it only between operations.
LEMMA Holding ==
  ASSUME TypeOK, NEW c \in Callers, CallerStep(c), ~holds[c] => pc[c] = "idle"
  PROVE  /\ holds[c] /\ UNCHANGED <<freed, gc>>
         /\ \A d \in Callers : ~holds'[d] => ~holds[d] \/ (d = c /\ pc'[d] = "idle")
PROOF
  <1>0. pc \in [Callers -> Pcs] /\ holds \in [Callers -> BOOLEAN]
    BY DEF TypeOK
  <1> USE <1>0 DEF Begin, shared, local
  <1>1. CASE CallerBegins(c)
    BY <1>1 DEF CallerBegins, StartBegin, StopBegin, SetIdBegin, JoinBegin, CloseBegin, Drop
  <1>2. CASE Starts(c) \/ StopsOrIds(c)
    BY <1>2 DEF Starts, StartClaim, StartCreate, StartFail, StartPublish, StartRun,
                StopsOrIds, StopRunning, StopStarting, SetIdClaim, SetIdWrite
  <1>3. CASE Joins(c)
    BY <1>3 DEF Joins, EnterNative, JoinStatus, JoinLoad, JoinPin, JoinRecheck, JoinWait,
                JoinWaitFails, JoinUnpin, JoinReturn
  <1>4. CASE Closes(c)
    BY <1>4 DEF Closes, EnterNative, CloseStatus, CloseCancel, CloseLoad, CloseTake, CloseUsers,
                CloseWait, CloseWaitFails, CloseHandle, CloseLeave, CloseClear, CloseRestore
  <1> QED
    BY <1>1, <1>2, <1>3, <1>4 DEF CallerStep

LEMMA CallerHeap ==
  ASSUME TypeOK, HeapOK, NEW c \in Callers, CallerStep(c)
  PROVE  HeapOK'
PROOF
  <1>1. /\ holds[c] /\ UNCHANGED <<freed, gc>>
        /\ \A d \in Callers : ~holds'[d] => ~holds[d] \/ (d = c /\ pc'[d] = "idle")
    BY Holding DEF HeapOK
  <1>2. \A d \in Callers : d # c => pc'[d] = pc[d]
    BY OneMoves DEF TypeOK
  <1>3. ~ freed'
    BY <1>1 DEF HeapOK
  <1>4. \A d \in Callers : ~holds'[d] => pc'[d] = "idle"
    BY <1>1, <1>2 DEF HeapOK
  <1>5. ASSUME gc' = "stopped" PROVE WorkerSafe' /\ \A d \in Callers : CallerSafe(d)'
    <2>1. UNCHANGED worker /\ CallerSafe(c)'
      BY <1>1, <1>5, SafeStays DEF HeapOK
    <2>2. WorkerSafe'
      BY <1>1, <1>5, <2>1 DEF HeapOK, WorkerSafe, WorkerActive
    <2>3. \A d \in Callers : d # c => CallerSafe(d)'
      BY <1>1, <1>2, <1>5 DEF HeapOK, CallerSafe
    <2> QED
      BY <2>1, <2>2, <2>3
  <1> QED
    BY <1>3, <1>4, <1>5 DEF HeapOK

LEMMA WorkerHeap ==
  ASSUME HeapOK, WorkerSteps
  PROVE  HeapOK'
PROOF
  <1>1. UNCHANGED <<freed, gc, pc, holds, osHandle>>
    BY DEF WorkerSteps, WorkerEnter, WorkerCall, WorkerReturn, WorkerFinal, WorkerStopped,
           WorkerRetire, WorkerExit, WorkerEnd, local
  <1>2. worker \notin {"none", "ended"}
    BY DEF WorkerSteps, WorkerEnter, WorkerCall, WorkerReturn, WorkerFinal, WorkerStopped,
           WorkerRetire, WorkerExit, WorkerEnd, Work
  <1>3. gc = "stopped" => WorkerSafe'
    BY DEF HeapOK, WorkerSafe, WorkerActive, WorkerSteps, WorkerEnter, WorkerCall, WorkerReturn,
           WorkerFinal, WorkerStopped, WorkerRetire, WorkerExit, WorkerEnd, Work
  <1> QED
    BY <1>1, <1>2, <1>3 DEF HeapOK, CallerSafe

\* The collector finds an object abandoned only when no worker runs, and leaves no handle.
LEMMA CollectorHeap ==
  ASSUME TypeOK, OwnersOK, HeapOK, Collector
  PROVE  HeapOK'
PROOF
  <1>1. CASE Request \/ WorldStop \/ WorldResume
    BY <1>1 DEF Request, WorldStop, WorldResume, shared, local, HeapOK, CallerSafe, WorkerSafe, WorkerActive
  <1>2. CASE Reap
    <2>1. HandleOwners = {}
      BY <1>2 DEF Reap, HeapOK, HandleOwners
    <2>2. osHandle = "open" <=> handle
      BY <2>1 DEF OwnersOK
    <2>3. worker \in {"none", "ended"}
      <3>1. ~ WorkerActive /\ (handle => worker = "ended")
        BY <1>2 DEF Reap, ContextRooted
      <3>2. worker \in {"none", "entry", "epilogue", "ended"}
        BY <3>1 DEF TypeOK, WorkerPcs, WorkerActive
      <3>3. worker \in {"entry", "epilogue"} => osHandle = "open"
        BY DEF OwnersOK, TypeOK
      <3> QED
        BY <2>2, <3>1, <3>2, <3>3
    <2>4. osHandle' # "open"
      BY <1>2, <2>2 DEF Reap
    <2>5. UNCHANGED <<worker, gc, pc, holds>> /\ \A c \in Callers : ~holds[c]
      BY <1>2 DEF Reap, local
    <2> QED
      BY <2>3, <2>4, <2>5 DEF HeapOK, CallerSafe, WorkerSafe, WorkerActive
  <1> QED
    BY <1>1, <1>2 DEF Collector
-----------------------------------------------------------------------------
LEMMA StepIInv == IInv /\ [Next]_vars => IInv'
PROOF
  <1> SUFFICES ASSUME IInv, [Next]_vars PROVE IInv'
    OBVIOUS
  <1> USE DEF IInv
  <1>1. ASSUME NEW c \in Callers, CallerStep(c) PROVE IInv'
    <2>1. TypeOK' /\ PinsOK'
      BY <1>1, PinsCounted, CallerTypes, CallerPins
    <2>2. StatusFits' /\ CallersFit' /\ OneClaim' /\ OwnersOK'
      BY <1>1, CallerStatus, CallerOwners
    <2>3. PayloadOK' /\ HeapOK'
      BY <1>1, CallerPayload, CallerHeap
    <2> QED
      BY <1>1, <2>1, <2>2, <2>3, StepAnswers
  <1>2. CASE WorkerSteps \/ Collector
    <2>1. TypeOK' /\ StatusFits' /\ CallersFit' /\ OneClaim'
      BY <1>2, WorkerStatus, CollectorStatus
    <2>2. OwnersOK' /\ PinsOK' /\ PayloadOK' /\ HeapOK'
      BY <1>2, OtherOwners, OtherPins, OtherPayload, WorkerHeap, CollectorHeap
    <2> QED
      BY <1>2, <2>1, <2>2, StepAnswers
  <1>3. CASE UNCHANGED vars
    <2>1. HandleOwners' = HandleOwners /\ Pinned' = Pinned
      BY <1>3 DEF vars, HandleOwners, Pinned
    <2>2. TypeOK' /\ StatusFits' /\ CallersFit' /\ OneClaim'
      BY <1>3 DEF vars, TypeOK, StatusFits, CallersFit, CallerFits, OneClaim
    <2>3. OwnersOK' /\ PinsOK' /\ PayloadOK' /\ HeapOK'
      BY <1>3, <2>1 DEF vars, OwnersOK, PinsOK, PayloadOK, HeapOK, WorkerSafe, WorkerActive, CallerSafe
    <2>4. StopIsHonoured' /\ JoinMeansDone'
      BY <1>3 DEF vars, StopIsHonoured, JoinMeansDone
    <2> QED
      BY <2>2, <2>3, <2>4
  <1> QED
    BY <1>1, <1>2, <1>3, NextCases

\* The inductive invariant of a Thread object's life.
THEOREM Invariance == Spec => []IInv
  BY InitIInv, StepIInv, PTL DEF Spec

\* Join and Close use the kernel handle only while it is open, and it has one owner:
\* the pins of fn_thread_join keep fn_thread_close out.
THEOREM HandleIsSoundAlways == Spec => []HandleIsSound
PROOF
  <1>1. IInv => HandleIsSound
    <2> SUFFICES ASSUME IInv PROVE HandleIsSound
      OBVIOUS
    <2> USE DEF IInv
    <2>1. HandleUsedOpen
      BY DEF HandleUsedOpen, PinsOK, OwnersOK, HandleOwners
    <2>2. Cardinality(HandleOwners) = IF HandleOwners = {} THEN 0 ELSE 1
      <3>1. CASE HandleOwners = {}
        BY <3>1, FS_EmptySet
      <3>2. CASE HandleOwners # {}
        <4>1. PICK c \in HandleOwners : TRUE
          BY <3>2
        <4>2. HandleOwners = {c}
          BY <4>1 DEF OwnersOK
        <4>3. Cardinality({c}) = 1
          BY FS_Singleton
        <4> QED
          BY <3>2, <4>2, <4>3
      <3> QED
        BY <3>1, <3>2
    <2>3. HandleHasOneOwner
      BY <2>2 DEF HandleHasOneOwner, OwnersOK
    <2> QED
      BY <2>1, <2>2, <2>3 DEF HandleIsSound
  <1> QED
    BY <1>1, Invariance, PTL

\* fn_thread_close clears what the worker uses only when there is no worker, and none will
\* be; fn_gc_collect recycles a Thread nobody refers to only after its worker, with its
\* handle closed.
THEOREM ObjectOutlivesWorkerAlways == Spec => []ObjectOutlivesWorker
PROOF
  <1>1. IInv => ObjectOutlivesWorker
    BY DEF IInv, PayloadOK, HeapOK, ObjectOutlivesWorker
  <1> QED
    BY <1>1, Invariance, PTL

\* A stop fn_thread_stop answered with true is not overtaken by fn_thread_entry's completion.
THEOREM StopIsHonouredAlways == Spec => []StopIsHonoured
  BY Invariance, PTL DEF IInv

\* When fn_thread_join answers true the worker has ended and its result is there.
THEOREM JoinMeansDoneAlways == Spec => []JoinMeansDone
  BY Invariance, PTL DEF IInv
=============================================================================
