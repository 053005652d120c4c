--------------------------- MODULE ThreadPoolProofs ---------------------------
(***************************************************************************)
(* Proofs about ThreadPool, for any finite number of clients and workers,  *)
(* any jobs and any capacity of the queue; and about JobQueue, its         *)
(* circular queue, for any jobs, any capacity and any size of the first    *)
(* array.                                                                  *)
(***************************************************************************)
EXTENDS ThreadPool, JobQueue, FiniteSetTheorems, SequenceTheorems, TLAPS

\* Shutdown happens once, and whoever began it is the only one with tokens to release.
FlagsOK ==
  /\ accepting <=> ~ stopping
  /\ \A c \in Clients : pc[c] = "sd_release" => stopping
  /\ \A c, d \in Clients : pc[c] = "sd_release" /\ pc[d] = "sd_release" => c = d

\* Workers that need a token to end: all that have not ended, but for one that has seen
\* the queue empty and finds it still so.
Leaving == {w \in Workers : wpc[w] # "ended" /\ (wpc[w] = "stopping" => queue # <<>>)}

TokensOK ==
  signal + Cardinality(Calling("sb_signal")) + Cardinality(Working("take"))
         + (IF Calling("sd_release") = {} THEN 0 ELSE Cardinality(Workers))
    >= Len(queue) + (IF stopping THEN Cardinality(Leaving) ELSE 0)

\* A worker ends when there is nothing left, and there will be nothing any more.
EndedOK ==
  /\ \A w \in Workers : wpc[w] = "ended" => stopping /\ queue = <<>>
  /\ \A c \in Clients : pc[c] \in {"jn_stopped", "cl_close"} => \A w \in Workers : wpc[w] = "ended"

\* The job a submit brings is its own; every other one that waits or runs is somewhere.
JobsOK ==
  /\ \A c \in Clients : pc[c] \in {"sb_put", "sb_signal"} => cjob[c] \in Jobs
  /\ \A c \in Clients : pc[c] \notin {"sb_put", "sb_signal"} => cjob[c] = NoJob
  /\ \A c \in Clients, j \in Jobs : cjob[c] = j => status[j] \notin {"unborn", "closed"}
  /\ \A c, d \in Clients : cjob[c] = cjob[d] /\ cjob[c] \in Jobs => c = d
  /\ \A c \in Clients : pc[c] = "sb_put" =>
       /\ status[cjob[c]] = "Queued" /\ cjob[c] \notin Queued
       /\ \A w \in Workers : wjob[w] # cjob[c]
  /\ \A w \in Workers : wpc[w] \in {"begin", "execute"} => wjob[w] \in Jobs
  /\ \A j \in Queued : status[j] # "unborn"
  /\ \A w \in Workers : wjob[w] \in Jobs => status[wjob[w]] # "unborn"
  /\ \A j \in Jobs : status[j] = "Queued" =>
       \/ j \in Queued
       \/ \E w \in Workers : wpc[w] = "begin" /\ wjob[w] = j
       \/ \E c \in Clients : pc[c] = "sb_put" /\ cjob[c] = j
  /\ \A j \in Jobs : status[j] = "Running" => \E w \in Workers : wpc[w] = "execute" /\ wjob[w] = j

IInv == TypeOK /\ FlagsOK /\ TokensOK /\ EndedOK /\ JobsOK
-----------------------------------------------------------------------------
LEMMA InitIInv == Init => IInv
PROOF
  <1> SUFFICES ASSUME Init PROVE IInv
    OBVIOUS
  <1> USE SetsAssumption
  <1>1. TypeOK
    <2>1. << >> \in Seq(Jobs)
      BY EmptySeq
    <2> QED
      BY <2>1 DEF Init, TypeOK
  <1>2. Calling("sb_signal") = {} /\ Calling("sd_release") = {} /\ Working("take") = {} /\ Queued = {}
    BY DEF Init, Calling, Working, Queued
  <1>3. TokensOK
    <2>1. /\ Cardinality(Calling("sb_signal")) = 0 /\ Cardinality(Working("take")) = 0
          /\ signal = 0 /\ Len(queue) = 0 /\ ~ stopping /\ Cardinality(Workers) \in Nat
      BY <1>2, FS_EmptySet, FS_CardinalityType DEF Init
    <2> QED
      BY <1>2, <2>1 DEF TokensOK
  <1>4. FlagsOK /\ EndedOK /\ JobsOK
    BY <1>2 DEF Init, FlagsOK, EndedOK, JobsOK
  <1> QED
    BY <1>1, <1>3, <1>4 DEF IInv
-----------------------------------------------------------------------------
(* Counting.                                                               *)

LEMMA FiniteCalls ==
  ASSUME NEW m
  PROVE  /\ IsFiniteSet(Calling(m)) /\ IsFiniteSet(Working(m)) /\ IsFiniteSet(Leaving)
         /\ Cardinality(Calling(m)) \in Nat /\ Cardinality(Working(m)) \in Nat
         /\ Cardinality(Leaving) \in Nat /\ Cardinality(Workers) \in Nat
         /\ Cardinality(Leaving) <= Cardinality(Workers)
PROOF
  <1>1. Calling(m) \subseteq Clients /\ Working(m) \subseteq Workers /\ Leaving \subseteq Workers
    BY DEF Calling, Working, Leaving
  <1>2. IsFiniteSet(Calling(m)) /\ IsFiniteSet(Working(m)) /\ IsFiniteSet(Leaving)
    BY <1>1, SetsAssumption, FS_Subset
  <1>3. Cardinality(Leaving) <= Cardinality(Workers)
    BY <1>1, SetsAssumption, FS_Subset
  <1> QED
    BY <1>2, <1>3, SetsAssumption, FS_CardinalityType

LEMMA FiniteCallsNext ==
  ASSUME NEW m
  PROVE  /\ IsFiniteSet(Calling(m)') /\ IsFiniteSet(Working(m)') /\ IsFiniteSet(Leaving')
         /\ Cardinality(Calling(m)') \in Nat /\ Cardinality(Working(m)') \in Nat
         /\ Cardinality(Leaving') \in Nat /\ Cardinality(Leaving') <= Cardinality(Workers)
PROOF
  <1>1. Calling(m)' \subseteq Clients /\ Working(m)' \subseteq Workers /\ Leaving' \subseteq Workers
    BY DEF Calling, Working, Leaving
  <1>2. IsFiniteSet(Calling(m)') /\ IsFiniteSet(Working(m)') /\ IsFiniteSet(Leaving')
    BY <1>1, SetsAssumption, FS_Subset
  <1>3. Cardinality(Leaving') <= Cardinality(Workers)
    BY <1>1, SetsAssumption, FS_Subset
  <1> QED
    BY <1>2, <1>3, SetsAssumption, FS_CardinalityType

\* How many clients are at an instruction after one of them goes on.
LEMMA CallingCounts ==
  ASSUME TypeOK, NEW c \in Clients, NEW l, pc' = [pc EXCEPT ![c] = l], NEW m
  PROVE  /\ pc[c] = m => Cardinality(Calling(m)) >= 1
         /\ (pc[c] = m <=> l = m) => Cardinality(Calling(m)') = Cardinality(Calling(m))
         /\ pc[c] = m /\ l # m => Cardinality(Calling(m)') = Cardinality(Calling(m)) - 1
         /\ pc[c] # m /\ l = m => Cardinality(Calling(m)') = Cardinality(Calling(m)) + 1
PROOF
  <1>1. IsFiniteSet(Calling(m)) /\ Cardinality(Calling(m)) \in Nat
    BY FiniteCalls
  <1>2. Calling(m)' = IF l = m THEN Calling(m) \cup {c} ELSE Calling(m) \ {c}
    BY DEF Calling, TypeOK
  <1>3. c \in Calling(m) <=> pc[c] = m
    BY DEF Calling
  <1>4. pc[c] = m => Cardinality(Calling(m)) # 0
    BY <1>1, <1>3, FS_EmptySet
  <1>5. CASE l = m
    BY <1>1, <1>2, <1>3, <1>4, <1>5, FS_AddElement
  <1>6. CASE l # m
    <2>1. Calling(m)' = Calling(m) \ {c}
      BY <1>2, <1>6
    <2>2. Cardinality(Calling(m) \ {c}) = IF c \in Calling(m) THEN Cardinality(Calling(m)) - 1
                                          ELSE Cardinality(Calling(m))
      BY <1>1, FS_RemoveElement
    <2> QED
      BY <1>1, <1>3, <1>4, <1>6, <2>1, <2>2
  <1> QED
    BY <1>5, <1>6

LEMMA WorkingCounts ==
  ASSUME TypeOK, NEW w \in Workers, NEW l, wpc' = [wpc EXCEPT ![w] = l], NEW m
  PROVE  /\ wpc[w] = m => Cardinality(Working(m)) >= 1
         /\ (wpc[w] = m <=> l = m) => Cardinality(Working(m)') = Cardinality(Working(m))
         /\ wpc[w] = m /\ l # m => Cardinality(Working(m)') = Cardinality(Working(m)) - 1
         /\ wpc[w] # m /\ l = m => Cardinality(Working(m)') = Cardinality(Working(m)) + 1
PROOF
  <1>1. IsFiniteSet(Working(m)) /\ Cardinality(Working(m)) \in Nat
    BY FiniteCalls
  <1>2. Working(m)' = IF l = m THEN Working(m) \cup {w} ELSE Working(m) \ {w}
    BY DEF Working, TypeOK
  <1>3. w \in Working(m) <=> wpc[w] = m
    BY DEF Working
  <1>4. wpc[w] = m => Cardinality(Working(m)) # 0
    BY <1>1, <1>3, FS_EmptySet
  <1>5. CASE l = m
    BY <1>1, <1>2, <1>3, <1>4, <1>5, FS_AddElement
  <1>6. CASE l # m
    <2>1. Working(m)' = Working(m) \ {w}
      BY <1>2, <1>6
    <2>2. Cardinality(Working(m) \ {w}) = IF w \in Working(m) THEN Cardinality(Working(m)) - 1
                                          ELSE Cardinality(Working(m))
      BY <1>1, FS_RemoveElement
    <2> QED
      BY <1>1, <1>3, <1>4, <1>6, <2>1, <2>2
  <1> QED
    BY <1>5, <1>6
-----------------------------------------------------------------------------
(* Steps.                                                                  *)

ClientStep(c) == Begins(c) \/ Continues(c) \/ JoinTimeout(c)

\* The steps of a client that touch neither the queue, the flags nor the tokens.
Idle(c) ==
  \/ Submit(c) \/ SubmitReject(c) \/ ShutdownBegin(c) \/ JoinBegin(c) \/ CloseBegin(c)
  \/ JoinCheck(c) \/ JoinWait(c) \/ JoinTimeout(c) \/ JoinStopped(c)
  \/ \E j \in Jobs : CancelJob(c, j) \/ CloseJob(c, j)

ClientPcs == {"idle", "sb_put", "sb_signal", "sd_flags", "sd_release",
              "jn_check", "jn_wait", "jn_stopped", "cl_close"}

LEMMA IdleFacts ==
  ASSUME TypeOK, NEW c \in Clients, Idle(c)
  PROVE  /\ UNCHANGED <<queue, accepting, stopping, closed, signal, workVars>>
         /\ \E l \in ClientPcs :
              /\ pc' = [pc EXCEPT ![c] = l]
              /\ pc[c] \in {"sb_signal", "sd_release"} \/ l \in {"sb_signal", "sd_release"} => pc[c] = l
PROOF
  <1> USE DEF poolVars, userVars, Step, Goto, Begin, Return, ClientPcs
  <1>1. CASE Submit(c) \/ SubmitReject(c)
    BY <1>1 DEF Submit, SubmitReject
  <1>2. CASE ShutdownBegin(c) \/ JoinBegin(c) \/ CloseBegin(c)
    BY <1>2 DEF ShutdownBegin, JoinBegin, CloseBegin
  <1>3. CASE JoinCheck(c) \/ JoinWait(c) \/ JoinTimeout(c) \/ JoinStopped(c)
    BY <1>3 DEF JoinCheck, JoinWait, JoinTimeout, JoinStopped
  <1>4. CASE \E j \in Jobs : CancelJob(c, j) \/ CloseJob(c, j)
    BY <1>4 DEF CancelJob, CloseJob, TypeOK
  <1> QED
    BY <1>1, <1>2, <1>3, <1>4 DEF Idle

\* The flags.
LEMMA ClientFlags ==
  ASSUME TypeOK, FlagsOK, NEW c \in Clients, ClientStep(c)
  PROVE  FlagsOK'
PROOF
  <1>0. pc \in [Clients -> ClientPcs]
    BY DEF TypeOK, ClientPcs
  <1> USE <1>0 DEF FlagsOK, poolVars, userVars, Step, Goto, Begin, Return
  <1>1. CASE Idle(c)
    BY <1>1, IdleFacts
  <1>2. CASE SubmitPut(c) \/ SubmitSignal(c)
    BY <1>2 DEF SubmitPut, SubmitSignal
  <1>3. CASE Shutdown(c)
    BY <1>3 DEF Shutdown
  <1>4. CASE Stop(c)
    BY <1>4 DEF Stop
  <1>5. CASE ReleaseAll(c)
    BY <1>5 DEF ReleaseAll
  <1>6. CASE CloseHandles(c)
    BY <1>6 DEF CloseHandles
  <1> QED
    BY <1>1, <1>2, <1>3, <1>4, <1>5, <1>6 DEF ClientStep, Begins, Continues, Idle
-----------------------------------------------------------------------------
(* Tokens.                                                                 *)

LEMMA ClientTokens ==
  ASSUME TypeOK, FlagsOK, TokensOK, NEW c \in Clients, ClientStep(c)
  PROVE  TokensOK'
PROOF
  <1>0. /\ signal \in Nat /\ Len(queue) \in Nat /\ queue \in Seq(Jobs)
        /\ Cardinality(Calling("sb_signal")) \in Nat /\ Cardinality(Working("take")) \in Nat
        /\ Cardinality(Workers) \in Nat
        /\ Cardinality(Leaving) \in Nat /\ Cardinality(Leaving) <= Cardinality(Workers)
        /\ Cardinality(Leaving') \in Nat /\ Cardinality(Leaving') <= Cardinality(Workers)
        /\ pc \in [Clients -> ClientPcs]
    BY FiniteCalls, FiniteCallsNext, LenProperties DEF TypeOK, ClientPcs
  <1>1. ASSUME UNCHANGED wpc
        PROVE  /\ Working("take")' = Working("take")
               /\ UNCHANGED queue => Leaving' = Leaving
    BY <1>1 DEF Working, Leaving
  <1> USE DEF poolVars, workVars, userVars, Step, Goto, Begin, Return
  <1>2. CASE Idle(c)
    <2>1. UNCHANGED <<queue, stopping, signal, wpc>>
      BY <1>2, IdleFacts
    <2>2. PICK l \in ClientPcs :
             /\ pc' = [pc EXCEPT ![c] = l]
             /\ pc[c] \in {"sb_signal", "sd_release"} \/ l \in {"sb_signal", "sd_release"} => pc[c] = l
      BY <1>2, IdleFacts
    <2>3. Calling("sb_signal")' = Calling("sb_signal") /\ Calling("sd_release")' = Calling("sd_release")
      BY <1>0, <2>2 DEF Calling
    <2> QED
      BY <1>1, <2>1, <2>3 DEF TokensOK
  <1>3. CASE SubmitPut(c)
    <2>1. /\ pc[c] = "sb_put" /\ pc' = [pc EXCEPT ![c] = "sb_signal"]
          /\ queue' = Append(queue, cjob[c]) /\ ~ stopping /\ UNCHANGED <<stopping, signal, wpc>>
      BY <1>3 DEF SubmitPut, FlagsOK
    <2>2. Cardinality(Calling("sb_signal")') = Cardinality(Calling("sb_signal")) + 1
      BY <2>1, CallingCounts
    <2>3. Calling("sd_release")' = Calling("sd_release")
      BY <1>0, <2>1 DEF Calling
    <2>4. Len(queue') = Len(queue) + 1
      BY <1>0, <2>1
    <2> QED
      BY <1>0, <1>1, <2>1, <2>2, <2>3, <2>4 DEF TokensOK
  <1>4. CASE SubmitSignal(c)
    <2>1. /\ pc[c] = "sb_signal" /\ pc' = [pc EXCEPT ![c] = "idle"]
          /\ signal' = signal + 1 /\ UNCHANGED <<queue, stopping, wpc>>
      BY <1>4 DEF SubmitSignal
    <2>2. Cardinality(Calling("sb_signal")') = Cardinality(Calling("sb_signal")) - 1
      BY <2>1, CallingCounts
    <2>3. Calling("sd_release")' = Calling("sd_release")
      BY <1>0, <2>1 DEF Calling
    <2> QED
      BY <1>0, <1>1, <2>1, <2>2, <2>3 DEF TokensOK
  <1>5. CASE Shutdown(c) /\ (closed \/ stopping)
    <2>1. UNCHANGED <<queue, stopping, signal, wpc>>
      BY <1>5 DEF Shutdown
    <2>2. Calling("sb_signal")' = Calling("sb_signal") /\ Calling("sd_release")' = Calling("sd_release")
      BY <1>0, <1>5 DEF Calling, Shutdown
    <2> QED
      BY <1>1, <2>1, <2>2 DEF TokensOK
  <1>6. CASE (Shutdown(c) /\ ~ (closed \/ stopping)) \/ Stop(c)
    <2>1. /\ pc[c] \in {"sd_flags", "idle"} /\ pc' = [pc EXCEPT ![c] = "sd_release"]
          /\ ~ stopping /\ UNCHANGED <<signal, wpc>> /\ queue' \in {queue, << >>}
      BY <1>6 DEF Shutdown, Stop
    <2>2. Calling("sd_release") = {} /\ Calling("sd_release")' # {}
      BY <1>0, <2>1 DEF FlagsOK, Calling
    <2>3. Calling("sb_signal")' = Calling("sb_signal")
      BY <1>0, <2>1 DEF Calling
    <2>4. Len(queue') \in Nat /\ Len(queue') <= Len(queue)
      BY <1>0, <2>1
    <2> QED
      BY <1>0, <1>1, <2>1, <2>2, <2>3, <2>4 DEF TokensOK
  <1>7. CASE ReleaseAll(c)
    <2>1. /\ pc[c] = "sd_release" /\ pc' = [pc EXCEPT ![c] = IF closer = c THEN "jn_check" ELSE "idle"]
          /\ signal' = signal + Cardinality(Workers) /\ UNCHANGED <<queue, stopping, wpc>>
      BY <1>7 DEF ReleaseAll
    <2>2. Calling("sd_release") # {} /\ Calling("sd_release")' = {}
      BY <1>0, <2>1 DEF FlagsOK, Calling
    <2>3. Calling("sb_signal")' = Calling("sb_signal")
      BY <1>0, <2>1 DEF Calling
    <2> QED
      BY <1>0, <1>1, <2>1, <2>2, <2>3 DEF TokensOK
  <1>8. CASE CloseHandles(c)
    <2>1. /\ pc[c] = "cl_close" /\ pc' = [pc EXCEPT ![c] = "idle"] /\ queue' = << >>
          /\ UNCHANGED <<signal, stopping, wpc>>
      BY <1>8 DEF CloseHandles
    <2>2. Calling("sb_signal")' = Calling("sb_signal") /\ Calling("sd_release")' = Calling("sd_release")
      BY <1>0, <2>1 DEF Calling
    <2>3. Cardinality(Leaving') <= Cardinality(Leaving)
      <3>1. Leaving' \subseteq Leaving
        BY <2>1 DEF Leaving
      <3> QED
        BY <3>1, FiniteCalls, FS_Subset
    <2>4. Len(queue') = 0
      BY <2>1
    <2> QED
      BY <1>0, <1>1, <2>1, <2>2, <2>3, <2>4 DEF TokensOK
  <1> QED
    BY <1>2, <1>3, <1>4, <1>5, <1>6, <1>7, <1>8 DEF ClientStep, Begins, Continues, Idle

\* What a worker's step does to the tokens and to the workers that need one.
LEMMA WorkerTokens ==
  ASSUME TypeOK, FlagsOK, TokensOK, EndedOK, NEW w \in Workers, Works(w)
  PROVE  TokensOK'
PROOF
  <1>0. /\ signal \in Nat /\ Len(queue) \in Nat /\ queue \in Seq(Jobs)
        /\ Cardinality(Calling("sb_signal")) \in Nat /\ Cardinality(Working("take")) \in Nat
        /\ Cardinality(Workers) \in Nat
        /\ Cardinality(Leaving) \in Nat /\ IsFiniteSet(Leaving) /\ Cardinality(Leaving') \in Nat
    BY FiniteCalls, FiniteCallsNext, LenProperties DEF TypeOK
  <1>1. wpc \in [Workers -> {"acquire", "take", "stopping", "begin", "execute", "ended"}]
    BY DEF TypeOK
  <1> USE DEF poolVars, userVars, GoWorker
  <1>2. UNCHANGED <<stopping, pc>>
    BY DEF Works, WorkerAcquire, WorkerTake, WorkerStopping, WorkerBegin, WorkerExecute
  <1>3. Calling("sb_signal")' = Calling("sb_signal") /\ Calling("sd_release")' = Calling("sd_release")
    BY <1>2 DEF Calling
  <1>4. ASSUME UNCHANGED queue, NEW l, l \in {"acquire", "take", "begin", "execute"},
               wpc' = [wpc EXCEPT ![w] = l], wpc[w] \notin {"ended", "stopping"}
        PROVE  Leaving' = Leaving
    BY <1>1, <1>4 DEF Leaving
  <1>5. CASE WorkerAcquire(w)
    <2>1. /\ wpc[w] = "acquire" /\ wpc' = [wpc EXCEPT ![w] = "take"]
          /\ signal > 0 /\ signal' = signal - 1 /\ UNCHANGED queue
      BY <1>5 DEF WorkerAcquire
    <2>2. Cardinality(Working("take")') = Cardinality(Working("take")) + 1
      BY <2>1, WorkingCounts
    <2>3. Leaving' = Leaving
      BY <1>4, <2>1
    <2> QED
      BY <1>0, <1>2, <1>3, <2>1, <2>2, <2>3 DEF TokensOK
  <1>6. CASE WorkerTake(w) /\ queue = << >>
    <2>1. /\ wpc[w] = "take" /\ wpc' = [wpc EXCEPT ![w] = "stopping"] /\ UNCHANGED <<queue, signal>>
      BY <1>6 DEF WorkerTake
    <2>2. Cardinality(Working("take")') = Cardinality(Working("take")) - 1
      BY <2>1, WorkingCounts
    <2>3. Leaving' = Leaving \ {w} /\ w \in Leaving
      BY <1>1, <1>6, <2>1 DEF Leaving
    <2>4. Cardinality(Leaving \ {w}) = Cardinality(Leaving) - 1
      BY <1>0, <2>3, FS_RemoveElement
    <2>5. Cardinality(Leaving') = Cardinality(Leaving) - 1
      BY <2>3, <2>4
    <2>6. Len(queue) = 0 /\ UNCHANGED <<queue, signal>>
      BY <1>6, <2>1
    <2>7. Cardinality(Working("take")) >= 1
      BY <2>1, WorkingCounts
    <2> QED
      BY <1>0, <1>2, <1>3, <2>2, <2>5, <2>6, <2>7 DEF TokensOK
  <1>7. CASE WorkerTake(w) /\ queue # << >>
    <2>1. /\ wpc[w] = "take" /\ wpc' = [wpc EXCEPT ![w] = "begin"]
          /\ queue' = Tail(queue) /\ UNCHANGED signal
      BY <1>7 DEF WorkerTake
    <2>2. Cardinality(Working("take")') = Cardinality(Working("take")) - 1
      BY <2>1, WorkingCounts
    <2>3. Cardinality(Leaving') <= Cardinality(Leaving)
      <3>1. Leaving' \subseteq Leaving
        BY <1>1, <1>7, <2>1 DEF Leaving
      <3> QED
        BY <1>0, <3>1, FS_Subset
    <2>4. Len(queue') = Len(queue) - 1
      BY <1>0, <1>7, <2>1, HeadTailProperties
    <2>5. Cardinality(Working("take")) >= 1
      BY <2>1, WorkingCounts
    <2>6. UNCHANGED signal
      BY <2>1
    <2>7. CASE stopping
      BY <1>0, <1>2, <1>3, <2>2, <2>3, <2>4, <2>6, <2>7 DEF TokensOK
    <2>8. CASE ~ stopping
      BY <1>0, <1>2, <1>3, <2>2, <2>4, <2>6, <2>8 DEF TokensOK
    <2> QED
      BY <2>7, <2>8
  <1>8. CASE WorkerStopping(w)
    <2>1. /\ wpc[w] = "stopping"
          /\ wpc' = [wpc EXCEPT ![w] = IF stopping /\ queue = << >> THEN "ended" ELSE "acquire"]
          /\ UNCHANGED <<queue, signal>>
      BY <1>8 DEF WorkerStopping
    <2>2. Cardinality(Working("take")') = Cardinality(Working("take"))
      BY <1>1, <2>1 DEF Working
    <2>3. stopping => Leaving' = Leaving
      BY <1>1, <2>1 DEF Leaving
    <2> QED
      BY <1>0, <1>2, <1>3, <2>1, <2>2, <2>3 DEF TokensOK
  <1>9. CASE WorkerBegin(w) \/ WorkerExecute(w)
    <2>1. PICK l \in {"execute", "acquire"} : wpc' = [wpc EXCEPT ![w] = l]
      BY <1>9 DEF WorkerBegin, WorkerExecute
    <2>2. wpc[w] \in {"begin", "execute"} /\ UNCHANGED <<queue, signal>>
      BY <1>9 DEF WorkerBegin, WorkerExecute
    <2>3. Working("take")' = Working("take")
      BY <1>1, <2>1, <2>2 DEF Working
    <2>4. Leaving' = Leaving
      BY <1>4, <2>1, <2>2
    <2> QED
      BY <1>0, <1>2, <1>3, <2>2, <2>3, <2>4 DEF TokensOK
  <1> QED
    BY <1>5, <1>6, <1>7, <1>8, <1>9 DEF Works, WorkerTake
-----------------------------------------------------------------------------
(* Types.                                                                  *)

LEMMA ClientTypes ==
  ASSUME TypeOK, JobsOK, NEW c \in Clients, ClientStep(c)
  PROVE  TypeOK'
PROOF
  <1>0. Cardinality(Workers) \in Nat
    BY FiniteCalls
  <1> USE DEF TypeOK, poolVars, workVars, userVars, Step, Goto, Begin, Return, Terminal
  <1>1. CASE Submit(c) \/ SubmitReject(c)
    BY <1>1 DEF Submit, SubmitReject
  <1>2. CASE SubmitPut(c)
    <2>1. cjob[c] \in Jobs
      BY <1>2 DEF SubmitPut, JobsOK
    <2>2. queue' \in Seq(Jobs)
      BY <1>2, <2>1, AppendProperties DEF SubmitPut
    <2> QED
      BY <1>2, <2>2 DEF SubmitPut
  <1>3. CASE ShutdownBegin(c) \/ SubmitSignal(c)
    BY <1>3 DEF ShutdownBegin, SubmitSignal
  <1>8. CASE Shutdown(c)
    <2>1. PICK l \in ClientPcs : pc' = [pc EXCEPT ![c] = l]
      BY <1>8 DEF Shutdown, ClientPcs
    <2>2. accepting' \in BOOLEAN /\ stopping' \in BOOLEAN
          /\ UNCHANGED <<queue, stopped, closed, signal, status, workVars, cjob, closer>>
      BY <1>8 DEF Shutdown
    <2> QED
      BY <2>1, <2>2 DEF ClientPcs
  <1>4. CASE Stop(c) \/ CloseHandles(c)
    <2>1. << >> \in Seq(Jobs)
      BY EmptySeq
    <2> QED
      BY <1>4, <2>1 DEF Stop, CloseHandles
  <1>5. CASE ReleaseAll(c)
    BY <1>0, <1>5 DEF ReleaseAll
  <1>6. CASE JoinBegin(c) \/ CloseBegin(c) \/ JoinCheck(c) \/ JoinWait(c) \/ JoinTimeout(c) \/ JoinStopped(c)
    BY <1>6 DEF JoinBegin, CloseBegin, JoinCheck, JoinWait, JoinTimeout, JoinStopped
  <1>7. ASSUME NEW j \in Jobs, CancelJob(c, j) \/ CloseJob(c, j)
        PROVE  TypeOK'
    BY <1>7 DEF CancelJob, CloseJob
  <1> QED
    BY <1>1, <1>2, <1>3, <1>4, <1>5, <1>6, <1>7, <1>8 DEF ClientStep, Begins, Continues

LEMMA WorkerTypes ==
  ASSUME TypeOK, JobsOK, NEW w \in Workers, Works(w)
  PROVE  TypeOK'
PROOF
  <1> USE DEF TypeOK, poolVars, userVars, GoWorker, Terminal
  <1>1. CASE WorkerAcquire(w) \/ WorkerStopping(w)
    BY <1>1 DEF WorkerAcquire, WorkerStopping
  <1>2. CASE WorkerTake(w)
    <2>1. queue # << >> => Head(queue) \in Jobs /\ Tail(queue) \in Seq(Jobs)
      BY HeadTailProperties
    <2> QED
      BY <1>2, <2>1 DEF WorkerTake
  <1>3. CASE WorkerBegin(w)
    BY <1>3 DEF WorkerBegin
  <1>4. CASE WorkerExecute(w)
    BY <1>4 DEF WorkerExecute
  <1> QED
    BY <1>1, <1>2, <1>3, <1>4 DEF Works
-----------------------------------------------------------------------------
(* Ended workers.                                                          *)

LEMMA ClientEnded ==
  ASSUME TypeOK, FlagsOK, EndedOK, NEW c \in Clients, ClientStep(c)
  PROVE  EndedOK'
PROOF
  <1>0. pc \in [Clients -> ClientPcs]
    BY DEF TypeOK, ClientPcs
  <1> USE DEF EndedOK, poolVars, workVars, userVars, Step, Goto, Begin, Return
  <1>1. CASE Submit(c) \/ SubmitReject(c) \/ SubmitSignal(c)
    BY <1>0, <1>1 DEF Submit, SubmitReject, SubmitSignal
  <1>2. CASE SubmitPut(c)
    BY <1>0, <1>2 DEF SubmitPut, FlagsOK
  <1>3. CASE ShutdownBegin(c) \/ Shutdown(c) \/ Stop(c) \/ ReleaseAll(c)
    BY <1>0, <1>3 DEF ShutdownBegin, Shutdown, Stop, ReleaseAll
  <1>4. CASE JoinBegin(c) \/ CloseBegin(c) \/ JoinCheck(c) \/ JoinTimeout(c)
    BY <1>0, <1>4 DEF JoinBegin, CloseBegin, JoinCheck, JoinTimeout
  <1>5. CASE JoinWait(c) \/ JoinStopped(c) \/ CloseHandles(c)
    BY <1>0, <1>5 DEF JoinWait, JoinStopped, CloseHandles
  <1>6. CASE \E j \in Jobs : CancelJob(c, j) \/ CloseJob(c, j)
    BY <1>6 DEF CancelJob, CloseJob
  <1> QED
    BY <1>1, <1>2, <1>3, <1>4, <1>5, <1>6 DEF ClientStep, Begins, Continues

LEMMA WorkerEnded ==
  ASSUME TypeOK, EndedOK, NEW w \in Workers, Works(w)
  PROVE  EndedOK'
BY DEF TypeOK, EndedOK, Works, poolVars, userVars, GoWorker,
       WorkerAcquire, WorkerTake, WorkerStopping, WorkerBegin, WorkerExecute
-----------------------------------------------------------------------------
(* Jobs.                                                                   *)

LEMMA QueuedAfterAppend ==
  ASSUME queue \in Seq(Jobs), NEW j \in Jobs, queue' = Append(queue, j)
  PROVE  Queued' = Queued \cup {j}
PROOF
  <1>1. /\ Len(queue) \in Nat /\ DOMAIN queue = 1 .. Len(queue)
        /\ Len(queue') = Len(queue) + 1 /\ DOMAIN queue' = 1 .. Len(queue')
        /\ queue'[Len(queue) + 1] = j
        /\ \A i \in 1 .. Len(queue) : queue'[i] = queue[i]
    BY AppendProperties, LenProperties
  <1>2. Queued' \subseteq Queued \cup {j}
    BY <1>1 DEF Queued
  <1>3. Queued \subseteq Queued'
    BY <1>1 DEF Queued
  <1>4. j \in Queued'
    BY <1>1 DEF Queued
  <1> QED
    BY <1>2, <1>3, <1>4

LEMMA QueuedAfterTail ==
  ASSUME queue \in Seq(Jobs), queue # << >>, queue' = Tail(queue)
  PROVE  Queued = Queued' \cup {Head(queue)}
PROOF
  <1>1. /\ Len(queue) \in Nat /\ DOMAIN queue = 1 .. Len(queue) /\ Len(queue) >= 1
        /\ Len(queue') = Len(queue) - 1 /\ DOMAIN queue' = 1 .. Len(queue')
        /\ Head(queue) = queue[1]
        /\ \A i \in 1 .. Len(queue') : queue'[i] = queue[i + 1]
    BY HeadTailProperties, LenProperties, EmptySeq
  <1>2. Queued' \subseteq Queued
    BY <1>1 DEF Queued
  <1>3. Head(queue) \in Queued
    BY <1>1 DEF Queued
  <1>4. ASSUME NEW i \in 1 .. Len(queue), i # 1
        PROVE  queue[i] \in Queued'
    <2>1. i - 1 \in 1 .. Len(queue') /\ (i - 1) + 1 = i
      BY <1>1, <1>4
    <2>2. queue'[i - 1] = queue[i]
      BY <1>1, <2>1
    <2> QED
      BY <1>1, <2>1, <2>2 DEF Queued
  <1>5. Queued \subseteq Queued' \cup {Head(queue)}
    BY <1>1, <1>4 DEF Queued
  <1> QED
    BY <1>2, <1>3, <1>5

LEMMA ClientJobs ==
  ASSUME TypeOK, EndedOK, JobsOK, NEW c \in Clients, ClientStep(c)
  PROVE  JobsOK'
PROOF
  <1>0. pc \in [Clients -> ClientPcs] /\ NoJob \notin Jobs
    BY SetsAssumption DEF TypeOK, ClientPcs
  <1>1. ASSUME UNCHANGED queue
        PROVE  Queued' = Queued
    BY <1>1 DEF Queued
  <1>2. Queued \subseteq Jobs
    BY ElementOfSeq DEF TypeOK, Queued
  <1> USE DEF poolVars, workVars, userVars, Step, Goto, Begin, Return, Published
  <1>3. CASE Submit(c)
    <2>1. UNCHANGED <<queue, wpc, wjob>> /\ pc[c] = "idle" /\ pc' = [pc EXCEPT ![c] = "sb_put"]
      BY <1>3 DEF Submit
    <2>2. PICK j \in Jobs : /\ status[j] = "unborn"
                           /\ cjob' = [cjob EXCEPT ![c] = j]
                           /\ status' = [status EXCEPT ![j] = "Queued"]
      BY <1>3 DEF Submit
    <2>3. j \notin Queued /\ (\A w \in Workers : wjob[w] # j) /\ (\A d \in Clients : cjob[d] # j)
      BY <2>2 DEF JobsOK
    <2> QED
      BY <1>0, <1>1, <1>2, <2>1, <2>2, <2>3 DEF JobsOK, TypeOK, Terminal
  <1>4. CASE SubmitReject(c)
    <2>1. /\ UNCHANGED <<queue, wpc, wjob>> /\ pc[c] = "sb_put" /\ pc' = [pc EXCEPT ![c] = "idle"]
          /\ status' = [status EXCEPT ![cjob[c]] = "unborn"] /\ cjob' = [cjob EXCEPT ![c] = NoJob]
      BY <1>4 DEF SubmitReject
    <2> QED
      BY <1>0, <1>1, <1>2, <2>1 DEF JobsOK, TypeOK, Terminal
  <1>5. CASE SubmitPut(c)
    <2>1. /\ UNCHANGED <<status, wpc, wjob, cjob>> /\ pc[c] = "sb_put"
          /\ pc' = [pc EXCEPT ![c] = "sb_signal"] /\ queue' = Append(queue, cjob[c])
      BY <1>5 DEF SubmitPut
    <2>2. cjob[c] \in Jobs
      BY <2>1 DEF JobsOK
    <2>3. Queued' = Queued \cup {cjob[c]}
      BY <2>1, <2>2, QueuedAfterAppend DEF TypeOK
    <2> QED
      BY <1>0, <1>2, <2>1, <2>2, <2>3 DEF JobsOK, TypeOK, Terminal
  <1>6. CASE SubmitSignal(c)
    <2>1. /\ UNCHANGED <<queue, status, wpc, wjob>> /\ pc[c] = "sb_signal"
          /\ pc' = [pc EXCEPT ![c] = "idle"] /\ cjob' = [cjob EXCEPT ![c] = NoJob]
      BY <1>6 DEF SubmitSignal
    <2> QED
      BY <1>0, <1>1, <1>2, <2>1 DEF JobsOK, TypeOK, Terminal
  <1>7. CASE Stop(c)
    <2>1. /\ UNCHANGED <<wpc, wjob, cjob>> /\ pc[c] = "idle" /\ pc' = [pc EXCEPT ![c] = "sd_release"]
          /\ queue' = << >>
          /\ status' = [j \in Jobs |-> IF j \in Queued /\ status[j] = "Queued"
                                       THEN "Cancelled" ELSE status[j]]
      BY <1>7 DEF Stop
    <2>2. Queued' = {}
      BY <2>1 DEF Queued
    <2> QED
      BY <1>0, <1>2, <2>1, <2>2 DEF JobsOK, TypeOK, Terminal
  <1>8. CASE ShutdownBegin(c) \/ Shutdown(c) \/ ReleaseAll(c) \/ JoinBegin(c) \/ CloseBegin(c)
             \/ JoinCheck(c) \/ JoinWait(c) \/ JoinTimeout(c) \/ JoinStopped(c)
    <2>1. UNCHANGED <<queue, status, wpc, wjob, cjob>> /\ pc[c] \notin {"sb_put", "sb_signal"}
      BY <1>8 DEF ShutdownBegin, Shutdown, ReleaseAll, JoinBegin, CloseBegin,
                  JoinCheck, JoinWait, JoinTimeout, JoinStopped
    <2>2. \E l \in ClientPcs \ {"sb_put", "sb_signal"} : pc' = [pc EXCEPT ![c] = l]
      BY <1>8 DEF ShutdownBegin, Shutdown, ReleaseAll, JoinBegin, CloseBegin,
                  JoinCheck, JoinWait, JoinTimeout, JoinStopped, ClientPcs
    <2> QED
      BY <1>0, <1>1, <2>1, <2>2 DEF JobsOK, TypeOK
  <1>9. ASSUME NEW j \in Jobs, CancelJob(c, j) \/ CloseJob(c, j)
        PROVE  JobsOK'
    <2>1. /\ UNCHANGED <<queue, wpc, wjob, pc, cjob>> /\ status[j] \notin {"unborn", "Running"}
          /\ \A d \in Clients : cjob[d] # j
      BY <1>9 DEF CancelJob, CloseJob, Terminal
    <2>2. PICK s \in {"Cancelled", "closed"} : status' = [status EXCEPT ![j] = s]
      BY <1>9 DEF CancelJob, CloseJob
    <2> QED
      BY <1>0, <1>1, <1>2, <2>1, <2>2 DEF JobsOK, TypeOK, Terminal
  <1>10. CASE CloseHandles(c)
    <2>1. UNCHANGED <<status, wpc, wjob, cjob>> /\ pc[c] = "cl_close" /\ pc' = [pc EXCEPT ![c] = "idle"]
          /\ queue' = << >>
      BY <1>10 DEF CloseHandles
    <2>2. queue = << >>
      BY <2>1, SetsAssumption DEF EndedOK
    <2>3. Queued = {} /\ Queued' = {}
      BY <2>1, <2>2 DEF Queued
    <2> QED
      BY <1>0, <2>1, <2>3 DEF JobsOK, TypeOK
  <1> QED
    BY <1>3, <1>4, <1>5, <1>6, <1>7, <1>8, <1>9, <1>10 DEF ClientStep, Begins, Continues

LEMMA WorkerJobs ==
  ASSUME TypeOK, JobsOK, NEW w \in Workers, Works(w)
  PROVE  JobsOK'
PROOF
  <1>0. NoJob \notin Jobs
    BY SetsAssumption
  <1>1. ASSUME UNCHANGED queue
        PROVE  Queued' = Queued
    BY <1>1 DEF Queued
  <1>2. Queued \subseteq Jobs
    BY ElementOfSeq DEF TypeOK, Queued
  <1> USE DEF poolVars, userVars, GoWorker
  <1>3. CASE WorkerAcquire(w) \/ WorkerStopping(w)
    <2>1. UNCHANGED <<queue, status, wjob, pc, cjob>> /\ wpc[w] \in {"acquire", "stopping"}
      BY <1>3 DEF WorkerAcquire, WorkerStopping
    <2>2. PICK l \in {"take", "ended", "acquire"} : wpc' = [wpc EXCEPT ![w] = l]
      BY <1>3 DEF WorkerAcquire, WorkerStopping
    <2> QED
      BY <1>0, <1>1, <1>2, <2>1, <2>2 DEF JobsOK, TypeOK
  <1>4. CASE WorkerTake(w) /\ queue = << >>
    <2>1. /\ UNCHANGED <<queue, status, wjob, pc, cjob>> /\ wpc[w] = "take"
          /\ wpc' = [wpc EXCEPT ![w] = "stopping"]
      BY <1>4 DEF WorkerTake
    <2> QED
      BY <1>0, <1>1, <1>2, <2>1 DEF JobsOK, TypeOK
  <1>5. CASE WorkerTake(w) /\ queue # << >>
    <2>1. /\ UNCHANGED <<status, pc, cjob>> /\ wpc[w] = "take" /\ wpc' = [wpc EXCEPT ![w] = "begin"]
          /\ wjob' = [wjob EXCEPT ![w] = Head(queue)] /\ queue' = Tail(queue)
      BY <1>5 DEF WorkerTake
    <2>2. Queued = Queued' \cup {Head(queue)}
      BY <1>5, <2>1, QueuedAfterTail DEF TypeOK
    <2>3. PICK j \in Jobs : j = Head(queue)
      BY <1>5, HeadTailProperties DEF TypeOK
    <2>4. Queued = Queued' \cup {j} /\ wjob' = [wjob EXCEPT ![w] = j]
      BY <2>1, <2>2, <2>3
    <2> QED
      BY <1>0, <1>2, <2>1, <2>4 DEF JobsOK, TypeOK
  <1>6. CASE WorkerBegin(w) /\ status[wjob[w]] = "Queued"
    <2>1. /\ UNCHANGED <<queue, wjob, pc, cjob>> /\ wpc[w] = "begin"
          /\ wpc' = [wpc EXCEPT ![w] = "execute"] /\ status' = [status EXCEPT ![wjob[w]] = "Running"]
      BY <1>6 DEF WorkerBegin
    <2> QED
      BY <1>0, <1>1, <1>2, <2>1 DEF JobsOK, TypeOK
  <1>7. CASE WorkerBegin(w) /\ status[wjob[w]] # "Queued"
    <2>1. /\ UNCHANGED <<queue, status, pc, cjob>> /\ wpc[w] = "begin"
          /\ wpc' = [wpc EXCEPT ![w] = "acquire"] /\ wjob' = [wjob EXCEPT ![w] = NoJob]
      BY <1>7 DEF WorkerBegin
    <2> QED
      BY <1>0, <1>1, <1>2, <1>7, <2>1 DEF JobsOK, TypeOK
  <1>8. CASE WorkerExecute(w)
    <2>1. /\ UNCHANGED <<queue, pc, cjob>> /\ wpc[w] = "execute"
          /\ wpc' = [wpc EXCEPT ![w] = "acquire"] /\ wjob' = [wjob EXCEPT ![w] = NoJob]
      BY <1>8 DEF WorkerExecute
    <2>2. PICK s \in {"Completed", "Failed"} :
             status' = [status EXCEPT ![wjob[w]] = IF @ = "Running" THEN s ELSE @]
      BY <1>8 DEF WorkerExecute
    <2> QED
      BY <1>0, <1>1, <1>2, <2>1, <2>2 DEF JobsOK, TypeOK
  <1> QED
    BY <1>3, <1>4, <1>5, <1>6, <1>7, <1>8 DEF Works

LEMMA ReclaimIInv ==
  ASSUME IInv, NEW j \in Jobs, Reclaim(j)
  PROVE  IInv'
PROOF
  <1>1. /\ UNCHANGED <<poolVars, signal, workVars, userVars>> /\ status[j] = "closed"
        /\ j \notin Queued /\ \A w \in Workers : wjob[w] # j
        /\ status' = [status EXCEPT ![j] = "unborn"]
    BY DEF Reclaim
  <1> USE DEF poolVars, workVars, userVars
  <1>2. Queued' = Queued /\ Leaving' = Leaving
    BY <1>1 DEF Queued, Leaving
  <1>3. /\ Calling("sb_signal")' = Calling("sb_signal") /\ Working("take")' = Working("take")
        /\ Calling("sd_release")' = Calling("sd_release")
    BY <1>1 DEF Calling, Working
  <1>4. TypeOK'
    BY <1>1 DEF IInv, TypeOK
  <1>5. FlagsOK' /\ EndedOK'
    BY <1>1 DEF IInv, FlagsOK, EndedOK
  <1>6. TokensOK'
    BY <1>1, <1>2, <1>3 DEF IInv, TokensOK
  <1>7. Queued \subseteq Jobs
    BY ElementOfSeq DEF IInv, TypeOK, Queued
  <1>8. JobsOK'
    BY <1>1, <1>2, <1>7, SetsAssumption DEF IInv, JobsOK, TypeOK
  <1> QED
    BY <1>4, <1>5, <1>6, <1>8 DEF IInv

LEMMA WorkerFlags ==
  ASSUME FlagsOK, NEW w \in Workers, Works(w)
  PROVE  FlagsOK'
BY DEF FlagsOK, Works, poolVars, userVars, GoWorker,
       WorkerAcquire, WorkerTake, WorkerStopping, WorkerBegin, WorkerExecute

LEMMA StepIInv == IInv /\ [Next]_vars => IInv'
PROOF
  <1> SUFFICES ASSUME IInv, [Next]_vars
               PROVE  IInv'
    OBVIOUS
  <1>1. ASSUME NEW c \in Clients, ClientStep(c)
        PROVE  IInv'
    BY <1>1, ClientTypes, ClientFlags, ClientTokens, ClientEnded, ClientJobs DEF IInv
  <1>2. ASSUME NEW w \in Workers, Works(w)
        PROVE  IInv'
    BY <1>2, WorkerTypes, WorkerFlags, WorkerTokens, WorkerEnded, WorkerJobs DEF IInv
  <1>3. ASSUME NEW j \in Jobs, Reclaim(j)
        PROVE  IInv'
    BY <1>3, ReclaimIInv
  <1>4. CASE UNCHANGED vars
    <2>1. /\ Calling("sb_signal")' = Calling("sb_signal") /\ Working("take")' = Working("take")
          /\ Calling("sd_release")' = Calling("sd_release") /\ Queued' = Queued /\ Leaving' = Leaving
      BY <1>4 DEF vars, poolVars, workVars, userVars, Calling, Working, Queued, Leaving
    <2> QED
      BY <1>4, <2>1 DEF vars, poolVars, workVars, userVars, IInv, TypeOK, FlagsOK, TokensOK, EndedOK, JobsOK
  <1> QED
    BY <1>1, <1>2, <1>3, <1>4 DEF Next, ClientStep

\* The flags, the tokens, the ends of the workers and the places of the jobs stay in
\* agreement, with any number of clients and workers.
THEOREM Invariance == Spec => []IInv
PROOF
  <1>1. Init => IInv
    BY InitIInv
  <1>2. IInv /\ [Next]_vars => IInv'
    BY StepIInv
  <1> QED
    BY <1>1, <1>2, PTL DEF Spec
-----------------------------------------------------------------------------
LEMMA TokensFromIInv == IInv => TokensCoverWork
PROOF
  <1> SUFFICES ASSUME IInv
               PROVE  TokensCoverWork
    OBVIOUS
  <1> DEFINE Awake == {w \in Workers : wpc[w] \notin {"ended", "stopping"}}
  <1>1. /\ signal \in Nat /\ Len(queue) \in Nat /\ Cardinality(Workers) \in Nat
        /\ Cardinality(Calling("sb_signal")) \in Nat /\ Cardinality(Working("take")) \in Nat
        /\ Cardinality(Leaving) \in Nat /\ IsFiniteSet(Leaving)
    BY FiniteCalls, LenProperties DEF IInv, TypeOK
  <1>2. Cardinality(Awake) \in Nat /\ Cardinality(Awake) <= Cardinality(Leaving)
    <2>1. Awake \subseteq Leaving
      BY DEF Leaving
    <2>2. IsFiniteSet(Awake) /\ Cardinality(Awake) <= Cardinality(Leaving)
      BY <1>1, <2>1, FS_Subset
    <2> QED
      BY <2>2, FS_CardinalityType
  <1>3. Cardinality(Calling("sd_release")) = IF Calling("sd_release") = {} THEN 0 ELSE 1
    <2>1. CASE Calling("sd_release") = {}
      BY <2>1, FS_EmptySet
    <2>2. CASE Calling("sd_release") # {}
      <3>1. PICK c \in Calling("sd_release") : TRUE
        BY <2>2
      <3>2. Calling("sd_release") = {c}
        BY <3>1 DEF Calling, IInv, FlagsOK
      <3> QED
        BY <2>2, <3>2, FS_Singleton
    <2> QED
      BY <2>1, <2>2
  <1>4. Cardinality(Calling("sd_release")) * Cardinality(Workers)
          = IF Calling("sd_release") = {} THEN 0 ELSE Cardinality(Workers)
    BY <1>1, <1>3
  <1>5. signal + Cardinality(Calling("sb_signal")) + Cardinality(Working("take"))
          + Cardinality(Calling("sd_release")) * Cardinality(Workers)
          >= Len(queue) + (IF stopping THEN Cardinality(Awake) ELSE 0)
    BY <1>1, <1>2, <1>4 DEF IInv, TokensOK
  <1> QED
    BY <1>5 DEF IInv, TokensCoverWork

\* Tokens match work: every queued job, and after a shutdown every worker that has not
\* ended, has a token in the semaphore or on its way to it.
THEOREM TokensAlwaysCoverWork == Spec => []TokensCoverWork
PROOF
  <1>1. IInv => TokensCoverWork
    BY TokensFromIInv
  <1> QED
    BY <1>1, Invariance, PTL
-----------------------------------------------------------------------------
(* The job service that the clients see.                                   *)

View == [j \in Jobs |-> ServiceStatus(j)]
ServiceNext == [Service!Next]_<<View, stopping, stopped>>

\* A step after which no client can tell a difference.
LEMMA SameView ==
  ASSUME \A j \in Jobs : ServiceStatus(j)' = ServiceStatus(j), UNCHANGED <<stopping, stopped>>
  PROVE  ServiceNext
BY DEF ServiceNext, View

\* A step after which one job is shown in another state.
LEMMA OneMove ==
  ASSUME NEW j \in Jobs, NEW from, NEW to, ServiceStatus(j) = from, ServiceStatus(j)' = to,
         \A i \in Jobs \ {j} : ServiceStatus(i)' = ServiceStatus(i), UNCHANGED <<stopping, stopped>>
  PROVE  Service!Move(j, from, to)
PROOF
  <1>1. View[j] = from /\ View' = [View EXCEPT ![j] = to]
    BY DEF View
  <1> QED
    BY <1>1 DEF View, Service!Move

LEMMA InitService == Init => Service!Init
PROOF
  <1> SUFFICES ASSUME Init
               PROVE  Service!Init
    OBVIOUS
  <1>1. \A j \in Jobs : ServiceStatus(j) = "none"
    BY DEF Init, ServiceStatus, Terminal
  <1> QED
    BY <1>1 DEF Init, Service!Init

\* Jobs somebody is about to put in the queue: no client knows them yet.
Brought(j) == \E c \in Clients : cjob[c] = j /\ pc[c] = "sb_put"

\* What is shown of a job depends on its state and on nothing else, once it is accepted.
LEMMA ShownFacts ==
  ASSUME NEW j
  PROVE  /\ Brought(j) => ServiceStatus(j) = "none"
         /\ status[j] \in {"unborn", "closed"} => ServiceStatus(j) = "none"
         /\ ~ Brought(j) /\ status[j] = "Queued" => ServiceStatus(j) = "queued"
         /\ ~ Brought(j) /\ status[j] = "Running" => ServiceStatus(j) = "running"
         /\ ~ Brought(j) /\ status[j] = "Cancelled" => ServiceStatus(j) = "cancelled"
         /\ ~ Brought(j) /\ status[j] \in {"Completed", "Failed"} => ServiceStatus(j) = "done"
BY DEF ServiceStatus, Brought

LEMMA ShownNext ==
  ASSUME NEW j
  PROVE  /\ Brought(j)' => ServiceStatus(j)' = "none"
         /\ status'[j] \in {"unborn", "closed"} => ServiceStatus(j)' = "none"
         /\ ~ Brought(j)' /\ status'[j] = "Queued" => ServiceStatus(j)' = "queued"
         /\ ~ Brought(j)' /\ status'[j] = "Running" => ServiceStatus(j)' = "running"
         /\ ~ Brought(j)' /\ status'[j] = "Cancelled" => ServiceStatus(j)' = "cancelled"
         /\ ~ Brought(j)' /\ status'[j] \in {"Completed", "Failed"} => ServiceStatus(j)' = "done"
BY DEF ServiceStatus, Brought

LEMMA SameShown ==
  ASSUME NEW j, status'[j] = status[j], Brought(j)' <=> Brought(j)
  PROVE  ServiceStatus(j)' = ServiceStatus(j)
BY DEF ServiceStatus, Brought

LEMMA SubmitService ==
  ASSUME IInv, NEW c \in Clients, Submit(c) \/ SubmitReject(c) \/ SubmitPut(c) \/ SubmitSignal(c)
  PROVE  ServiceNext
PROOF
  <1>0. pc \in [Clients -> ClientPcs] /\ cjob \in [Clients -> Jobs \cup {NoJob}]
        /\ NoJob \notin Jobs /\ status \in [Jobs -> {"unborn", "Queued", "Running", "closed"} \cup Terminal]
    BY SetsAssumption DEF IInv, TypeOK, ClientPcs
  <1> USE DEF poolVars, workVars, userVars, Step, Goto, Begin
  <1>1. CASE Submit(c)
    <2>1. PICK j \in Jobs : /\ status[j] = "unborn"
                           /\ cjob' = [cjob EXCEPT ![c] = j]
                           /\ status' = [status EXCEPT ![j] = "Queued"]
      BY <1>1 DEF Submit
    <2>2. pc' = [pc EXCEPT ![c] = "sb_put"] /\ pc[c] = "idle" /\ UNCHANGED <<stopping, stopped>>
      BY <1>1 DEF Submit
    <2>3. ServiceStatus(j)' = ServiceStatus(j)
      <3>1. Brought(j)'
        BY <1>0, <2>1, <2>2 DEF Brought
      <3> QED
        BY <2>1, <3>1, ShownFacts, ShownNext
    <2>4. ASSUME NEW i \in Jobs, i # j
          PROVE  ServiceStatus(i)' = ServiceStatus(i)
      <3>1. Brought(i)' <=> Brought(i)
        BY <1>0, <2>1, <2>2, <2>4 DEF Brought
      <3>2. status'[i] = status[i]
        BY <1>0, <2>1, <2>4
      <3> QED
        BY <3>1, <3>2, SameShown
    <2> QED
      BY <2>2, <2>3, <2>4, SameView
  <1>2. CASE SubmitReject(c)
    <2>1. /\ pc[c] = "sb_put" /\ pc' = [pc EXCEPT ![c] = "idle"]
          /\ status' = [status EXCEPT ![cjob[c]] = "unborn"] /\ cjob' = [cjob EXCEPT ![c] = NoJob]
          /\ UNCHANGED <<stopping, stopped>>
      BY <1>2 DEF SubmitReject
    <2>2. PICK j \in Jobs : j = cjob[c]
      BY <2>1 DEF IInv, JobsOK
    <2>3. ServiceStatus(j)' = ServiceStatus(j)
      <3>1. Brought(j) /\ status'[j] = "unborn"
        BY <1>0, <2>1, <2>2 DEF Brought
      <3> QED
        BY <3>1, ShownFacts, ShownNext
    <2>4. ASSUME NEW i \in Jobs, i # j
          PROVE  ServiceStatus(i)' = ServiceStatus(i)
      <3>1. Brought(i)' <=> Brought(i)
        BY <1>0, <2>1, <2>2, <2>4 DEF Brought
      <3>2. status'[i] = status[i]
        BY <1>0, <2>1, <2>2, <2>4
      <3> QED
        BY <3>1, <3>2, SameShown
    <2> QED
      BY <2>1, <2>3, <2>4, SameView
  <1>3. CASE SubmitPut(c)
    <2>1. /\ pc[c] = "sb_put" /\ pc' = [pc EXCEPT ![c] = "sb_signal"]
          /\ accepting /\ UNCHANGED <<stopping, stopped, status, cjob>>
      BY <1>3 DEF SubmitPut
    <2>2. PICK j \in Jobs : j = cjob[c]
      BY <2>1 DEF IInv, JobsOK
    <2>3. ServiceStatus(j) = "none" /\ ServiceStatus(j)' = "queued"
      <3>1. Brought(j) /\ ~ Brought(j)'
        BY <1>0, <2>1, <2>2 DEF Brought, IInv, JobsOK
      <3>2. status'[j] = "Queued"
        BY <2>1, <2>2 DEF IInv, JobsOK
      <3> QED
        BY <3>1, <3>2, ShownFacts, ShownNext
    <2>4. ASSUME NEW i \in Jobs \ {j}
          PROVE  ServiceStatus(i)' = ServiceStatus(i)
      <3>1. Brought(i)' <=> Brought(i)
        BY <1>0, <2>1, <2>2 DEF Brought
      <3> QED
        BY <2>1, <3>1, SameShown
    <2>5. Service!Move(j, "none", "queued")
      BY <2>1, <2>3, <2>4, OneMove
    <2>6. ~ stopping
      BY <2>1 DEF IInv, FlagsOK
    <2> QED
      BY <2>5, <2>6 DEF ServiceNext, Service!Next, Service!Accept
  <1>4. CASE SubmitSignal(c)
    <2>1. /\ pc[c] = "sb_signal" /\ pc' = [pc EXCEPT ![c] = "idle"]
          /\ cjob' = [cjob EXCEPT ![c] = NoJob] /\ UNCHANGED <<stopping, stopped, status>>
      BY <1>4 DEF SubmitSignal
    <2>2. ASSUME NEW i \in Jobs
          PROVE  ServiceStatus(i)' = ServiceStatus(i)
      <3>1. Brought(i)' <=> Brought(i)
        BY <1>0, <2>1 DEF Brought
      <3> QED
        BY <2>1, <3>1, SameShown
    <2> QED
      BY <2>1, <2>2, SameView
  <1> QED
    BY <1>1, <1>2, <1>3, <1>4

\* The steps that change no job.
LEMMA QuietService ==
  ASSUME UNCHANGED <<status, cjob, stopping, stopped>>,
         \A c \in Clients : pc'[c] = "sb_put" <=> pc[c] = "sb_put"
  PROVE  ServiceNext
PROOF
  <1>1. ASSUME NEW j \in Jobs
        PROVE  ServiceStatus(j)' = ServiceStatus(j)
    <2>1. Brought(j)' <=> Brought(j)
      BY DEF Brought
    <2> QED
      BY <2>1, SameShown
  <1> QED
    BY <1>1, SameView

\* The steps that change the state of one job that was accepted, and nothing else a
\* client can tell.
LEMMA JobMoves ==
  ASSUME IInv, NEW j \in Jobs, ~ Brought(j), NEW s, status' = [status EXCEPT ![j] = s],
         UNCHANGED <<pc, cjob, stopping, stopped>>,
         \/ status[j] = "Queued" /\ s \in {"Running", "Cancelled"}
         \/ status[j] = "Running" /\ s \in {"Completed", "Failed"}
         \/ status[j] \in Terminal /\ s = "closed"
         \/ status[j] = "closed" /\ s = "unborn"
  PROVE  ServiceNext
PROOF
  <1>0. status'[j] = s /\ \A i \in Jobs \ {j} : status'[i] = status[i]
    BY DEF IInv, TypeOK
  <1>1. \A i : Brought(i)' <=> Brought(i)
    BY DEF Brought
  <1>2. \A i \in Jobs \ {j} : ServiceStatus(i)' = ServiceStatus(i)
    BY <1>0, <1>1, SameShown
  <1>3. CASE status[j] = "Queued"
    <2>1. ServiceStatus(j) = "queued" /\ (s = "Running" => ServiceStatus(j)' = "running")
          /\ (s = "Cancelled" => ServiceStatus(j)' = "cancelled")
      BY <1>0, <1>1, <1>3, ShownFacts, ShownNext
    <2>2. CASE s = "Running"
      BY <1>2, <2>1, <2>2, OneMove DEF ServiceNext, Service!Next, Service!Run
    <2>3. CASE s = "Cancelled"
      BY <1>2, <2>1, <2>3, OneMove DEF ServiceNext, Service!Next, Service!Cancel
    <2> QED
      BY <1>3, <2>2, <2>3 DEF Terminal
  <1>4. CASE status[j] = "Running"
    <2>1. ServiceStatus(j) = "running" /\ ServiceStatus(j)' = "done"
      BY <1>0, <1>1, <1>4, ShownFacts, ShownNext DEF Terminal
    <2> QED
      BY <1>2, <2>1, OneMove DEF ServiceNext, Service!Next, Service!Finish
  <1>5. CASE status[j] \in Terminal
    <2>1. ServiceStatus(j) \in {"cancelled", "done"} /\ ServiceStatus(j)' = "none"
      BY <1>0, <1>1, <1>5, ShownFacts, ShownNext DEF Terminal
    <2> QED
      BY <1>2, <2>1, OneMove DEF ServiceNext, Service!Next, Service!Forget
  <1>6. CASE status[j] = "closed"
    <2>1. ServiceStatus(j) = "none" /\ ServiceStatus(j)' = "none"
      BY <1>0, <1>6, ShownFacts, ShownNext DEF Terminal
    <2> QED
      BY <1>2, <2>1, SameView
  <1> QED
    BY <1>3, <1>4, <1>5, <1>6

LEMMA WorkerService ==
  ASSUME IInv, NEW w \in Workers, Works(w)
  PROVE  ServiceNext
PROOF
  <1> USE DEF poolVars, userVars, GoWorker
  <1>1. CASE UNCHANGED status
    <2>1. UNCHANGED <<status, pc, cjob, stopping, stopped>>
      BY <1>1 DEF Works, WorkerAcquire, WorkerTake, WorkerStopping, WorkerBegin, WorkerExecute
    <2> QED
      BY <2>1, QuietService
  <1>2. CASE status' # status
    <2>1. UNCHANGED <<pc, cjob, stopping, stopped>> /\ wpc[w] \in {"begin", "execute"}
          /\ (WorkerBegin(w) \/ WorkerExecute(w))
      BY <1>2 DEF Works, WorkerAcquire, WorkerTake, WorkerStopping, WorkerBegin, WorkerExecute
    <2>2. PICK j \in Jobs : j = wjob[w]
      BY <2>1 DEF IInv, JobsOK
    <2>3. ~ Brought(j)
      BY <2>2 DEF Brought, IInv, JobsOK
    <2>4. CASE WorkerBegin(w)
      <3>1. status[j] = "Queued" /\ status' = [status EXCEPT ![j] = "Running"]
        BY <1>2, <2>2, <2>4 DEF WorkerBegin
      <3> QED
        BY <2>1, <2>3, <3>1, JobMoves
    <2>5. CASE WorkerExecute(w)
      <3>1. PICK s \in {"Completed", "Failed"} :
               status' = [status EXCEPT ![j] = IF status[j] = "Running" THEN s ELSE status[j]]
        BY <2>2, <2>5 DEF WorkerExecute
      <3>2. status[j] = "Running"
        <4>1. status \in [Jobs -> {"unborn", "Queued", "Running", "closed"} \cup Terminal]
          BY DEF IInv, TypeOK
        <4>2. [status EXCEPT ![j] = status[j]] = status
          BY <4>1
        <4> QED
          BY <1>2, <3>1, <4>2
      <3>3. status' = [status EXCEPT ![j] = s]
        BY <3>1, <3>2
      <3> QED
        BY <2>1, <2>3, <3>2, <3>3, JobMoves
    <2> QED
      BY <2>1, <2>4, <2>5
  <1> QED
    BY <1>1, <1>2

LEMMA HandleService ==
  ASSUME IInv, NEW c \in Clients, NEW j \in Jobs, CancelJob(c, j) \/ CloseJob(c, j)
  PROVE  ServiceNext
PROOF
  <1>1. UNCHANGED <<pc, cjob, stopping, stopped>> /\ ~ Brought(j)
    BY DEF CancelJob, CloseJob, Published, Brought, poolVars, userVars
  <1>2. CASE CancelJob(c, j)
    <2>1. status[j] = "Queued" /\ status' = [status EXCEPT ![j] = "Cancelled"]
      BY <1>2 DEF CancelJob
    <2> QED
      BY <1>1, <2>1, JobMoves
  <1>3. CASE CloseJob(c, j)
    <2>1. status[j] \in Terminal /\ status' = [status EXCEPT ![j] = "closed"]
      BY <1>3 DEF CloseJob
    <2> QED
      BY <1>1, <2>1, JobMoves
  <1> QED
    BY <1>2, <1>3

LEMMA ReclaimService ==
  ASSUME IInv, NEW j \in Jobs, Reclaim(j)
  PROVE  ServiceNext
PROOF
  <1>1. /\ UNCHANGED <<pc, cjob, stopping, stopped>> /\ status[j] = "closed"
        /\ status' = [status EXCEPT ![j] = "unborn"]
    BY DEF Reclaim, poolVars, userVars
  <1>2. ~ Brought(j)
    BY <1>1 DEF Brought, IInv, JobsOK
  <1> QED
    BY <1>1, <1>2, JobMoves

\* Shutdown cancels nothing, stop what is in the queue.
LEMMA ShutdownService ==
  ASSUME IInv, NEW c \in Clients, Shutdown(c) \/ Stop(c)
  PROVE  ServiceNext
PROOF
  <1>0. pc \in [Clients -> ClientPcs]
    BY DEF IInv, TypeOK, ClientPcs
  <1> USE DEF poolVars, workVars, userVars, Step, Goto, Begin, Return
  <1>1. \A i : Brought(i)' <=> Brought(i)
    BY <1>0 DEF Brought, Shutdown, Stop
  <1>2. CASE Shutdown(c)
    <2>1. UNCHANGED <<status, stopped>>
      BY <1>2 DEF Shutdown
    <2>2. \A j \in Jobs : ServiceStatus(j)' = ServiceStatus(j)
      BY <1>1, <2>1, SameShown
    <2>3. CASE UNCHANGED stopping
      BY <2>1, <2>2, <2>3, SameView
    <2>4. CASE stopping' # stopping
      <3>1. stopping' = TRUE
        BY <1>2, <2>4 DEF Shutdown
      <3>2. PICK S \in SUBSET {j \in Jobs : View[j] = "queued"} : S = {}
        OBVIOUS
      <3>3. View' = [j \in Jobs |-> IF j \in S THEN "cancelled" ELSE View[j]]
        BY <2>2, <3>2 DEF View
      <3> QED
        BY <2>1, <3>1, <3>3 DEF ServiceNext, Service!Next, Service!ShutDown, View
    <2> QED
      BY <2>3, <2>4
  <1>3. CASE Stop(c)
    <2> DEFINE Cut == {j \in Jobs : j \in Queued /\ status[j] = "Queued"}
    <2>1. stopping' = TRUE /\ UNCHANGED stopped
          /\ status' = [j \in Jobs |-> IF j \in Cut THEN "Cancelled" ELSE status[j]]
      BY <1>3 DEF Stop
    <2>2. ASSUME NEW j \in Cut
          PROVE  ServiceStatus(j) = "queued" /\ ServiceStatus(j)' = "cancelled"
      <3>1. ~ Brought(j)
        BY DEF Brought, IInv, JobsOK
      <3>2. status'[j] = "Cancelled"
        BY <2>1
      <3> QED
        BY <1>1, <3>1, <3>2, ShownFacts, ShownNext
    <2>3. ASSUME NEW j \in Jobs \ Cut
          PROVE  ServiceStatus(j)' = ServiceStatus(j)
      BY <1>1, <2>1, SameShown
    <2>4. View' = [j \in Jobs |-> IF j \in Cut THEN "cancelled" ELSE View[j]]
      BY <2>2, <2>3 DEF View
    <2>5. Cut \in SUBSET {j \in Jobs : View[j] = "queued"}
      BY <2>2 DEF View
    <2> HIDE DEF Cut
    <2> QED
      BY <2>1, <2>4, <2>5 DEF ServiceNext, Service!Next, Service!ShutDown, View
  <1> QED
    BY <1>2, <1>3

\* When the join has found every worker ended, no accepted job waits or runs.
LEMMA JoinService ==
  ASSUME IInv, NEW c \in Clients, JoinStopped(c)
  PROVE  ServiceNext
PROOF
  <1>0. pc \in [Clients -> ClientPcs]
    BY DEF IInv, TypeOK, ClientPcs
  <1>1. pc[c] = "jn_stopped" /\ stopped' = TRUE /\ UNCHANGED <<status, cjob, stopping>>
    BY DEF JoinStopped
  <1>2. \A j : Brought(j)' <=> Brought(j)
    BY <1>0 DEF JoinStopped, Return, Goto, Brought
  <1>3. (\A w \in Workers : wpc[w] = "ended") /\ stopping /\ queue = << >>
    BY <1>1, SetsAssumption DEF IInv, EndedOK
  <1>4. Queued = {}
    BY <1>3 DEF Queued
  <1>5. ASSUME NEW j \in Jobs
        PROVE  ServiceStatus(j) \notin {"queued", "running"}
    <2>1. status[j] # "Running"
      BY <1>3 DEF IInv, JobsOK
    <2>2. status[j] = "Queued" => Brought(j)
      BY <1>3, <1>4 DEF IInv, JobsOK, Brought
    <2>3. status[j] \in {"unborn", "Queued", "closed", "Completed", "Failed", "Cancelled"}
      BY <2>1 DEF IInv, TypeOK, Terminal
    <2> QED
      BY <2>2, <2>3, ShownFacts
  <1>6. \A j \in Jobs : ServiceStatus(j)' = ServiceStatus(j)
    BY <1>1, <1>2, SameShown
  <1>7. Service!Terminate
    BY <1>1, <1>3, <1>5, <1>6 DEF Service!Terminate
  <1> QED
    BY <1>7 DEF ServiceNext, Service!Next

LEMMA ClientService ==
  ASSUME IInv, NEW c \in Clients, ClientStep(c)
  PROVE  ServiceNext
PROOF
  <1>0. pc \in [Clients -> ClientPcs]
    BY DEF IInv, TypeOK, ClientPcs
  <1>1. CASE ShutdownBegin(c) \/ ReleaseAll(c) \/ JoinBegin(c) \/ CloseBegin(c)
             \/ JoinCheck(c) \/ JoinWait(c) \/ JoinTimeout(c) \/ CloseHandles(c)
    <2> USE DEF poolVars, Step, Goto, Begin, Return
    <2>1. UNCHANGED <<status, cjob, stopping, stopped>> /\ pc[c] # "sb_put"
      BY <1>1 DEF ShutdownBegin, ReleaseAll, JoinBegin, CloseBegin,
                  JoinCheck, JoinWait, JoinTimeout, CloseHandles
    <2>2. PICK l \in ClientPcs \ {"sb_put"} : pc' = [pc EXCEPT ![c] = l]
      BY <1>1 DEF ShutdownBegin, ReleaseAll, JoinBegin, CloseBegin,
                  JoinCheck, JoinWait, JoinTimeout, CloseHandles, ClientPcs
    <2>3. \A d \in Clients : pc'[d] = "sb_put" <=> pc[d] = "sb_put"
      BY <1>0, <2>1, <2>2
    <2> QED
      BY <2>1, <2>3, QuietService
  <1> QED
    BY <1>1, SubmitService, HandleService, ShutdownService, JoinService DEF ClientStep, Begins, Continues

\* The pool is the job service its clients see: a job is accepted only while nobody has
\* shut the pool down, is claimed at most once, is cancelled or run but not both, and
\* once the pool is stopped none that was accepted is left.
THEOREM PoolIsAJobService == Spec => ImplementsService
PROOF
  <1>1. Init => Service!Init
    BY InitService
  <1>2. IInv /\ [Next]_vars => [Service!Next]_<<View, stopping, stopped>>
    <2> SUFFICES ASSUME IInv, [Next]_vars
                 PROVE  ServiceNext
      BY DEF ServiceNext
    <2>1. CASE UNCHANGED vars
      BY <2>1, QuietService DEF vars, poolVars, userVars
    <2> QED
      BY <2>1, ClientService, WorkerService, ReclaimService DEF Next, ClientStep
  <1> QED
    BY <1>1, <1>2, Invariance, PTL DEF Spec, ImplementsService, Service!Spec, View
-----------------------------------------------------------------------------
(* JobQueue.                                                               *)

RingTypes ==
  /\ ring \in Seq(Entries \cup {Empty})
  /\ queueHead \in Nat /\ queueTail \in Nat /\ queuedCount \in 0 .. Len(ring)
  /\ open \in BOOLEAN

\* The tail is where the next job belongs; an empty queue starts at the first cell.
PositionsOK ==
  /\ Len(ring) > 0 => queueHead < Len(ring) /\ queueTail = (queueHead + queuedCount) % Len(ring)
  /\ queuedCount = 0 => queueHead = 0 /\ queueTail = 0

\* Between head and tail there are jobs, elsewhere there is nothing.
CellsOK ==
  /\ \A i \in 0 .. queuedCount - 1 : ring[Cell(i)] \in Entries
  /\ \A k \in 1 .. Len(ring) :
       (\A i \in 0 .. queuedCount - 1 : k # Cell(i)) => ring[k] = Empty

QueueInv == RingTypes /\ PositionsOK /\ CellsOK
-----------------------------------------------------------------------------
\* The remainder of a position less than one turn ahead.
LEMMA OneTurn ==
  ASSUME NEW n \in Nat \ {0}, NEW x \in 0 .. 2 * n - 1
  PROVE  x % n = IF x < n THEN x ELSE x - n
PROOF
  <1>1. CASE x < n
    BY <1>1
  <1>2. CASE n <= x
    BY <1>2
  <1> QED
    BY <1>1, <1>2

LEMMA OneCell ==
  ASSUME NEW n \in Nat, NEW h \in 0 .. n - 1, NEW i \in 0 .. n - 1, NEW k \in 0 .. n - 1,
         (IF h + i < n THEN 1 + h + i ELSE 1 + h + i - n)
           = (IF h + k < n THEN 1 + h + k ELSE 1 + h + k - n)
  PROVE  i = k
OBVIOUS

\* Each job that can be queued has a cell of its own.
LEMMA CellFacts ==
  ASSUME RingTypes, PositionsOK, Len(ring) > 0
  PROVE  /\ \A i \in 0 .. Len(ring) : Cell(i) =
              IF queueHead + i < Len(ring) THEN 1 + queueHead + i ELSE 1 + queueHead + i - Len(ring)
         /\ \A i \in 0 .. Len(ring) : Cell(i) \in 1 .. Len(ring)
         /\ \A i, n \in 0 .. Len(ring) - 1 : Cell(i) = Cell(n) => i = n
         /\ Cell(0) = queueHead + 1
         /\ Cell(queuedCount) = queueTail + 1
PROOF
  <1> DEFINE n == Len(ring)
             Turn(x) == IF x < n THEN x ELSE x - n
  <1>1. n \in Nat \ {0} /\ queueHead \in 0 .. n - 1 /\ queuedCount \in 0 .. n
    BY DEF RingTypes, PositionsOK
  <1>2. ASSUME NEW i \in 0 .. n
        PROVE  Cell(i) = 1 + Turn(queueHead + i) /\ (queueHead + i) % n = Turn(queueHead + i)
    <2>1. queueHead + i \in 0 .. 2 * n - 1
      BY <1>1
    <2>2. (queueHead + i) % n = Turn(queueHead + i)
      BY <1>1, <2>1, OneTurn
    <2> QED
      BY <2>2 DEF Cell
  <1>3. Cell(queuedCount) = queueTail + 1
    <2>1. queueTail = Turn(queueHead + queuedCount)
      BY <1>1, <1>2 DEF PositionsOK
    <2> QED
      BY <1>1, <1>2, <2>1
  <1>4. \A i \in 0 .. n : Cell(i) =
          IF queueHead + i < n THEN 1 + queueHead + i ELSE 1 + queueHead + i - n
    BY <1>1, <1>2
  <1>5. \A i \in 0 .. n : Cell(i) \in 1 .. n
    BY <1>1, <1>4
  <1>6. \A i, k \in 0 .. n - 1 : Cell(i) = Cell(k) => i = k
    <2>1. SUFFICES ASSUME NEW i \in 0 .. n - 1, NEW k \in 0 .. n - 1, Cell(i) = Cell(k)
                   PROVE  i = k
      OBVIOUS
    <2>2. /\ Cell(i) = IF queueHead + i < n THEN 1 + queueHead + i ELSE 1 + queueHead + i - n
          /\ Cell(k) = IF queueHead + k < n THEN 1 + queueHead + k ELSE 1 + queueHead + k - n
      BY <1>1, <1>4
    <2> HIDE DEF n
    <2> QED
      BY <1>1, <2>1, <2>2, OneCell
  <1>7. Cell(0) = queueHead + 1
    BY <1>1, <1>4
  <1> QED
    BY <1>3, <1>4, <1>5, <1>6, <1>7

\* What the array keeps alive are the jobs in the queue.
PendingOK ==
  /\ Pending \in Seq(Entries) /\ Len(Pending) = queuedCount
  /\ \A i \in 1 .. queuedCount : Pending[i] = ring[Cell(i - 1)]
  /\ Kept = {Pending[i] : i \in DOMAIN Pending}

LEMMA QueueFacts == QueueInv => PendingOK
PROOF
  <1> SUFFICES ASSUME QueueInv PROVE PendingOK
    OBVIOUS
  <1>1. queuedCount \in Nat /\ Len(ring) \in Nat /\ queuedCount <= Len(ring)
    BY DEF QueueInv, RingTypes
  <1>2. Pending \in [1 .. queuedCount -> Entries]
    <2>1. \A i \in 1 .. queuedCount : i - 1 \in 0 .. queuedCount - 1
      BY <1>1
    <2> QED
      BY <2>1 DEF Pending, QueueInv, CellsOK
  <1>3. Pending \in Seq(Entries) /\ Len(Pending) = queuedCount /\ DOMAIN Pending = 1 .. queuedCount
    BY <1>1, <1>2, SeqDef
  <1>4. \A i \in 1 .. queuedCount : Pending[i] = ring[Cell(i - 1)]
    BY DEF Pending
  <1>5. ASSUME NEW i \in 1 .. queuedCount
        PROVE  Pending[i] \in Kept
    <2>1. Cell(i - 1) \in 1 .. Len(ring) /\ ring[Cell(i - 1)] \in Entries
      BY <1>1, CellFacts DEF QueueInv, CellsOK
    <2> QED
      BY <1>4, <2>1, RingAssumption DEF Kept, QueueInv, RingTypes
  <1>6. ASSUME NEW v \in Kept
        PROVE  \E i \in 1 .. queuedCount : Pending[i] = v
    <2>1. PICK k \in 1 .. Len(ring) : ring[k] = v /\ v # Empty
      BY DEF Kept, QueueInv, RingTypes
    <2>2. PICK i \in 0 .. queuedCount - 1 : k = Cell(i)
      BY <2>1 DEF QueueInv, CellsOK
    <2>3. i + 1 \in 1 .. queuedCount /\ (i + 1) - 1 = i
      BY <1>1
    <2> QED
      BY <1>4, <2>1, <2>2, <2>3
  <1> QED
    BY <1>3, <1>4, <1>5, <1>6 DEF PendingOK

LEMMA QueueFactsNext == QueueInv' => PendingOK'
  BY QueueFacts, PTL

-----------------------------------------------------------------------------
LEMMA InitQueue == QueueInit => QueueInv /\ Queue!Init
PROOF
  <1> SUFFICES ASSUME QueueInit
               PROVE  QueueInv /\ Queue!Init
    OBVIOUS
  <1>1. Pending = <<>> /\ Kept = {}
    BY DEF QueueInit, Pending, Kept
  <1>2. QueueInv
    BY DEF QueueInit, QueueInv, RingTypes, PositionsOK, CellsOK
  <1> QED
    BY <1>1, <1>2 DEF QueueInit, Queue!Init

\* A job that is put goes behind the others.
LEMMA PutAppends ==
  ASSUME QueueInv, NEW j \in Entries, Put(j)
  PROVE  QueueInv' /\ Pending' = Append(Pending, j)
PROOF
  <1>1. /\ queuedCount \in Nat /\ Len(ring) \in Nat /\ queuedCount < Len(ring)
        /\ ring \in Seq(Entries \cup {Empty}) /\ queueHead \in 0 .. Len(ring) - 1
    BY DEF Put, NeedsSpace, QueueInv, RingTypes, PositionsOK
  <1>2. /\ queueTail + 1 = Cell(queuedCount) /\ Cell(queuedCount) \in 1 .. Len(ring)
        /\ \A i \in 0 .. queuedCount - 1 : Cell(i) \in 1 .. Len(ring) /\ Cell(i) # Cell(queuedCount)
    <2>1. /\ Len(ring) > 0 /\ queuedCount \in 0 .. Len(ring) - 1 /\ queuedCount \in 0 .. Len(ring)
          /\ \A i \in 0 .. queuedCount - 1 :
               i \in 0 .. Len(ring) - 1 /\ i \in 0 .. Len(ring) /\ i # queuedCount
      BY <1>1
    <2>2. RingTypes /\ PositionsOK
      BY DEF QueueInv
    <2>3. /\ \A i \in 0 .. Len(ring) : Cell(i) \in 1 .. Len(ring)
          /\ \A i, n \in 0 .. Len(ring) - 1 : Cell(i) = Cell(n) => i = n
          /\ Cell(queuedCount) = queueTail + 1
      BY <2>1, <2>2, CellFacts
    <2> QED
      BY <2>1, <2>3
  <1>3. /\ ring' = [ring EXCEPT ![Cell(queuedCount)] = j] /\ queuedCount' = queuedCount + 1
        /\ queueHead' = queueHead /\ queueTail' = (queueTail + 1) % Len(ring) /\ open' = open
    BY <1>2 DEF Put, Store
  <1>4. ring' \in Seq(Entries \cup {Empty}) /\ Len(ring') = Len(ring)
    BY <1>1, <1>2, <1>3
  <1>5. \A i : Cell(i)' = Cell(i)
    BY <1>3, <1>4 DEF Cell
  <1>6. /\ \A i \in 0 .. queuedCount - 1 : ring'[Cell(i)] = ring[Cell(i)]
        /\ ring'[Cell(queuedCount)] = j
    BY <1>1, <1>2, <1>3
  <1>7. RingTypes' /\ PositionsOK'
    <2>1. queueTail' = (queueHead + queuedCount + 1) % Len(ring)
      <3>1. Cell(queuedCount) = IF queueHead + queuedCount < Len(ring) THEN 1 + queueHead + queuedCount
                                ELSE 1 + queueHead + queuedCount - Len(ring)
        <4>1. queuedCount \in 0 .. Len(ring) /\ Len(ring) > 0 /\ RingTypes /\ PositionsOK
          BY <1>1 DEF QueueInv
        <4> QED
          BY <4>1, CellFacts
      <3>2. CASE queueHead + queuedCount < Len(ring)
        <4>1. queueTail + 1 = queueHead + queuedCount + 1
          BY <1>1, <1>2, <3>1, <3>2 DEF QueueInv, RingTypes
        <4> QED
          BY <1>3, <4>1
      <3>3. CASE queueHead + queuedCount >= Len(ring)
        <4>1. /\ queueTail + 1 = queueHead + queuedCount + 1 - Len(ring)
              /\ queueTail + 1 \in 0 .. 2 * Len(ring) - 1 /\ queueTail + 1 < Len(ring)
              /\ queueHead + queuedCount + 1 \in 0 .. 2 * Len(ring) - 1
              /\ ~ (queueHead + queuedCount + 1 < Len(ring))
          BY <1>1, <1>2, <3>1, <3>3 DEF QueueInv, RingTypes
        <4>2. (queueTail + 1) % Len(ring) = queueTail + 1
          BY <1>1, <4>1, OneTurn
        <4>3. (queueHead + queuedCount + 1) % Len(ring) = queueHead + queuedCount + 1 - Len(ring)
          <5> DEFINE x == queueHead + queuedCount + 1
          <5>1. x \in 0 .. 2 * Len(ring) - 1 /\ ~ (x < Len(ring)) /\ Len(ring) \in Nat \ {0}
            BY <1>1, <4>1
          <5> HIDE DEF x
          <5>2. x % Len(ring) = x - Len(ring)
            BY <5>1, OneTurn
          <5> QED
            BY <1>1, <5>1, <5>2 DEF x
        <4> QED
          BY <1>3, <4>1, <4>2, <4>3
      <3> QED
        BY <1>1, <3>2, <3>3
    <2>2. (queueHead + queuedCount + 1) % Len(ring) \in 0 .. Len(ring) - 1
      BY <1>1
    <2> QED
      BY <1>1, <1>3, <1>4, <2>1, <2>2 DEF QueueInv, RingTypes, PositionsOK
  <1>8. CellsOK'
    <2>1. ASSUME NEW i \in 0 .. queuedCount
          PROVE  ring'[Cell(i)] \in Entries
      BY <1>1, <1>6 DEF QueueInv, CellsOK
    <2>2. ASSUME NEW k \in 1 .. Len(ring), \A i \in 0 .. queuedCount : k # Cell(i)
          PROVE  ring'[k] = Empty
      <3>1. k # Cell(queuedCount) /\ \A i \in 0 .. queuedCount - 1 : k # Cell(i)
        BY <1>1, <2>2
      <3>2. ring'[k] = ring[k]
        BY <1>1, <1>3, <3>1
      <3> QED
        BY <3>1, <3>2 DEF QueueInv, CellsOK
    <2>3. queuedCount' - 1 = queuedCount
      BY <1>1, <1>3
    <2> QED
      BY <1>4, <1>5, <2>1, <2>2, <2>3 DEF CellsOK
  <1>9. QueueInv'
    BY <1>7, <1>8 DEF QueueInv
  <1>10. Pending' = Append(Pending, j)
    <2>1. /\ Pending \in Seq(Entries) /\ Len(Pending) = queuedCount
          /\ \A i \in 1 .. queuedCount : Pending[i] = ring[Cell(i - 1)]
      BY QueueFacts DEF PendingOK
    <2>2. /\ Pending' \in Seq(Entries) /\ Len(Pending') = queuedCount + 1
          /\ \A i \in 1 .. queuedCount + 1 : Pending'[i] = ring'[Cell(i - 1)]
      BY <1>3, <1>5, <1>9, QueueFactsNext DEF PendingOK
    <2>3. /\ Append(Pending, j) \in Seq(Entries) /\ Len(Append(Pending, j)) = queuedCount + 1
          /\ \A i \in 1 .. queuedCount : Append(Pending, j)[i] = Pending[i]
          /\ Append(Pending, j)[queuedCount + 1] = j
      BY <1>1, <2>1, AppendProperties
    <2>4. ASSUME NEW i \in 1 .. queuedCount + 1
          PROVE  Pending'[i] = Append(Pending, j)[i]
      <3>1. CASE i = queuedCount + 1
        <4>1. i - 1 = queuedCount
          BY <1>1, <3>1
        <4> QED
          BY <1>6, <2>2, <2>3, <3>1, <4>1
      <3>2. CASE i \in 1 .. queuedCount
        <4>1. i - 1 \in 0 .. queuedCount - 1
          BY <1>1, <3>2
        <4> QED
          BY <1>6, <2>1, <2>2, <2>3, <3>2, <4>1
      <3>3. i = queuedCount + 1 \/ i \in 1 .. queuedCount
        BY <1>1
      <3> QED
        BY <3>1, <3>2, <3>3
    <2> QED
      BY <2>2, <2>3, <2>4, SeqEqual
  <1> QED
    BY <1>9, <1>10

\* A grown array holds the same jobs, from its first cell on.
LEMMA GrownFacts ==
  ASSUME QueueInv, NeedsSpace, CanGrow
  PROVE  /\ NewCapacity \in Nat /\ queuedCount < NewCapacity
         /\ Grown \in Seq(Entries \cup {Empty}) /\ Len(Grown) = NewCapacity
         /\ \A k \in 1 .. queuedCount : Grown[k] = Pending[k]
         /\ \A k \in 1 .. NewCapacity : k > queuedCount => Grown[k] = Empty
PROOF
  <1> DEFINE n == Len(ring)
             toEnd == n - queueHead
             first == IF toEnd > queuedCount THEN queuedCount ELSE toEnd
  <1>1. /\ n \in Nat /\ queuedCount = n /\ ring \in Seq(Entries \cup {Empty})
        /\ queueHead \in Nat /\ (n > 0 => queueHead < n) /\ (n = 0 => queueHead = 0)
    BY DEF NeedsSpace, QueueInv, RingTypes, PositionsOK
  <1>2. NewCapacity \in Nat /\ queuedCount < NewCapacity
    BY <1>1, RingAssumption DEF CanGrow, NewCapacity
  <1>3. Grown = [k \in 1 .. NewCapacity |->
                   IF k <= first THEN ring[queueHead + k]
                   ELSE IF k <= queuedCount THEN ring[k - first] ELSE Empty]
    BY DEF Grown
  <1>4. ASSUME NEW k \in 1 .. queuedCount
        PROVE  Grown[k] = ring[Cell(k - 1)] /\ Cell(k - 1) \in 1 .. n
    <2>1. n > 0 /\ k - 1 \in 0 .. n /\ k \in 1 .. NewCapacity /\ first = toEnd
      BY <1>1, <1>2
    <2>2. Cell(k - 1) = IF queueHead + (k - 1) < n THEN 1 + queueHead + (k - 1)
                        ELSE 1 + queueHead + (k - 1) - n
      BY <2>1, CellFacts DEF QueueInv
    <2>3. CASE k <= toEnd
      <3>1. Cell(k - 1) = queueHead + k /\ queueHead + k \in 1 .. n
        BY <1>1, <2>1, <2>2, <2>3
      <3> QED
        BY <1>3, <2>1, <2>3, <3>1
    <2>4. CASE k > toEnd
      <3>1. Cell(k - 1) = k - first /\ k - first \in 1 .. n /\ ~ (k <= first)
        BY <1>1, <2>1, <2>2, <2>4
      <3> QED
        BY <1>3, <2>1, <3>1
    <2> QED
      BY <1>1, <2>3, <2>4
  <1>5. \A k \in 1 .. NewCapacity : k > queuedCount => Grown[k] = Empty
    <2>1. first <= queuedCount /\ first \in Int
      BY <1>1
    <2>2. \A k \in 1 .. NewCapacity : k > queuedCount => ~ (k <= first) /\ ~ (k <= queuedCount)
      BY <1>1, <1>2, <2>1
    <2> QED
      BY <1>3, <2>2
  <1>6. Grown \in [1 .. NewCapacity -> Entries \cup {Empty}]
    <2>1. \A k \in 1 .. queuedCount : Grown[k] \in Entries \cup {Empty}
      BY <1>1, <1>4
    <2>2. \A k \in 1 .. NewCapacity : k \in 1 .. queuedCount \/ k > queuedCount
      BY <1>1, <1>2
    <2>3. \A k \in 1 .. NewCapacity : Grown[k] \in Entries \cup {Empty}
      BY <1>5, <2>1, <2>2
    <2> QED
      BY <1>3, <2>3
  <1>7. Grown \in Seq(Entries \cup {Empty})
    BY <1>2, <1>6, SeqDef
  <1>8. Len(Grown) = NewCapacity
    BY <1>2, <1>6, <1>7, LenProperties
  <1>9. \A k \in 1 .. queuedCount : Grown[k] = Pending[k]
    BY <1>4, QueueFacts DEF PendingOK
  <1> QED
    BY <1>2, <1>5, <1>7, <1>8, <1>9

\* Nothing is lost, doubled or reordered when the array has to grow.
LEMMA PutGrownAppends ==
  ASSUME QueueInv, NEW j \in Entries, PutGrown(j)
  PROVE  QueueInv' /\ Pending' = Append(Pending, j)
PROOF
  <1> DEFINE c == queuedCount
  <1>1. /\ c \in Nat /\ NewCapacity \in Nat /\ c < NewCapacity
        /\ Grown \in Seq(Entries \cup {Empty}) /\ Len(Grown) = NewCapacity
        /\ \A k \in 1 .. c : Grown[k] = Pending[k]
        /\ \A k \in 1 .. NewCapacity : k > c => Grown[k] = Empty
    BY GrownFacts DEF PutGrown, QueueInv, RingTypes
  <1>2. /\ Pending \in Seq(Entries) /\ Len(Pending) = c
    BY QueueFacts DEF PendingOK
  <1>3. /\ ring' = [Grown EXCEPT ![c + 1] = j] /\ queuedCount' = c + 1
        /\ queueHead' = 0 /\ queueTail' = (c + 1) % NewCapacity /\ open' = open
    BY <1>1 DEF PutGrown, Store
  <1>4. c + 1 \in 1 .. NewCapacity
    BY <1>1
  <1>5. /\ ring' \in Seq(Entries \cup {Empty}) /\ Len(ring') = NewCapacity
        /\ \A k \in 1 .. NewCapacity : ring'[k] = IF k = c + 1 THEN j ELSE Grown[k]
    BY <1>1, <1>3, <1>4
  <1>6. \A i \in 0 .. c : Cell(i)' = i + 1
    <2>1. SUFFICES ASSUME NEW i \in 0 .. c
                   PROVE  Cell(i)' = i + 1
      OBVIOUS
    <2>2. Cell(i)' = 1 + ((0 + i) % NewCapacity)
      BY <1>3, <1>5 DEF Cell
    <2>3. (0 + i) % NewCapacity = i
      BY <1>1
    <2> QED
      BY <1>1, <2>2, <2>3
  <1>7. RingTypes' /\ PositionsOK'
    <2>1. (c + 1) % NewCapacity = (0 + (c + 1)) % NewCapacity /\ (c + 1) % NewCapacity \in Nat
      BY <1>1
    <2> QED
      BY <1>1, <1>3, <1>5, <2>1 DEF QueueInv, RingTypes, PositionsOK
  <1>8. CellsOK'
    <2>1. ASSUME NEW i \in 0 .. c
          PROVE  ring'[i + 1] \in Entries
      <3>1. CASE i = c
        BY <1>4, <1>5, <3>1
      <3>2. CASE i # c
        <4>1. i + 1 \in 1 .. c /\ i + 1 \in 1 .. NewCapacity /\ i + 1 # c + 1
          BY <1>1, <3>2
        <4>2. Pending[i + 1] \in Entries
          BY <1>2, <4>1
        <4> QED
          BY <1>1, <1>5, <4>1, <4>2
      <3> QED
        BY <3>1, <3>2
    <2>2. ASSUME NEW k \in 1 .. NewCapacity, \A i \in 0 .. c : k # i + 1
          PROVE  ring'[k] = Empty
      <3>1. k > c + 1
        <4>1. ~ (k <= c + 1)
          <5>1. SUFFICES ASSUME k <= c + 1 PROVE FALSE
            OBVIOUS
          <5>2. k - 1 \in 0 .. c /\ k = (k - 1) + 1
            BY <1>1, <5>1
          <5> QED
            BY <2>2, <5>2
        <4> QED
          BY <1>1, <4>1
      <3>2. k > c /\ k # c + 1
        BY <1>1, <3>1
      <3> QED
        BY <1>1, <1>5, <3>2
    <2>3. queuedCount' - 1 = c
      BY <1>1, <1>3
    <2> QED
      BY <1>5, <1>6, <2>1, <2>2, <2>3 DEF CellsOK
  <1>9. QueueInv'
    BY <1>7, <1>8 DEF QueueInv
  <1>10. Pending' = Append(Pending, j)
    <2>1. /\ Pending' \in Seq(Entries) /\ Len(Pending') = c + 1
          /\ \A i \in 1 .. c + 1 : Pending'[i] = ring'[Cell(i - 1)']
      BY <1>3, <1>9, QueueFactsNext DEF PendingOK
    <2>2. \A i \in 1 .. c + 1 : Pending'[i] = ring'[i]
      <3>1. \A i \in 1 .. c + 1 : i - 1 \in 0 .. c /\ (i - 1) + 1 = i
        BY <1>1
      <3> QED
        BY <1>6, <2>1, <3>1
    <2>3. /\ Append(Pending, j) \in Seq(Entries) /\ Len(Append(Pending, j)) = c + 1
          /\ \A i \in 1 .. c : Append(Pending, j)[i] = Pending[i]
          /\ Append(Pending, j)[c + 1] = j
      BY <1>1, <1>2, AppendProperties
    <2>4. ASSUME NEW i \in 1 .. c + 1
          PROVE  Pending'[i] = Append(Pending, j)[i]
      <3>1. CASE i = c + 1
        BY <1>4, <1>5, <2>2, <2>3, <3>1
      <3>2. CASE i \in 1 .. c
        <4>1. i \in 1 .. NewCapacity /\ i # c + 1
          BY <1>1, <3>2
        <4> QED
          BY <1>1, <1>5, <2>2, <2>3, <3>2, <4>1
      <3>3. i = c + 1 \/ i \in 1 .. c
        BY <1>1
      <3> QED
        BY <3>1, <3>2, <3>3
    <2> QED
      BY <2>1, <2>3, <2>4, SeqEqual
  <1> QED
    BY <1>9, <1>10

CellMap ==
  Len(ring) > 0 => \A i \in 0 .. Len(ring) : Cell(i) =
    IF queueHead + i < Len(ring) THEN 1 + queueHead + i ELSE 1 + queueHead + i - Len(ring)

LEMMA CellMapFacts == RingTypes /\ PositionsOK => CellMap
  BY CellFacts DEF CellMap

LEMMA CellMapNext == RingTypes' /\ PositionsOK' => CellMap'
  BY CellMapFacts, PTL

\* The oldest job leaves, and its cell is free.
LEMMA TakeRemoves ==
  ASSUME QueueInv, Take
  PROVE  /\ QueueInv' /\ Pending # <<>>
         /\ Pending' = Tail(Pending) /\ ring[queueHead + 1] = Head(Pending)
PROOF
  <1> DEFINE n == Len(ring)
             c == queuedCount
  <1>1. /\ n \in Nat \ {0} /\ c \in 1 .. n /\ ring \in Seq(Entries \cup {Empty})
        /\ queueHead \in 0 .. n - 1 /\ queueTail = (queueHead + c) % n
    BY DEF Take, QueueInv, RingTypes, PositionsOK
  <1>2. /\ \A i \in 0 .. n : Cell(i) =
             IF queueHead + i < n THEN 1 + queueHead + i ELSE 1 + queueHead + i - n
        /\ \A i \in 0 .. n : Cell(i) \in 1 .. n
        /\ \A i, k \in 0 .. n - 1 : Cell(i) = Cell(k) => i = k
        /\ Cell(0) = queueHead + 1
    <2>1. RingTypes /\ PositionsOK /\ n > 0
      BY <1>1 DEF QueueInv
    <2> QED
      BY <2>1, CellFacts
  <1>3. /\ ring' = [ring EXCEPT ![Cell(0)] = Empty] /\ queuedCount' = c - 1 /\ open' = open
        /\ queueHead' = IF c = 1 THEN 0 ELSE (queueHead + 1) % n
        /\ queueTail' = IF c = 1 THEN 0 ELSE queueTail
    BY <1>2 DEF Take
  <1>4. /\ ring' \in Seq(Entries \cup {Empty}) /\ Len(ring') = n
        /\ \A k \in 1 .. n : ring'[k] = IF k = Cell(0) THEN Empty ELSE ring[k]
    <2>1. Cell(0) \in 1 .. n
      BY <1>1, <1>2
    <2> QED
      BY <1>1, <1>3, <2>1
  <1>5. c > 1 => queueHead' = IF queueHead + 1 < n THEN queueHead + 1 ELSE 0
    <2>1. SUFFICES ASSUME c > 1
                   PROVE  queueHead' = IF queueHead + 1 < n THEN queueHead + 1 ELSE 0
      OBVIOUS
    <2> DEFINE x == queueHead + 1
    <2>2. x \in 0 .. 2 * n - 1
      BY <1>1
    <2> HIDE DEF x
    <2>3. x % n = IF x < n THEN x ELSE x - n
      BY <1>1, <2>2, OneTurn
    <2>4. queueHead' = x % n
      BY <1>1, <1>3, <2>1 DEF x
    <2> USE DEF x
    <2> QED
      BY <1>1, <2>3, <2>4
  <1>6. RingTypes' /\ PositionsOK'
    <2>1. CASE c = 1
      <3>1. queueHead' = 0 /\ queueTail' = 0 /\ queuedCount' = 0 /\ (0 + 0) % n = 0
        BY <1>1, <1>3, <2>1
      <3>2. RingTypes'
        BY <1>1, <1>3, <1>4, <3>1 DEF QueueInv, RingTypes
      <3>3. PositionsOK'
        BY <1>1, <1>4, <3>1 DEF PositionsOK
      <3> QED
        BY <3>2, <3>3
    <2>2. CASE c > 1
      <3>1. queueTail' = (queueHead + c) % n
        BY <1>1, <1>3, <2>2
      <3>2. (queueHead' + (c - 1)) % n = (queueHead + c) % n
        <4>1. CASE queueHead + 1 < n
          <5>1. queueHead' + (c - 1) = queueHead + c
            BY <1>1, <1>5, <2>2, <4>1
          <5> QED
            BY <5>1
        <4>2. CASE queueHead + 1 >= n
          <5> DEFINE x == queueHead + c
          <5>1. queueHead' + (c - 1) = c - 1 /\ queueHead = n - 1
            BY <1>1, <1>5, <2>2, <4>2
          <5>2. c - 1 \in 0 .. 2 * n - 1 /\ c - 1 < n
            BY <1>1, <2>2
          <5>3. x \in 0 .. 2 * n - 1 /\ ~ (x < n) /\ x - n = c - 1
            BY <1>1, <2>2, <5>1
          <5> HIDE DEF x
          <5>4. x % n = x - n
            BY <1>1, <5>3, OneTurn
          <5>5. (c - 1) % n = c - 1
            BY <1>1, <5>2, OneTurn
          <5>6. x % n = (queueHead' + (c - 1)) % n
            BY <5>1, <5>3, <5>4, <5>5
          <5> QED
            BY <5>6 DEF x
        <4> QED
          BY <1>1, <4>1, <4>2
      <3>3. queueHead' \in Nat /\ queueHead' < n /\ (queueHead + c) % n \in Nat
        BY <1>1, <1>5, <2>2
      <3>4. queuedCount' = c - 1 /\ c - 1 \in 0 .. n /\ c - 1 # 0
        BY <1>1, <1>3, <2>2
      <3>5. RingTypes'
        BY <1>1, <1>3, <1>4, <3>1, <3>3, <3>4 DEF QueueInv, RingTypes
      <3>6. queueTail' = (queueHead' + queuedCount') % Len(ring')
        BY <1>4, <3>1, <3>2, <3>4
      <3>7. PositionsOK'
        BY <1>4, <3>3, <3>4, <3>6 DEF PositionsOK
      <3> QED
        BY <3>5, <3>7
    <2> QED
      BY <1>1, <2>1, <2>2
  <1>7. ASSUME NEW i \in 0 .. c - 2
        PROVE  Cell(i)' = Cell(i + 1) /\ Cell(i + 1) \in 1 .. n /\ Cell(i + 1) # Cell(0)
    <2>1. i \in 0 .. n /\ i + 1 \in 0 .. n /\ i + 1 \in 0 .. n - 1 /\ 0 \in 0 .. n - 1 /\ c > 1
      BY <1>1
    <2>2. Cell(i)' = IF queueHead' + i < n THEN 1 + queueHead' + i ELSE 1 + queueHead' + i - n
      BY <1>1, <1>4, <1>6, <2>1, CellMapNext DEF CellMap
    <2>3. Cell(i + 1) = IF queueHead + (i + 1) < n THEN 1 + queueHead + (i + 1)
                        ELSE 1 + queueHead + (i + 1) - n
      BY <1>2, <2>1
    <2>4. Cell(i)' = Cell(i + 1)
      BY <1>1, <1>5, <2>1, <2>2, <2>3
    <2>5. Cell(i + 1) # Cell(0)
      <3>1. i + 1 # 0
        BY <2>1
      <3> QED
        BY <1>2, <2>1, <3>1
    <2> QED
      BY <1>2, <2>1, <2>4, <2>5
  <1>8. CellsOK'
    <2>1. ASSUME NEW i \in 0 .. c - 2
          PROVE  ring'[Cell(i)'] \in Entries
      <3>1. i + 1 \in 0 .. c - 1
        BY <1>1
      <3>2. ring[Cell(i + 1)] \in Entries
        BY <3>1 DEF QueueInv, CellsOK
      <3> QED
        BY <1>4, <1>7, <3>2
    <2>2. ASSUME NEW k \in 1 .. n, \A i \in 0 .. c - 2 : k # Cell(i)'
          PROVE  ring'[k] = Empty
      <3>1. CASE k = Cell(0)
        BY <1>4, <3>1
      <3>2. CASE k # Cell(0)
        <4>1. ASSUME NEW i \in 0 .. c - 1
              PROVE  k # Cell(i)
          <5>1. CASE i = 0
            BY <3>2, <5>1
          <5>2. CASE i # 0
            <6>1. i - 1 \in 0 .. c - 2 /\ (i - 1) + 1 = i
              BY <1>1, <5>2
            <6>2. Cell(i - 1)' = Cell((i - 1) + 1)
              BY <1>7, <6>1
            <6> QED
              BY <2>2, <6>1, <6>2
          <5> QED
            BY <5>1, <5>2
        <4>2. ring[k] = Empty
          BY <4>1 DEF QueueInv, CellsOK
        <4> QED
          BY <1>4, <3>2, <4>2
      <3> QED
        BY <3>1, <3>2
    <2>3. queuedCount' - 1 = c - 2
      BY <1>1, <1>3
    <2> QED
      BY <1>4, <2>1, <2>2, <2>3 DEF CellsOK
  <1>9. QueueInv'
    BY <1>6, <1>8 DEF QueueInv
  <1>10. /\ Pending \in Seq(Entries) /\ Len(Pending) = c
         /\ \A i \in 1 .. c : Pending[i] = ring[Cell(i - 1)]
    BY QueueFacts DEF PendingOK
  <1>11. /\ Pending' \in Seq(Entries) /\ Len(Pending') = c - 1
         /\ \A i \in 1 .. c - 1 : Pending'[i] = ring'[Cell(i - 1)']
    BY <1>3, <1>9, QueueFactsNext DEF PendingOK
  <1>12. Pending # <<>> /\ Head(Pending) = ring[queueHead + 1]
    <2>1. Pending # <<>> /\ Head(Pending) = Pending[1]
      BY <1>1, <1>10
    <2>2. Pending[1] = ring[Cell(0)]
      <3>1. 1 \in 1 .. c /\ 1 - 1 = 0
        BY <1>1
      <3> QED
        BY <1>10, <3>1
    <2> QED
      BY <1>2, <2>1, <2>2
  <1>13. /\ Tail(Pending) \in Seq(Entries) /\ Len(Tail(Pending)) = c - 1
         /\ \A i \in 1 .. c - 1 : Tail(Pending)[i] = Pending[i + 1]
    BY <1>1, <1>10, <1>12, HeadTailProperties
  <1>14. ASSUME NEW i \in 1 .. c - 1
         PROVE  Pending'[i] = Tail(Pending)[i]
    <2>1. i - 1 \in 0 .. c - 2 /\ (i - 1) + 1 = i /\ i + 1 \in 1 .. c /\ (i + 1) - 1 = i
      BY <1>1
    <2>2. Cell(i - 1)' = Cell(i) /\ Cell(i) \in 1 .. n /\ Cell(i) # Cell(0)
      BY <1>7, <2>1
    <2>3. Pending'[i] = ring[Cell(i)]
      BY <1>4, <1>11, <2>2
    <2>4. Pending[i + 1] = ring[Cell(i)]
      BY <1>10, <2>1
    <2> QED
      BY <1>13, <2>3, <2>4
  <1>15. Pending' = Tail(Pending)
    BY <1>11, <1>13, <1>14, SeqEqual
  <1> QED
    BY <1>9, <1>12, <1>15

\* An empty queue keeps nothing, whatever its array.
LEMMA EmptyFacts ==
  ASSUME ring' \in Seq(Entries \cup {Empty}), queuedCount' = 0, queueHead' = 0, queueTail' = 0,
         open' \in BOOLEAN, \A k \in 1 .. Len(ring') : ring'[k] = Empty
  PROVE  QueueInv' /\ Pending' = <<>>
PROOF
  <1>1. Len(ring') \in Nat
    OBVIOUS
  <1>2. Len(ring') > 0 => (0 + 0) % Len(ring') = 0
    BY <1>1
  <1>3. QueueInv'
    BY <1>1, <1>2 DEF QueueInv, RingTypes, PositionsOK, CellsOK
  <1>4. Pending' = <<>>
    BY DEF Pending
  <1> QED
    BY <1>3, <1>4

LEMMA ClearEmpties ==
  ASSUME QueueInv, Clear
  PROVE  QueueInv' /\ Pending' = <<>> /\ outcome' = <<"stop", Pending>>
PROOF
  <1>1. ring \in Seq(Entries \cup {Empty}) /\ DOMAIN ring = 1 .. Len(ring) /\ Len(ring) \in Nat
    BY DEF QueueInv, RingTypes
  <1>2. \A k \in 1 .. Len(ring) : ring'[k] = Empty
    BY <1>1 DEF Clear, QueueInv, CellsOK
  <1>3. ring' \in [1 .. Len(ring) -> Entries \cup {Empty}]
    BY <1>1, <1>2 DEF Clear
  <1>4. ring' \in Seq(Entries \cup {Empty}) /\ Len(ring') = Len(ring)
    BY <1>1, <1>3, SeqDef, LenProperties
  <1>5. queuedCount' = 0 /\ queueHead' = 0 /\ queueTail' = 0 /\ open' \in BOOLEAN
    BY DEF Clear
  <1>6. outcome' = <<"stop", Pending>>
    BY DEF Clear, Pending
  <1> QED
    BY <1>2, <1>4, <1>5, <1>6, EmptyFacts

\* What moves none of the jobs.
LEMMA QuietQueue ==
  ASSUME QueueInv, UNCHANGED <<ring, queueHead, queueTail, queuedCount>>, open' \in BOOLEAN
  PROVE  QueueInv' /\ Pending' = Pending /\ Kept' = Kept
BY DEF QueueInv, RingTypes, PositionsOK, CellsOK, Cell, Pending, Kept

LEMMA DropQuiet ==
  ASSUME QueueInv, Drop
  PROVE  QueueInv' /\ Pending' = Pending
PROOF
  <1>1. ring' = <<>> /\ queuedCount' = 0 /\ queueHead' = 0 /\ queueTail' = 0 /\ open' \in BOOLEAN
    BY DEF Drop, QueueInv, RingTypes, PositionsOK
  <1>2. QueueInv' /\ Pending' = <<>>
    BY <1>1, EmptyFacts
  <1>3. Pending = <<>>
    BY DEF Drop, Pending
  <1> QED
    BY <1>2, <1>3
-----------------------------------------------------------------------------
LEMMA QueueStep == QueueInv /\ [QueueNext]_queueVars => QueueInv'
PROOF
  <1> SUFFICES ASSUME QueueInv, [QueueNext]_queueVars
               PROVE  QueueInv'
    OBVIOUS
  <1>0. open \in BOOLEAN
    BY DEF QueueInv, RingTypes
  <1>1. ASSUME NEW j \in Entries, Put(j)
        PROVE  QueueInv'
    BY <1>1, PutAppends
  <1>2. ASSUME NEW j \in Entries, PutGrown(j)
        PROVE  QueueInv'
    BY <1>2, PutGrownAppends
  <1>3. CASE PutRefused
    BY <1>0, <1>3, QuietQueue DEF PutRefused
  <1>4. CASE Take
    BY <1>4, TakeRemoves
  <1>5. CASE TakeNothing
    BY <1>0, <1>5, QuietQueue DEF TakeNothing
  <1>6. CASE Clear
    BY <1>6, ClearEmpties
  <1>7. CASE Refrain
    BY <1>7, QuietQueue DEF Refrain
  <1>8. CASE Drop
    BY <1>8, DropQuiet
  <1>9. CASE UNCHANGED queueVars
    BY <1>0, <1>9, QuietQueue DEF queueVars
  <1> QED
    BY <1>1, <1>2, <1>3, <1>4, <1>5, <1>6, <1>7, <1>8, <1>9 DEF QueueNext

\* A job is refused only when the pool is full or shut down.
LEMMA RefusedWhenFull ==
  ASSUME QueueInv, PutRefused
  PROVE  ~ open \/ Queue!Full
PROOF
  <1>1. queuedCount \in Nat /\ Len(ring) \in Nat /\ queuedCount <= Len(ring)
    BY DEF QueueInv, RingTypes
  <1>2. HasRoom /\ NeedsSpace => CanGrow
    BY <1>1, RingAssumption DEF HasRoom, NeedsSpace, CanGrow, NewCapacity
  <1>3. ~ HasRoom => Queue!Full
    BY <1>1, QueueFacts, RingAssumption DEF HasRoom, Queue!Full, PendingOK
  <1> QED
    BY <1>2, <1>3 DEF PutRefused

LEMMA QueueRefines == QueueInv /\ [QueueNext]_queueVars
                        => [Queue!Next]_<<Pending, Kept, open, outcome>>
PROOF
  <1> SUFFICES ASSUME QueueInv, [QueueNext]_queueVars
               PROVE  [Queue!Next]_<<Pending, Kept, open, outcome>>
    OBVIOUS
  <1> USE DEF Queue!Next
  <1>0. /\ open \in BOOLEAN /\ queuedCount \in Nat /\ Len(Pending) = queuedCount
        /\ Pending \in Seq(Entries)
    BY QueueFacts DEF QueueInv, RingTypes, PendingOK
  <1>1. Kept = {Pending[i] : i \in DOMAIN Pending} /\ Kept' = {Pending'[i] : i \in DOMAIN Pending'}
    BY QueueFacts, QueueFactsNext, QueueStep DEF PendingOK
  <1>2. ASSUME NEW j \in Entries, Put(j) \/ PutGrown(j)
        PROVE  Queue!Accept(j)
    <2>1. Pending' = Append(Pending, j)
      BY <1>2, PutAppends, PutGrownAppends
    <2>2. open /\ HasRoom /\ outcome' = <<"submit", TRUE>> /\ open' = open
      BY <1>2 DEF Put, PutGrown, Store
    <2>3. ~ Queue!Full
      BY <1>0, <2>2, RingAssumption DEF HasRoom, Queue!Full
    <2> QED
      BY <1>1, <2>1, <2>2, <2>3 DEF Queue!Accept, Queue!Becomes
  <1>3. CASE PutRefused
    <2>1. Pending' = Pending /\ Kept' = Kept
      BY <1>0, <1>3, QuietQueue DEF PutRefused
    <2> QED
      BY <1>3, <2>1, RefusedWhenFull DEF PutRefused, Queue!Refuse
  <1>4. CASE Take
    BY <1>1, <1>4, TakeRemoves DEF Take, Queue!TakeOldest, Queue!Becomes
  <1>5. CASE TakeNothing
    <2>1. Pending' = Pending /\ Kept' = Kept
      BY <1>0, <1>5, QuietQueue DEF TakeNothing
    <2>2. Pending = <<>>
      BY <1>5 DEF TakeNothing, Pending
    <2> QED
      BY <1>5, <2>1, <2>2 DEF TakeNothing, Queue!TakeNone
  <1>6. CASE Clear
    BY <1>1, <1>6, ClearEmpties DEF Clear, Queue!CancelAll, Queue!Becomes
  <1>7. CASE Refrain
    <2>1. Pending' = Pending /\ Kept' = Kept
      BY <1>7, QuietQueue DEF Refrain
    <2> QED
      BY <1>7, <2>1 DEF Refrain, Queue!ShutDown
  <1>8. CASE Drop
    BY <1>1, <1>8, DropQuiet DEF Drop
  <1>9. CASE UNCHANGED queueVars
    BY <1>0, <1>9, QuietQueue DEF queueVars
  <1> QED
    BY <1>2, <1>3, <1>4, <1>5, <1>6, <1>7, <1>8, <1>9 DEF QueueNext

\* The inductive invariant of the circular queue.
THEOREM QueueInvariance == QueueSpec => []QueueInv
PROOF
  <1>1. QueueInit => QueueInv
    BY InitQueue
  <1> QED
    BY <1>1, QueueStep, PTL DEF QueueSpec

\* Through every wrap and growth of its array the queue of the pool is a queue of jobs: none
\* is lost, doubled or overtaken, refused for want of space, or kept after it has left.
THEOREM QueueKeepsOrder == QueueSpec => ImplementsQueue
PROOF
  <1>1. QueueInit => Queue!Init
    BY InitQueue
  <1> QED
    BY <1>1, QueueInvariance, QueueRefines, PTL DEF QueueSpec, ImplementsQueue, Queue!Spec
=============================================================================
