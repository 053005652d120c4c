----------------------------- MODULE WhenAnyProofs -----------------------------
(***************************************************************************)
(* Proofs about WhenAny, for any finite number of waiters, any jobs and    *)
(* any bounds.                                                             *)
(***************************************************************************)
EXTENDS WhenAny, FiniteSetTheorems, SequenceTheorems, TLAPS

\* The futures of w it has given its event to and not yet taken it back from.
Registered(w) ==
  {n \in 1 .. Count(w) :
     \/ pc[w] = "watch" /\ n < i[w]
     \/ pc[w] \in {"wait", "rescan"}
     \/ pc[w] = "unwatch" /\ n >= i[w]}

\* The registrations still to come.
Left ==
  {p \in Waiters \X (1 .. MaxFutures) :
     pc[p[1]] = "scan" \/ (pc[p[1]] = "watch" /\ p[2] >= i[p[1]])}

RoomOK == \A j \in Jobs : Len(listeners[j]) + Cardinality(Left) <= MaxWatches

\* Inside a call there is an array; the event exists from the first look on.
CallOK ==
  \A w \in Waiters :
    /\ pc[w] # "idle" => futures[w] # << >>
    /\ notice[w] = "closed" <=> pc[w] \in {"idle", "scan"}

\* What a job holds is a registration of somebody who knows the slot, ...
HeldOK ==
  /\ \A j \in done : listeners[j] = << >>
  /\ \A j \in Jobs : \A k \in DOMAIN listeners[j] : \A w \in Waiters : listeners[j][k] = w =>
       \E n \in Registered(w) : futures[w][n] = j /\ slots[w][n] = k

\* ... a job that has not ended holds every registration it was given, in different slots, ...
KeptOK ==
  \A w \in Waiters : \A n \in Registered(w) : futures[w][n] \notin done =>
    /\ slots[w][n] \in DOMAIN listeners[futures[w][n]]
    /\ listeners[futures[w][n]][slots[w][n]] = w
    /\ \A m \in Registered(w) : futures[w][m] = futures[w][n] /\ slots[w][m] = slots[w][n] => m = n

\* ... and the event is set when, and only when, one of them has ended.
NoticeOK ==
  \A w \in Waiters :
    /\ notice[w] = "unset" => \A n \in Registered(w) : futures[w][n] \notin done
    /\ notice[w] = "set" => \E n \in 1 .. Count(w) : futures[w][n] \in done

\* The second look finds what woke the waiter, if it was not the time.
ResultOK ==
  \A w \in Waiters :
    /\ pc[w] \in {"scan", "watch", "wait", "rescan"} => result[w] = -1
    /\ pc[w] = "rescan" => timed[w] \/ \E n \in 1 .. Count(w) : n >= i[w] /\ futures[w][n] \in done
    /\ pc[w] \in {"unwatch", "close"} => result[w] # Failed
    /\ pc[w] \in {"unwatch", "close", "idle"} /\ futures[w] # << >> /\ result[w] # Failed =>
         IF result[w] = -1 THEN timed[w]
         ELSE result[w] \in 1 .. Count(w) /\ futures[w][result[w]] \in done

IInv == TypeOK /\ RoomOK /\ CallOK /\ HeldOK /\ KeptOK /\ NoticeOK /\ ResultOK
-----------------------------------------------------------------------------
LEMMA InitIInv == Init => IInv
PROOF
  <1> SUFFICES ASSUME Init
               PROVE  IInv
    OBVIOUS
  <1> USE BoundsAssumption, WaitersAssumption
  <1>1. Left = {} /\ \A w \in Waiters : Registered(w) = {}
    BY DEF Init, Left, Registered
  <1>2. TypeOK
    <2>1. << >> \in Seq(Waiters \cup {Nobody})
      BY EmptySeq
    <2> QED
      BY <2>1 DEF Init, TypeOK
  <1>3. RoomOK
    <2>1. Cardinality(Left) = 0 /\ Len(<< >>) = 0
      BY <1>1, FS_EmptySet
    <2> QED
      BY <2>1 DEF Init, RoomOK
  <1>4. CallOK /\ NoticeOK /\ ResultOK
    BY <1>1 DEF Init, CallOK, NoticeOK, ResultOK
  <1>5. HeldOK /\ KeptOK
    BY <1>1 DEF Init, HeldOK, KeptOK
  <1> QED
    BY <1>2, <1>3, <1>4, <1>5 DEF IInv
-----------------------------------------------------------------------------
(* The arrays and the counters.                                            *)

LEMMA ArrayFacts ==
  ASSUME NEW a \in Arrays
  PROVE  /\ Len(a) \in 1 .. MaxFutures /\ DOMAIN a = 1 .. Len(a) /\ a # << >>
         /\ \A n \in 1 .. Len(a) : a[n] \in Jobs
PROOF
  <1>1. PICK n \in 1 .. MaxFutures : a \in [1 .. n -> Jobs]
    BY DEF Arrays
  <1>2. Len(a) = n
    BY <1>1, BoundsAssumption
  <1> QED
    BY <1>1, <1>2, BoundsAssumption

LEMMA CallFacts ==
  ASSUME TypeOK, NEW w \in Waiters
  PROVE  /\ Count(w) \in 0 .. MaxFutures /\ DOMAIN futures[w] = 1 .. Count(w)
         /\ \A n \in 1 .. Count(w) : futures[w][n] \in Jobs
         /\ i[w] \in Nat \ {0}
         /\ futures[w] # << >> => Count(w) >= 1 /\ i[w] \in 1 .. Count(w)
PROOF
  <1>1. futures[w] = << >> \/ futures[w] \in Arrays
    BY DEF TypeOK
  <1>2. CASE futures[w] = << >>
    <2>1. Count(w) = 0 /\ DOMAIN futures[w] = {}
      BY <1>2 DEF Count
    <2> QED
      BY <1>2, <2>1, BoundsAssumption DEF TypeOK
  <1>3. CASE futures[w] \in Arrays
    <2>1. Count(w) \in 1 .. MaxFutures /\ DOMAIN futures[w] = 1 .. Count(w)
          /\ \A n \in 1 .. Count(w) : futures[w][n] \in Jobs
      BY <1>3, ArrayFacts DEF Count
    <2>2. i[w] \in 1 .. Count(w)
      BY <2>1, BoundsAssumption DEF TypeOK
    <2> QED
      BY <2>1, <2>2, BoundsAssumption
  <1> QED
    BY <1>1, <1>2, <1>3

\* A waiter's step leaves what belongs to the others.
LEMMA Frame ==
  ASSUME TypeOK, NEW w \in Waiters, Call(w) \/ Steps(w), NEW v \in Waiters, v # w
  PROVE  /\ pc'[v] = pc[v] /\ i'[v] = i[v] /\ futures'[v] = futures[v] /\ timed'[v] = timed[v]
         /\ slots'[v] = slots[v] /\ result'[v] = result[v] /\ notice'[v] = notice[v]
PROOF
  <1> USE DEF TypeOK, Leave, Loop
  <1>1. CASE Call(w)
    BY <1>1 DEF Call
  <1>2. CASE Scan(w)
    BY <1>2 DEF Scan
  <1>3. CASE Watch(w)
    BY <1>3 DEF Watch
  <1>4. CASE Wait(w)
    BY <1>4 DEF Wait
  <1>5. CASE Rescan(w)
    BY <1>5 DEF Rescan
  <1>6. CASE Unwatch(w)
    BY <1>6 DEF Unwatch
  <1>7. CASE CloseNotice(w)
    BY <1>7 DEF CloseNotice
  <1> QED
    BY <1>1, <1>2, <1>3, <1>4, <1>5, <1>6, <1>7 DEF Steps

\* The loops and the registrations: where w goes in a step ...
LEMMA Moves ==
  ASSUME TypeOK, CallOK, NEW w \in Waiters, Steps(w)
  PROVE  /\ UNCHANGED <<futures, timed, done>>
         /\ pc[w] # "idle" /\ Count(w) \in 1 .. MaxFutures /\ i[w] \in 1 .. Count(w)
         /\ i'[w] \in 1 .. Count(w)
         /\ \/ /\ Scan(w)
               /\ pc'[w] \in {"scan", "idle"} \/ (pc'[w] = "watch" /\ i'[w] = 1)
            \/ /\ Watch(w)
               /\ \/ pc'[w] = "watch" /\ i'[w] = i[w] + 1
                  \/ pc'[w] = "wait" /\ i[w] = Count(w)
            \/ Wait(w) /\ pc'[w] = "rescan" /\ i'[w] = 1
            \/ /\ Rescan(w)
               /\ pc'[w] = "rescan" \/ (pc'[w] = "unwatch" /\ i'[w] = 1)
            \/ /\ Unwatch(w)
               /\ \/ pc'[w] = "unwatch" /\ i'[w] = i[w] + 1
                  \/ pc'[w] = "close" /\ i[w] = Count(w)
            \/ CloseNotice(w) /\ pc'[w] = "idle" /\ i'[w] = 1
PROOF
  <1>1. pc[w] # "idle"
    BY DEF Steps, Scan, Watch, Wait, Rescan, Unwatch, CloseNotice
  <1>2. Count(w) \in 1 .. MaxFutures /\ i[w] \in 1 .. Count(w)
    BY <1>1, CallFacts, BoundsAssumption DEF CallOK
  <1>3. UNCHANGED <<futures, timed, done>>
    BY DEF Steps, Scan, Watch, Wait, Rescan, Unwatch, CloseNotice
  <1>4. /\ pc \in [Waiters -> {"idle", "scan", "watch", "wait", "rescan", "unwatch", "close"}]
        /\ i \in [Waiters -> 1 .. MaxFutures]
    BY DEF TypeOK
  <1> USE DEF Leave, Loop
  <1>5. CASE Scan(w)
    BY <1>1, <1>2, <1>3, <1>4, <1>5 DEF Scan
  <1>6. CASE Watch(w)
    BY <1>1, <1>2, <1>3, <1>4, <1>6 DEF Watch
  <1>7. CASE Wait(w)
    BY <1>1, <1>2, <1>3, <1>4, <1>7 DEF Wait
  <1>8. CASE Rescan(w)
    BY <1>1, <1>2, <1>3, <1>4, <1>8 DEF Rescan
  <1>9. CASE Unwatch(w)
    BY <1>1, <1>2, <1>3, <1>4, <1>9 DEF Unwatch
  <1>10. CASE CloseNotice(w)
    BY <1>1, <1>2, <1>3, <1>4, <1>10 DEF CloseNotice
  <1> QED
    BY <1>5, <1>6, <1>7, <1>8, <1>9, <1>10 DEF Steps

\* ... and what becomes of its registrations.
LEMMA RegisteredNext ==
  ASSUME TypeOK, CallOK, NEW w \in Waiters, Call(w) \/ Steps(w)
  PROVE  /\ ~ (Watch(w) \/ Unwatch(w)) => Registered(w)' = Registered(w)
         /\ Watch(w) => Registered(w)' = Registered(w) \cup {i[w]}
                       /\ i[w] \notin Registered(w)
         /\ Unwatch(w) => Registered(w)' = Registered(w) \ {i[w]}
                         /\ i[w] \in Registered(w)
PROOF
  <1>1. CASE Call(w)
    <2>1. pc[w] = "idle" /\ pc'[w] = "scan"
      BY <1>1 DEF Call, Leave, TypeOK
    <2> QED
      BY <2>1 DEF Registered, Watch, Unwatch
  <1>2. CASE Steps(w)
    <2>1. Count(w)' = Count(w)
      BY <1>2, Moves DEF Count
    <2>2. CASE ~ (Watch(w) \/ Unwatch(w))
      BY <1>2, <2>1, <2>2, Moves DEF Registered, Scan, Wait, Rescan, CloseNotice
    <2>3. CASE Watch(w)
      BY <1>2, <2>1, <2>3, Moves DEF Registered, Watch, Scan, Wait, Rescan, Unwatch, CloseNotice
    <2>4. CASE Unwatch(w)
      <3>1. pc[w] = "unwatch" /\ i[w] \in 1 .. Count(w) /\ Count(w) \in Nat
        BY <1>2, <2>4, Moves, BoundsAssumption DEF Unwatch
      <3>2. ~ Watch(w) /\ ~ Scan(w) /\ ~ Wait(w) /\ ~ Rescan(w) /\ ~ CloseNotice(w)
        BY <3>1 DEF Watch, Scan, Wait, Rescan, CloseNotice
      <3>3. (pc'[w] = "unwatch" /\ i'[w] = i[w] + 1) \/ (pc'[w] = "close" /\ i[w] = Count(w))
        BY <1>2, <2>4, <3>2, Moves
      <3>4. Registered(w) = {n \in 1 .. Count(w) : n >= i[w]}
        BY <3>1 DEF Registered
      <3>5. Registered(w)' = {n \in 1 .. Count(w) : pc'[w] = "unwatch" /\ n >= i'[w]}
        BY <2>1, <3>3 DEF Registered
      <3> QED
        BY <2>4, <3>1, <3>2, <3>3, <3>4, <3>5
    <2> QED
      BY <2>2, <2>3, <2>4
  <1> QED
    BY <1>1, <1>2

LEMMA OthersRegistered ==
  ASSUME NEW v, pc'[v] = pc[v], i'[v] = i[v], futures'[v] = futures[v]
  PROVE  Registered(v)' = Registered(v)
BY DEF Registered, Count
-----------------------------------------------------------------------------
(* Room for the registrations.                                             *)

LEMMA LeftFinite == IsFiniteSet(Left) /\ Cardinality(Left) \in Nat
PROOF
  <1>1. IsFiniteSet(1 .. MaxFutures)
    BY BoundsAssumption, FS_Interval
  <1>2. IsFiniteSet(Waiters \X (1 .. MaxFutures))
    BY <1>1, WaitersAssumption, FS_Product
  <1>3. Left \subseteq Waiters \X (1 .. MaxFutures)
    BY DEF Left
  <1> QED
    BY <1>2, <1>3, FS_Subset, FS_CardinalityType

LEMMA CallRoom ==
  ASSUME TypeOK, NEW w \in Waiters, Call(w)
  PROVE  RoomOK'
PROOF
  <1> DEFINE Busy == {v \in Waiters : pc[v] # "idle"}
             Span == 1 .. MaxFutures
  <1>1. pc[w] = "idle" /\ RoomToWatch /\ pc' = [pc EXCEPT ![w] = "scan"] /\ UNCHANGED listeners
    BY DEF Call, Leave
  <1>2. IsFiniteSet(Busy) /\ Cardinality(Busy) \in Nat
    <2>1. Busy \subseteq Waiters
      OBVIOUS
    <2> QED
      BY <2>1, WaitersAssumption, FS_Subset, FS_CardinalityType
  <1>3. IsFiniteSet(Busy \cup {w}) /\ Cardinality(Busy \cup {w}) = Cardinality(Busy) + 1
    <2>1. w \notin Busy
      BY <1>1
    <2> QED
      BY <1>2, <2>1, FS_AddElement
  <1>4. IsFiniteSet(Span) /\ Cardinality(Span) = MaxFutures
    BY BoundsAssumption, FS_Interval
  <1>5. IsFiniteSet((Busy \cup {w}) \X Span)
        /\ Cardinality((Busy \cup {w}) \X Span) = (Cardinality(Busy) + 1) * MaxFutures
    <2> HIDE DEF Busy, Span
    <2>1. Cardinality((Busy \cup {w}) \X Span) = Cardinality(Busy \cup {w}) * Cardinality(Span)
          /\ IsFiniteSet((Busy \cup {w}) \X Span)
      BY <1>3, <1>4, FS_Product
    <2> QED
      BY <1>3, <1>4, <2>1
  <1>6. Left' \subseteq (Busy \cup {w}) \X Span
    <2>1. \A v \in Waiters \ (Busy \cup {w}) : pc'[v] = "idle"
      BY <1>1 DEF TypeOK
    <2> QED
      BY <2>1 DEF Left
  <1>7. Cardinality(Left') \in Nat /\ Cardinality(Left') <= (Cardinality(Busy) + 1) * MaxFutures
    BY <1>5, <1>6, FS_Subset, FS_CardinalityType
  <1>8. ASSUME NEW j \in Jobs
        PROVE  Len(listeners'[j]) + Cardinality(Left') <= MaxWatches
    <2>1. Len(listeners[j]) + MaxFutures * (1 + Cardinality(Busy)) <= MaxWatches
      BY <1>1 DEF RoomToWatch
    <2>2. MaxFutures * (1 + Cardinality(Busy)) = (Cardinality(Busy) + 1) * MaxFutures
          /\ (Cardinality(Busy) + 1) * MaxFutures \in Nat
      BY <1>2, BoundsAssumption
    <2>3. Len(listeners[j]) \in Nat
      BY LenProperties DEF TypeOK
    <2>4. (Cardinality(Busy) + 1) * MaxFutures + Len(listeners[j]) <= MaxWatches
      BY <2>1, <2>2, <2>3
    <2> HIDE DEF Busy
    <2> QED
      BY <1>1, <1>7, <2>2, <2>3, <2>4, BoundsAssumption
  <1> QED
    BY <1>8 DEF RoomOK

\* A step that registers nothing needs no more room than before.
LEMMA SameRoom ==
  ASSUME TypeOK, RoomOK, Left' \subseteq Left, \A j \in Jobs : Len(listeners'[j]) = Len(listeners[j])
  PROVE  RoomOK'
PROOF
  <1>1. Cardinality(Left') \in Nat /\ Cardinality(Left') <= Cardinality(Left)
    BY LeftFinite, FS_Subset, FS_CardinalityType
  <1>2. \A j \in Jobs : Len(listeners[j]) \in Nat
    BY LenProperties DEF TypeOK
  <1> QED
    BY <1>1, <1>2, LeftFinite, BoundsAssumption DEF RoomOK

LEMMA LeftAfterStep ==
  ASSUME TypeOK, CallOK, NEW w \in Waiters, Steps(w)
  PROVE  Left' \subseteq Left /\ (Watch(w) => <<w, i[w]>> \in Left \ Left')
PROOF
  <1>1. ASSUME NEW n \in 1 .. MaxFutures, <<w, n>> \in Left'
        PROVE  <<w, n>> \in Left /\ (Watch(w) => n # i[w])
    BY <1>1, Moves DEF Left, Scan, Watch, Wait, Rescan, Unwatch, CloseNotice
  <1>2. ASSUME NEW v \in Waiters, v # w, NEW n \in 1 .. MaxFutures, <<v, n>> \in Left'
        PROVE  <<v, n>> \in Left
    BY <1>2, Frame DEF Left
  <1>3. Left' \subseteq Left
    BY <1>1, <1>2 DEF Left
  <1>4. ASSUME Watch(w)
        PROVE  <<w, i[w]>> \in Left \ Left'
    <2>1. i[w] \in 1 .. MaxFutures /\ pc[w] = "watch"
      BY <1>4 DEF Watch, TypeOK
    <2>2. <<w, i[w]>> \in Left
      BY <2>1, BoundsAssumption DEF Left
    <2> QED
      BY <1>1, <1>4, <2>1, <2>2
  <1> QED
    BY <1>3, <1>4

\* A registration uses the room that was left for it.
LEMMA WatchRoom ==
  ASSUME TypeOK, CallOK, RoomOK, NEW w \in Waiters, Watch(w)
  PROVE  RoomOK'
PROOF
  <1>1. Left' \subseteq Left /\ <<w, i[w]>> \in Left \ Left'
    BY LeftAfterStep DEF Steps
  <1>2. Cardinality(Left') \in Nat /\ Cardinality(Left') <= Cardinality(Left) - 1
    <2>1. IsFiniteSet(Left \ {<<w, i[w]>>})
          /\ Cardinality(Left \ {<<w, i[w]>>}) = Cardinality(Left) - 1
      BY <1>1, LeftFinite, FS_RemoveElement
    <2>2. Left' \subseteq Left \ {<<w, i[w]>>}
      BY <1>1
    <2> QED
      BY <2>1, <2>2, FS_Subset, FS_CardinalityType
  <1>3. ASSUME NEW j \in Jobs
        PROVE  Len(listeners'[j]) \in Nat /\ Len(listeners'[j]) <= Len(listeners[j]) + 1
    <2>1. listeners[j] \in Seq(Waiters \cup {Nobody}) /\ Len(listeners[j]) \in Nat
      BY LenProperties DEF TypeOK
    <2>2. listeners'[j] = listeners[j] \/ listeners'[j] = Append(listeners[j], w)
      BY DEF Watch, TypeOK
    <2> QED
      BY <2>1, <2>2
  <1>4. \A j \in Jobs : Len(listeners[j]) \in Nat
    BY LenProperties DEF TypeOK
  <1> QED
    BY <1>2, <1>3, <1>4, LeftFinite, BoundsAssumption DEF RoomOK

\* Emptying a slot changes neither the length nor the other slots.
LEMMA UnwatchFacts ==
  ASSUME TypeOK, CallOK, NEW w \in Waiters, Unwatch(w), NEW j \in Jobs
  PROVE  /\ listeners'[j] \in Seq(Waiters \cup {Nobody})
         /\ Len(listeners'[j]) = Len(listeners[j])
         /\ DOMAIN listeners'[j] = DOMAIN listeners[j]
         /\ \A k \in DOMAIN listeners[j] :
              listeners'[j][k] = IF j = Future(w) /\ k = slots[w][i[w]] THEN Nobody ELSE listeners[j][k]
PROOF
  <1>1. listeners[j] \in Seq(Waiters \cup {Nobody})
    BY DEF TypeOK
  <1>2. CASE j = Future(w) /\ slots[w][i[w]] \in DOMAIN listeners[j]
    <2>1. listeners'[j] = [listeners[j] EXCEPT ![slots[w][i[w]]] = Nobody]
      BY <1>2 DEF Unwatch, TypeOK
    <2>2. slots[w][i[w]] \in 1 .. Len(listeners[j])
      BY <1>1, <1>2, LenProperties
    <2>3. listeners'[j] \in Seq(Waiters \cup {Nobody}) /\ Len(listeners'[j]) = Len(listeners[j])
      BY <1>1, <2>1, <2>2, ExceptSeq
    <2> QED
      BY <1>1, <1>2, <2>1, <2>3, LenProperties
  <1>3. CASE ~ (j = Future(w) /\ slots[w][i[w]] \in DOMAIN listeners[j])
    <2>1. listeners'[j] = listeners[j]
      BY <1>3 DEF Unwatch, TypeOK
    <2> QED
      BY <1>1, <1>3, <2>1
  <1> QED
    BY <1>2, <1>3

LEMMA StepRoom ==
  ASSUME TypeOK, CallOK, RoomOK, NEW w \in Waiters, Steps(w)
  PROVE  RoomOK'
PROOF
  <1>1. Left' \subseteq Left
    BY LeftAfterStep
  <1>2. CASE Watch(w)
    BY <1>2, WatchRoom
  <1>3. CASE Unwatch(w)
    BY <1>1, <1>3, SameRoom, UnwatchFacts
  <1>4. CASE UNCHANGED listeners
    BY <1>1, <1>4, SameRoom
  <1> QED
    BY <1>2, <1>3, <1>4 DEF Steps, Scan, Wait, Rescan, CloseNotice

LEMMA CompleteRoom ==
  ASSUME TypeOK, RoomOK, NEW j \in Jobs, Complete(j)
  PROVE  RoomOK'
PROOF
  <1>1. Left' = Left
    BY DEF Left, Complete
  <1>2. ASSUME NEW k \in Jobs
        PROVE  Len(listeners'[k]) \in Nat /\ Len(listeners'[k]) <= Len(listeners[k])
    <2>1. Len(listeners[k]) \in Nat
      BY LenProperties DEF TypeOK
    <2>2. listeners'[k] = listeners[k] \/ listeners'[k] = << >>
      BY DEF Complete, TypeOK
    <2> QED
      BY <2>1, <2>2
  <1>3. \A k \in Jobs : Len(listeners[k]) \in Nat
    BY LenProperties DEF TypeOK
  <1> QED
    BY <1>1, <1>2, <1>3, LeftFinite, BoundsAssumption DEF RoomOK
-----------------------------------------------------------------------------
(* Types.                                                                  *)

LEMMA CallTypes ==
  ASSUME TypeOK, NEW w \in Waiters, Call(w)
  PROVE  TypeOK'
PROOF
  <1>1. PICK a \in Arrays : futures' = [futures EXCEPT ![w] = a]
    BY DEF Call
  <1>2. PICK b \in BOOLEAN : timed' = [timed EXCEPT ![w] = b]
    BY DEF Call
  <1>3. /\ pc' = [pc EXCEPT ![w] = "scan"] /\ i' = [i EXCEPT ![w] = 1]
        /\ result' = [result EXCEPT ![w] = -1] /\ UNCHANGED <<done, listeners, notice, slots>>
    BY DEF Call, Leave
  <1>4. i' \in [Waiters -> 1 .. MaxFutures] /\ \A v \in Waiters : i'[v] = 1 \/ i'[v] <= Count(v)'
    BY <1>1, <1>3, BoundsAssumption DEF TypeOK, Count
  <1> QED
    BY <1>1, <1>2, <1>3, <1>4 DEF TypeOK

LEMMA StepTypes ==
  ASSUME TypeOK, CallOK, RoomOK, NEW w \in Waiters, Steps(w)
  PROVE  TypeOK'
PROOF
  <1>1. /\ UNCHANGED <<futures, timed, done>> /\ Count(w) \in 1 .. MaxFutures
        /\ i[w] \in 1 .. Count(w) /\ i'[w] \in 1 .. Count(w)
    BY Moves
  <1>2. i' \in [Waiters -> 1 .. MaxFutures] /\ \A v \in Waiters : i'[v] = 1 \/ i'[v] <= Count(v)'
    <2>1. PICK n : i' = [i EXCEPT ![w] = n]
      BY DEF Steps, Scan, Watch, Wait, Rescan, Unwatch, CloseNotice, Leave, Loop
    <2>2. n \in 1 .. Count(w) /\ n \in 1 .. MaxFutures
      BY <1>1, <2>1, BoundsAssumption DEF TypeOK
    <2> QED
      BY <1>1, <2>1, <2>2 DEF TypeOK, Count
  <1>3. pc' \in [Waiters -> {"idle", "scan", "watch", "wait", "rescan", "unwatch", "close"}]
    BY DEF TypeOK, Steps, Scan, Watch, Wait, Rescan, Unwatch, CloseNotice, Leave, Loop
  <1>4. notice' \in [Waiters -> {"set", "unset", "closed"}]
    BY DEF TypeOK, Steps, Scan, Watch, Wait, Rescan, Unwatch, CloseNotice
  <1>5. result' \in [Waiters -> {-1, Failed} \cup 1 .. MaxFutures]
    <2>1. i[w] \in 1 .. MaxFutures /\ result \in [Waiters -> {-1, Failed} \cup 1 .. MaxFutures]
      BY DEF TypeOK
    <2>2. result' = result \/ \E r \in {i[w], Failed} : result' = [result EXCEPT ![w] = r]
      BY DEF Steps, Scan, Watch, Wait, Rescan, Unwatch, CloseNotice
    <2> QED
      BY <2>1, <2>2
  <1>6. /\ listeners' \in [Jobs -> Seq(Waiters \cup {Nobody})]
        /\ slots' \in [Waiters -> [1 .. MaxFutures -> {-1} \cup 1 .. MaxWatches]]
    <2>0. /\ listeners \in [Jobs -> Seq(Waiters \cup {Nobody})]
          /\ slots \in [Waiters -> [1 .. MaxFutures -> {-1} \cup 1 .. MaxWatches]]
          /\ i[w] \in 1 .. MaxFutures /\ Future(w) \in Jobs
      BY <1>1, CallFacts DEF TypeOK, Future
    <2>1. CASE Watch(w)
      <3>1. CASE Future(w) \in done
        <4>1. /\ slots' = [slots EXCEPT ![w] = [slots[w] EXCEPT ![i[w]] = -1]]
              /\ UNCHANGED listeners
          BY <2>1, <3>1 DEF Watch
        <4>2. [slots[w] EXCEPT ![i[w]] = -1] \in [1 .. MaxFutures -> {-1} \cup 1 .. MaxWatches]
          BY <2>0
        <4> QED
          BY <2>0, <4>1, <4>2
      <3>2. CASE Future(w) \notin done
        <4>1. Len(listeners[Future(w)]) \in Nat
          BY <2>0, LenProperties
        <4>2. Cardinality(Left) >= 1
          <5>1. Left # {}
            BY <2>1, LeftAfterStep DEF Steps
          <5> QED
            BY <5>1, LeftFinite, FS_EmptySet
        <4>3. Len(listeners[Future(w)]) + 1 \in 1 .. MaxWatches
          BY <2>0, <4>1, <4>2, LeftFinite, BoundsAssumption DEF RoomOK
        <4>4. Append(listeners[Future(w)], w) \in Seq(Waiters \cup {Nobody})
          BY <2>0, AppendProperties
        <4>5. /\ listeners' = [listeners EXCEPT ![Future(w)] = Append(listeners[Future(w)], w)]
              /\ slots' = [slots EXCEPT ![w] = [slots[w] EXCEPT ![i[w]] = Len(listeners[Future(w)]) + 1]]
          BY <2>1, <3>2 DEF Watch
        <4> QED
          BY <2>0, <4>3, <4>4, <4>5
      <3> QED
        BY <3>1, <3>2
    <2>2. CASE Unwatch(w)
      <3>1. DOMAIN listeners' = Jobs /\ listeners' = [j \in Jobs |-> listeners'[j]]
        BY <2>0, <2>2 DEF Unwatch
      <3>2. listeners' \in [Jobs -> Seq(Waiters \cup {Nobody})]
        BY <2>2, <3>1, UnwatchFacts
      <3> QED
        BY <2>0, <2>2, <3>2 DEF Unwatch
    <2>3. CASE UNCHANGED <<listeners, slots>>
      BY <2>0, <2>3
    <2> QED
      BY <2>1, <2>2, <2>3 DEF Steps, Scan, Wait, Rescan, CloseNotice
  <1> QED
    BY <1>1, <1>2, <1>3, <1>4, <1>5, <1>6 DEF TypeOK

LEMMA CompleteTypes ==
  ASSUME TypeOK, NEW j \in Jobs, Complete(j)
  PROVE  TypeOK'
PROOF
  <1>1. << >> \in Seq(Waiters \cup {Nobody})
    BY EmptySeq
  <1> QED
    BY <1>1 DEF Complete, TypeOK, Count
-----------------------------------------------------------------------------
(* Registrations.                                                          *)

\* The steps that neither register nor take back.
LEMMA QuietRegistrations ==
  ASSUME TypeOK, CallOK, HeldOK, KeptOK, NEW w \in Waiters, Call(w) \/ Steps(w),
         ~ (Watch(w) \/ Unwatch(w))
  PROVE  HeldOK' /\ KeptOK'
PROOF
  <1>1. \A v \in Waiters : Registered(v)' = Registered(v)
    BY RegisteredNext, OthersRegistered, Frame
  <1>2. UNCHANGED <<done, listeners, slots>>
    BY DEF Call, Steps, Scan, Wait, Rescan, CloseNotice
  <1>3. ASSUME NEW v \in Waiters, NEW n \in Registered(v)
        PROVE  futures'[v][n] = futures[v][n]
    <2>1. CASE Steps(w)
      BY <2>1, Moves
    <2>2. CASE Call(w)
      <3>1. v # w
        BY <2>2, <1>3 DEF Call, Registered
      <3> QED
        BY <2>2, <3>1, Frame
    <2> QED
      BY <2>1, <2>2
  <1>4. HeldOK'
    <2>1. \A j \in done' : listeners'[j] = << >>
      BY <1>2 DEF HeldOK
    <2>2. ASSUME NEW j \in Jobs, NEW k \in DOMAIN listeners'[j], NEW v \in Waiters, listeners'[j][k] = v
          PROVE  \E n \in Registered(v)' : futures'[v][n] = j /\ slots'[v][n] = k
      <3>1. PICK n \in Registered(v) : futures[v][n] = j /\ slots[v][n] = k
        BY <1>2, <2>2 DEF HeldOK
      <3> QED
        BY <1>1, <1>2, <1>3, <3>1
    <2> QED
      BY <2>1, <2>2 DEF HeldOK
  <1>5. KeptOK'
    <2>1. ASSUME NEW v \in Waiters, NEW n \in Registered(v), futures'[v][n] \notin done'
          PROVE  /\ slots'[v][n] \in DOMAIN listeners'[futures'[v][n]]
                 /\ listeners'[futures'[v][n]][slots'[v][n]] = v
                 /\ \A m \in Registered(v) :
                      futures'[v][m] = futures'[v][n] /\ slots'[v][m] = slots'[v][n] => m = n
      BY <1>2, <1>3, <2>1 DEF KeptOK
    <2> QED
      BY <1>1, <2>1 DEF KeptOK
  <1> QED
    BY <1>4, <1>5

\* A registration takes a slot nobody had.
LEMMA WatchRegistrations ==
  ASSUME TypeOK, CallOK, HeldOK, KeptOK, NEW w \in Waiters, Watch(w)
  PROVE  HeldOK' /\ KeptOK'
PROOF
  <1> DEFINE f == Future(w)
             s == Len(listeners[f]) + 1
  <1>0. Steps(w)
    BY DEF Steps
  <1>1. /\ UNCHANGED <<futures, done>> /\ f \in Jobs /\ f = futures[w][i[w]]
        /\ i[w] \in 1 .. MaxFutures /\ w # Nobody
    BY <1>0, Moves, CallFacts, WaitersAssumption DEF Future, TypeOK
  <1>2. /\ \A v \in Waiters \ {w} : Registered(v)' = Registered(v) /\ slots'[v] = slots[v]
        /\ Registered(w)' = Registered(w) \cup {i[w]} /\ i[w] \notin Registered(w)
    BY <1>0, RegisteredNext, OthersRegistered, Frame
  <1>3. /\ \A v \in Waiters : \A n \in Registered(v) : futures[v][n] \in Jobs /\ n \in 1 .. MaxFutures
        /\ \A v \in Waiters : v # Nobody
    BY CallFacts, WaitersAssumption, BoundsAssumption DEF Registered
  <1>4. /\ listeners \in [Jobs -> Seq(Waiters \cup {Nobody})]
        /\ slots \in [Waiters -> [1 .. MaxFutures -> {-1} \cup 1 .. MaxWatches]]
    BY DEF TypeOK
  <1>5. CASE f \in done
    <2>1. UNCHANGED listeners /\ slots' = [slots EXCEPT ![w] = [slots[w] EXCEPT ![i[w]] = -1]]
      BY <1>5 DEF Watch
    <2>2. \A v \in Waiters : \A n \in Registered(v) : slots'[v][n] = slots[v][n]
      BY <1>2, <1>4, <2>1
    <2>3. HeldOK'
      BY <1>1, <1>2, <2>1, <2>2 DEF HeldOK
    <2>4. KeptOK'
      BY <1>1, <1>2, <1>5, <2>1, <2>2 DEF KeptOK
    <2> QED
      BY <2>3, <2>4
  <1>6. CASE f \notin done
    <2>1. /\ listeners' = [listeners EXCEPT ![f] = Append(listeners[f], w)]
          /\ slots' = [slots EXCEPT ![w] = [slots[w] EXCEPT ![i[w]] = s]]
      BY <1>6 DEF Watch
    <2>2. /\ \A v \in Waiters : \A n \in Registered(v) : slots'[v][n] = slots[v][n]
          /\ slots'[w][i[w]] = s
      <3> HIDE DEF f, s
      <3>1. slots'[w] = [slots[w] EXCEPT ![i[w]] = s]
        BY <1>4, <2>1
      <3>2. slots[w] \in [1 .. MaxFutures -> {-1} \cup 1 .. MaxWatches]
        BY <1>4
      <3>3. ASSUME NEW n \in Registered(w)
            PROVE  slots'[w][n] = slots[w][n]
        BY <1>2, <1>3, <3>1, <3>2
      <3>4. \A v \in Waiters \ {w} : slots'[v] = slots[v]
        BY <1>2
      <3>5. slots'[w][i[w]] = s
        BY <1>1, <3>1, <3>2
      <3> QED
        BY <3>3, <3>4, <3>5
    <2>3. /\ s \in Nat \ {0} /\ DOMAIN listeners[f] = 1 .. s - 1
          /\ listeners'[f] = Append(listeners[f], w)
          /\ DOMAIN Append(listeners[f], w) = 1 .. s
          /\ Append(listeners[f], w)[s] = w
          /\ \A k \in 1 .. s - 1 : Append(listeners[f], w)[k] = listeners[f][k]
      <3>1. PICK L \in Seq(Waiters \cup {Nobody}) : L = listeners[f]
        BY <1>1, <1>4
      <3>2. /\ Len(L) \in Nat /\ DOMAIN L = 1 .. Len(L) /\ Len(Append(L, w)) = Len(L) + 1
            /\ Append(L, w) \in Seq(Waiters \cup {Nobody}) /\ Append(L, w)[Len(L) + 1] = w
            /\ \A k \in 1 .. Len(L) : Append(L, w)[k] = L[k]
        BY <3>1, AppendProperties, LenProperties
      <3>3. DOMAIN Append(L, w) = 1 .. Len(L) + 1
        BY <3>2, LenProperties
      <3>4. listeners'[f] = Append(L, w)
        BY <1>1, <1>4, <2>1, <3>1
      <3>5. s = Len(L) + 1 /\ s - 1 = Len(L)
        BY <3>1, <3>2
      <3> HIDE DEF f, s
      <3> QED
        BY <3>1, <3>2, <3>3, <3>4, <3>5
    <2>4. \A j \in Jobs \ {f} : listeners'[j] = listeners[j]
      BY <1>4, <2>1
    <2> HIDE DEF f, s
    <2>5. HeldOK'
      <3>1. \A j \in done' : listeners'[j] = << >>
        BY <1>1, <1>4, <1>6, <2>4 DEF HeldOK, TypeOK
      <3>2. ASSUME NEW j \in Jobs, NEW k \in DOMAIN listeners'[j], NEW v \in Waiters, listeners'[j][k] = v
            PROVE  \E n \in Registered(v)' : futures'[v][n] = j /\ slots'[v][n] = k
        <4>1. CASE j = f /\ k = s
          <5>1. v = w
            BY <2>3, <3>2, <4>1
          <5> QED
            BY <1>1, <1>2, <2>2, <4>1, <5>1
        <4>2. CASE ~ (j = f /\ k = s)
          <5>1. k \in DOMAIN listeners[j] /\ listeners[j][k] = v
            BY <2>3, <2>4, <3>2, <4>2
          <5>2. PICK n \in Registered(v) : futures[v][n] = j /\ slots[v][n] = k
            BY <5>1 DEF HeldOK
          <5> QED
            BY <1>1, <1>2, <2>2, <5>2
        <4> QED
          BY <4>1, <4>2
      <3> QED
        BY <3>1, <3>2 DEF HeldOK
    <2>6. KeptOK'
      <3>1. ASSUME NEW v \in Waiters, NEW n \in Registered(v), futures[v][n] \notin done
            PROVE  /\ slots'[v][n] \in DOMAIN listeners'[futures[v][n]]
                   /\ listeners'[futures[v][n]][slots'[v][n]] = v
                   /\ \A m \in Registered(v)' :
                        futures[v][m] = futures[v][n] /\ slots'[v][m] = slots'[v][n] => m = n
        <4>1. /\ slots[v][n] \in DOMAIN listeners[futures[v][n]]
              /\ listeners[futures[v][n]][slots[v][n]] = v
              /\ \A m \in Registered(v) :
                   futures[v][m] = futures[v][n] /\ slots[v][m] = slots[v][n] => m = n
          BY <3>1 DEF KeptOK
        <4>2. futures[v][n] = f => slots[v][n] \in 1 .. s - 1
          BY <2>3, <4>1
        <4>3. /\ slots'[v][n] \in DOMAIN listeners'[futures[v][n]]
              /\ listeners'[futures[v][n]][slots'[v][n]] = v
          <5>1. slots'[v][n] = slots[v][n] /\ futures[v][n] \in Jobs
            BY <1>3, <2>2
          <5>2. CASE futures[v][n] = f
            <6>1. slots[v][n] \in 1 .. s
              BY <2>3, <4>2, <5>2
            <6> QED
              BY <2>3, <4>1, <4>2, <5>1, <5>2, <6>1
          <5>3. CASE futures[v][n] # f
            BY <2>4, <4>1, <5>1, <5>3
          <5> QED
            BY <5>2, <5>3
        <4>4. \A m \in Registered(v)' :
                futures[v][m] = futures[v][n] /\ slots'[v][m] = slots'[v][n] => m = n
          BY <1>1, <1>2, <2>2, <2>3, <4>1, <4>2
        <4> QED
          BY <4>3, <4>4
      <3>2. /\ s \in DOMAIN listeners'[f] /\ listeners'[f][s] = w
            /\ \A m \in Registered(w)' : futures[w][m] = f /\ slots'[w][m] = s => m = i[w]
        <4>1. \A m \in Registered(w) : futures[w][m] = f => slots[w][m] \in 1 .. s - 1
          BY <1>6, <2>3 DEF KeptOK
        <4> QED
          BY <1>2, <2>2, <2>3, <4>1
      <3> QED
        BY <1>1, <1>2, <2>2, <3>1, <3>2 DEF KeptOK
    <2> QED
      BY <2>5, <2>6
  <1> QED
    BY <1>5, <1>6

\* Only its own registration is taken back.
LEMMA UnwatchRegistrations ==
  ASSUME TypeOK, CallOK, HeldOK, KeptOK, NEW w \in Waiters, Unwatch(w)
  PROVE  HeldOK' /\ KeptOK'
PROOF
  <1> DEFINE f == Future(w)
             s == slots[w][i[w]]
  <1>0. Steps(w)
    BY DEF Steps
  <1>1. UNCHANGED <<futures, done>> /\ f \in Jobs /\ f = futures[w][i[w]]
    BY <1>0, Moves, CallFacts DEF Future
  <1>2. /\ \A v \in Waiters \ {w} : Registered(v)' = Registered(v) /\ slots'[v] = slots[v]
        /\ Registered(w)' = Registered(w) \ {i[w]} /\ i[w] \in Registered(w)
    BY <1>0, RegisteredNext, OthersRegistered, Frame
  <1>3. /\ \A v \in Waiters : \A n \in Registered(v) : futures[v][n] \in Jobs
        /\ \A v \in Waiters : v # Nobody
    BY CallFacts, WaitersAssumption DEF Registered
  <1>4. \A v \in Waiters : \A n \in Registered(v)' : slots'[v][n] = slots[v][n]
    BY <1>2 DEF Unwatch, TypeOK
  <1>5. \A j \in Jobs : \A k \in DOMAIN listeners[j] :
          listeners'[j][k] = IF j = f /\ k = s THEN Nobody ELSE listeners[j][k]
    BY UnwatchFacts
  <1>6. \A j \in Jobs : DOMAIN listeners'[j] = DOMAIN listeners[j]
    BY UnwatchFacts
  <1> HIDE DEF f, s
  <1>7. HeldOK'
    <2>1. ASSUME NEW j \in done'
          PROVE  listeners'[j] = << >>
      <3>1. j \in Jobs /\ listeners[j] = << >>
        BY <1>1, <2>1 DEF HeldOK, TypeOK
      <3>2. listeners'[j] \in Seq(Waiters \cup {Nobody}) /\ Len(listeners'[j]) = 0
        BY <3>1, UnwatchFacts
      <3> QED
        BY <3>2, EmptySeq
    <2>2. ASSUME NEW j \in Jobs, NEW k \in DOMAIN listeners'[j], NEW v \in Waiters, listeners'[j][k] = v
          PROVE  \E n \in Registered(v)' : futures'[v][n] = j /\ slots'[v][n] = k
      <3>1. k \in DOMAIN listeners[j] /\ listeners[j][k] = v /\ ~ (j = f /\ k = s)
        BY <1>3, <1>5, <1>6, <2>2
      <3>2. PICK n \in Registered(v) : futures[v][n] = j /\ slots[v][n] = k
        BY <3>1 DEF HeldOK
      <3>3. n \in Registered(v)'
        BY <1>1, <1>2, <3>1, <3>2 DEF s
      <3> QED
        BY <1>1, <1>4, <3>2, <3>3
    <2> QED
      BY <2>1, <2>2 DEF HeldOK
  <1>8. KeptOK'
    <2>1. ASSUME NEW v \in Waiters, NEW n \in Registered(v)', futures[v][n] \notin done
          PROVE  /\ slots[v][n] \in DOMAIN listeners'[futures[v][n]]
                 /\ listeners'[futures[v][n]][slots[v][n]] = v
                 /\ \A m \in Registered(v) :
                      futures[v][m] = futures[v][n] /\ slots[v][m] = slots[v][n] => m = n
      <3>1. n \in Registered(v)
        BY <1>2, <2>1
      <3>2. /\ slots[v][n] \in DOMAIN listeners[futures[v][n]]
            /\ listeners[futures[v][n]][slots[v][n]] = v
            /\ \A m \in Registered(v) :
                 futures[v][m] = futures[v][n] /\ slots[v][m] = slots[v][n] => m = n
        BY <2>1, <3>1 DEF KeptOK
      <3>3. ~ (futures[v][n] = f /\ slots[v][n] = s)
        <4>1. SUFFICES ASSUME futures[v][n] = f, slots[v][n] = s
                       PROVE  FALSE
          OBVIOUS
        <4>2. listeners[f][s] = w
          BY <1>1, <1>2, <2>1, <4>1 DEF KeptOK, s
        <4>3. v = w
          BY <3>2, <4>1, <4>2
        <4>4. n = i[w]
          BY <1>1, <1>2, <3>2, <4>1, <4>3 DEF s
        <4> QED
          BY <1>2, <2>1, <4>3, <4>4
      <3> QED
        BY <1>3, <1>5, <1>6, <3>1, <3>2, <3>3
    <2>2. \A v \in Waiters : Registered(v)' \subseteq Registered(v)
      BY <1>2
    <2> QED
      BY <1>1, <1>4, <2>1, <2>2 DEF KeptOK
  <1> QED
    BY <1>7, <1>8

LEMMA CompleteRegistrations ==
  ASSUME TypeOK, HeldOK, KeptOK, NEW j \in Jobs, Complete(j)
  PROVE  HeldOK' /\ KeptOK'
PROOF
  <1>1. /\ UNCHANGED <<pc, i, futures, slots>> /\ done' = done \cup {j}
        /\ listeners' = [listeners EXCEPT ![j] = << >>]
    BY DEF Complete
  <1>2. \A v : Registered(v)' = Registered(v)
    BY <1>1, OthersRegistered
  <1>3. \A v \in Waiters : \A n \in Registered(v) : futures[v][n] \in Jobs
    BY CallFacts DEF Registered
  <1>4. listeners'[j] = << >> /\ \A k \in Jobs \ {j} : listeners'[k] = listeners[k]
    BY <1>1 DEF TypeOK
  <1>5. HeldOK'
    <2>1. \A k \in done' : listeners'[k] = << >>
      BY <1>1, <1>4 DEF HeldOK, TypeOK
    <2>2. ASSUME NEW k \in Jobs, NEW n \in DOMAIN listeners'[k], NEW v \in Waiters, listeners'[k][n] = v
          PROVE  \E m \in Registered(v) : futures[v][m] = k /\ slots[v][m] = n
      BY <1>4, <2>2 DEF HeldOK
    <2> QED
      BY <1>1, <1>2, <2>1, <2>2 DEF HeldOK
  <1>6. KeptOK'
    BY <1>1, <1>2, <1>3, <1>4 DEF KeptOK
  <1> QED
    BY <1>5, <1>6

LEMMA StepRegistrations ==
  ASSUME TypeOK, CallOK, HeldOK, KeptOK, NEW w \in Waiters, Call(w) \/ Steps(w)
  PROVE  HeldOK' /\ KeptOK'
BY QuietRegistrations, WatchRegistrations, UnwatchRegistrations
-----------------------------------------------------------------------------
(* The call, the event and the answer.                                     *)

LEMMA StepCall ==
  ASSUME TypeOK, CallOK, NEW w \in Waiters, Call(w) \/ Steps(w)
  PROVE  CallOK'
PROOF
  <1>1. \A v \in Waiters \ {w} : pc'[v] = pc[v] /\ futures'[v] = futures[v] /\ notice'[v] = notice[v]
    BY Frame
  <1>2. pc'[w] # "idle" => futures'[w] # << >>
    <2>1. CASE Call(w)
      BY <2>1, ArrayFacts DEF Call, TypeOK
    <2>2. CASE Steps(w)
      BY <2>2, Moves DEF CallOK
    <2> QED
      BY <2>1, <2>2
  <1>3. notice'[w] = "closed" <=> pc'[w] \in {"idle", "scan"}
    <2>0. /\ pc \in [Waiters -> {"idle", "scan", "watch", "wait", "rescan", "unwatch", "close"}]
          /\ notice \in [Waiters -> {"set", "unset", "closed"}]
          /\ notice[w] = "closed" <=> pc[w] \in {"idle", "scan"}
      BY DEF TypeOK, CallOK
    <2>1. CASE Call(w)
      BY <2>0, <2>1 DEF Call, Leave
    <2>2. CASE Scan(w)
      <3>1. i[w] \in 1 .. Count(w) /\ Count(w) \in Nat
        BY <2>2, Moves, BoundsAssumption DEF Steps
      <3> QED
        BY <2>0, <2>2, <3>1 DEF Scan, Leave, Loop
    <2>3. CASE Watch(w)
      BY <2>0, <2>3 DEF Watch, Loop
    <2>4. CASE Wait(w) \/ Rescan(w) \/ Unwatch(w)
      BY <2>0, <2>4 DEF Wait, Rescan, Unwatch, Loop, Leave
    <2>5. CASE CloseNotice(w)
      BY <2>0, <2>5 DEF CloseNotice, Leave
    <2> QED
      BY <2>1, <2>2, <2>3, <2>4, <2>5 DEF Steps
  <1> QED
    BY <1>1, <1>2, <1>3 DEF CallOK

LEMMA StepNotice ==
  ASSUME TypeOK, CallOK, NoticeOK, NEW w \in Waiters, Call(w) \/ Steps(w)
  PROVE  NoticeOK'
PROOF
  <1>1. ASSUME NEW v \in Waiters, v # w
        PROVE  /\ notice'[v] = "unset" => \A n \in Registered(v)' : futures'[v][n] \notin done'
               /\ notice'[v] = "set" => \E n \in 1 .. Count(v)' : futures'[v][n] \in done'
    <2>1. Registered(v)' = Registered(v) /\ futures'[v] = futures[v] /\ notice'[v] = notice[v]
      BY <1>1, Frame, OthersRegistered
    <2>2. UNCHANGED done /\ Count(v)' = Count(v)
      BY <2>1 DEF Count, Call, Steps, Scan, Watch, Wait, Rescan, Unwatch, CloseNotice
    <2> QED
      BY <2>1, <2>2 DEF NoticeOK
  <1>2. /\ notice'[w] = "unset" => \A n \in Registered(w)' : futures'[w][n] \notin done'
        /\ notice'[w] = "set" => \E n \in 1 .. Count(w)' : futures'[w][n] \in done'
    <2>1. CASE Call(w)
      BY <2>1 DEF Call, CallOK
    <2>2. CASE Scan(w)
      <3>1. notice'[w] # "set" /\ Registered(w) = {}
        BY <2>2 DEF Scan, CallOK, TypeOK, Registered
      <3>2. Registered(w)' = Registered(w)
        BY <2>2, RegisteredNext DEF Scan, Watch, Unwatch
      <3> QED
        BY <3>1, <3>2
    <2>3. CASE Watch(w)
      <3>1. /\ Registered(w)' = Registered(w) \cup {i[w]} /\ UNCHANGED <<futures, done>>
            /\ Count(w)' = Count(w) /\ i[w] \in 1 .. Count(w) /\ Future(w) = futures[w][i[w]]
        BY <2>3, RegisteredNext, Moves DEF Steps, Count, Future
      <3>2. \/ Future(w) \in done /\ notice'[w] = "set"
            \/ Future(w) \notin done /\ notice'[w] = notice[w]
        BY <2>3 DEF Watch, TypeOK
      <3> QED
        BY <3>1, <3>2 DEF NoticeOK
    <2>4. CASE Wait(w) \/ Rescan(w) \/ Unwatch(w)
      <3>1. Steps(w)
        BY <2>4 DEF Steps
      <3>2. Registered(w)' \subseteq Registered(w)
        BY <2>4, <3>1, RegisteredNext DEF Wait, Rescan, Unwatch, Watch
      <3>3. UNCHANGED <<futures, done, notice>> /\ Count(w)' = Count(w)
        BY <2>4 DEF Wait, Rescan, Unwatch, Count
      <3> QED
        BY <3>2, <3>3 DEF NoticeOK
    <2>5. CASE CloseNotice(w)
      BY <2>5 DEF CloseNotice, TypeOK
    <2> QED
      BY <2>1, <2>2, <2>3, <2>4, <2>5 DEF Steps
  <1> QED
    BY <1>1, <1>2 DEF NoticeOK

\* The end of a job tells everybody who is registered and nobody else.
LEMMA CompleteNotice ==
  ASSUME TypeOK, CallOK, HeldOK, KeptOK, NoticeOK, NEW j \in Jobs, Complete(j)
  PROVE  CallOK' /\ NoticeOK'
PROOF
  <1>1. /\ UNCHANGED <<pc, i, futures, slots>> /\ done' = done \cup {j} /\ j \notin done
        /\ \A v \in Waiters : notice'[v] = IF v \in Listening(j) /\ notice[v] # "closed"
                                           THEN "set" ELSE notice[v]
    BY DEF Complete
  <1>2. \A v : Registered(v)' = Registered(v) /\ Count(v)' = Count(v)
    BY <1>1, OthersRegistered DEF Count
  <1>3. CallOK'
    BY <1>1 DEF CallOK
  <1>4. ASSUME NEW v \in Waiters, notice'[v] = "unset", NEW n \in Registered(v)
        PROVE  futures[v][n] \notin done'
    <2>1. notice[v] = "unset" /\ v \notin Listening(j)
      BY <1>1, <1>4
    <2>2. futures[v][n] \notin done
      BY <2>1 DEF NoticeOK
    <2>3. v \in Listening(futures[v][n])
      BY <1>4, <2>2 DEF KeptOK, Listening
    <2> QED
      BY <1>1, <2>1, <2>2, <2>3
  <1>5. ASSUME NEW v \in Waiters, notice'[v] = "set"
        PROVE  \E n \in 1 .. Count(v) : futures[v][n] \in done'
    <2>1. CASE v \in Listening(j)
      <3>1. PICK n \in Registered(v) : futures[v][n] = j
        BY <2>1 DEF Listening, HeldOK
      <3> QED
        BY <1>1, <3>1 DEF Registered
    <2>2. CASE v \notin Listening(j)
      BY <1>1, <1>5, <2>2 DEF NoticeOK
    <2> QED
      BY <2>1, <2>2
  <1> QED
    BY <1>1, <1>2, <1>3, <1>4, <1>5 DEF NoticeOK

LEMMA StepResult ==
  ASSUME TypeOK, CallOK, NoticeOK, ResultOK, NEW w \in Waiters, Call(w) \/ Steps(w)
  PROVE  ResultOK'
PROOF
  <1> DEFINE Fits(v) ==
        /\ pc[v] \in {"scan", "watch", "wait", "rescan"} => result[v] = -1
        /\ pc[v] = "rescan" => timed[v] \/ \E n \in 1 .. Count(v) : n >= i[v] /\ futures[v][n] \in done
        /\ pc[v] \in {"unwatch", "close"} => result[v] # Failed
        /\ pc[v] \in {"unwatch", "close", "idle"} /\ futures[v] # << >> /\ result[v] # Failed =>
             IF result[v] = -1 THEN timed[v]
             ELSE result[v] \in 1 .. Count(v) /\ futures[v][result[v]] \in done
  <1>1. ResultOK <=> \A v \in Waiters : Fits(v)
    BY DEF ResultOK
  <1>2. ResultOK' <=> \A v \in Waiters : Fits(v)'
    BY DEF ResultOK
  <1>3. UNCHANGED done
    BY DEF Call, Steps, Scan, Watch, Wait, Rescan, Unwatch, CloseNotice
  <1>4. ASSUME NEW v \in Waiters, v # w
        PROVE  Fits(v)'
    <2>1. /\ pc'[v] = pc[v] /\ i'[v] = i[v] /\ futures'[v] = futures[v] /\ timed'[v] = timed[v]
          /\ result'[v] = result[v] /\ Count(v)' = Count(v)
      BY <1>4, Frame DEF Count
    <2>2. Fits(v)
      BY <1>1, <1>4
    <2> QED
      BY <1>3, <2>1, <2>2
  <1>5. Fits(w)'
    <2>1. Fits(w)
      BY <1>1
    <2>2. CASE Call(w)
      <3>1. pc'[w] = "scan" /\ result'[w] = -1
        BY <2>2 DEF Call, Leave, TypeOK
      <3> QED
        BY <3>1
    <2>3. CASE Scan(w)
      <3>1. /\ UNCHANGED <<futures, timed>> /\ Count(w)' = Count(w) /\ i[w] \in 1 .. Count(w)
            /\ pc[w] = "scan" /\ result[w] = -1
        BY <2>1, <2>3, Moves DEF Steps, Count, Scan
      <3>2. \/ Future(w) \in done /\ result'[w] = i[w] /\ pc'[w] = "idle"
            \/ result'[w] = -1 /\ pc'[w] \in {"scan", "watch"}
            \/ timed[w] /\ result'[w] = -1 /\ pc'[w] = "idle"
            \/ result'[w] = Failed /\ pc'[w] = "idle"
        BY <2>3, <3>1 DEF Scan, Loop, Leave, TypeOK
      <3> QED
        BY <1>3, <3>1, <3>2 DEF Future, Failed
    <2>4. CASE Watch(w)
      <3>1. pc[w] = "watch" /\ pc'[w] \in {"watch", "wait"} /\ result'[w] = result[w]
        BY <2>4 DEF Watch, Loop, TypeOK
      <3> QED
        BY <2>1, <3>1
    <2>5. CASE Wait(w)
      <3>1. /\ pc[w] = "wait" /\ pc'[w] = "rescan" /\ i'[w] = 1 /\ UNCHANGED <<result, futures, timed>>
            /\ notice[w] = "set" \/ timed[w]
        BY <2>5 DEF Wait, Leave, TypeOK
      <3>2. timed[w] \/ \E n \in 1 .. Count(w) : futures[w][n] \in done
        BY <3>1 DEF NoticeOK
      <3>3. Count(w)' = Count(w)
        BY <3>1 DEF Count
      <3> QED
        BY <1>3, <2>1, <3>1, <3>2, <3>3
    <2>6. CASE Rescan(w)
      <3>1. /\ UNCHANGED <<futures, timed>> /\ Count(w)' = Count(w) /\ i[w] \in 1 .. Count(w)
            /\ pc[w] = "rescan" /\ result[w] = -1 /\ Count(w) \in Nat
        BY <2>1, <2>6, Moves, BoundsAssumption DEF Steps, Count, Rescan
      <3>2. timed[w] \/ \E n \in 1 .. Count(w) : n >= i[w] /\ futures[w][n] \in done
        BY <2>1, <3>1
      <3>3. CASE Future(w) \in done
        <4>1. result'[w] = i[w] /\ pc'[w] = "unwatch"
          BY <2>6, <3>3 DEF Rescan, Leave, TypeOK
        <4> QED
          BY <1>3, <3>1, <3>3, <4>1 DEF Future, Failed
      <3>4. CASE Future(w) \notin done
        <4>1. /\ result' = result
              /\ IF i[w] < Count(w) THEN pc'[w] = "rescan" /\ i'[w] = i[w] + 1 ELSE pc'[w] = "unwatch"
          BY <2>6, <3>4 DEF Rescan, Loop, TypeOK
        <4>2. CASE timed[w]
          BY <3>1, <4>1, <4>2 DEF Failed
        <4>3. CASE ~ timed[w]
          <5>1. PICK n \in 1 .. Count(w) : n >= i[w] /\ futures[w][n] \in done
            BY <3>2, <4>3
          <5>2. n # i[w]
            BY <3>4, <5>1 DEF Future
          <5>3. i[w] < Count(w) /\ n >= i[w] + 1
            BY <3>1, <5>1, <5>2
          <5> QED
            BY <1>3, <3>1, <4>1, <5>1, <5>3
        <4> QED
          BY <4>2, <4>3
      <3> QED
        BY <3>3, <3>4
    <2>7. CASE Unwatch(w) \/ CloseNotice(w)
      <3>1. /\ UNCHANGED <<futures, timed, result>> /\ Count(w)' = Count(w)
            /\ pc[w] \in {"unwatch", "close"} /\ pc'[w] \in {"unwatch", "close", "idle"}
        BY <2>7 DEF Unwatch, CloseNotice, Loop, Leave, Count, TypeOK
      <3> QED
        BY <1>3, <2>1, <3>1
    <2> QED
      BY <2>2, <2>3, <2>4, <2>5, <2>6, <2>7 DEF Steps
  <1> HIDE DEF Fits
  <1> QED
    BY <1>2, <1>4, <1>5

LEMMA CompleteResult ==
  ASSUME ResultOK, NEW j \in Jobs, Complete(j)
  PROVE  ResultOK'
BY DEF ResultOK, Complete, Count
-----------------------------------------------------------------------------
LEMMA StepIInv == IInv /\ [Next]_vars => IInv'
PROOF
  <1> SUFFICES ASSUME IInv, [Next]_vars
               PROVE  IInv'
    OBVIOUS
  <1>1. ASSUME NEW w \in Waiters, Call(w) \/ Steps(w)
        PROVE  IInv'
    <2>1. TypeOK' /\ RoomOK'
      BY <1>1, CallTypes, CallRoom, StepTypes, StepRoom DEF IInv
    <2>2. CallOK' /\ HeldOK' /\ KeptOK'
      BY <1>1, StepCall, StepRegistrations DEF IInv
    <2>3. NoticeOK' /\ ResultOK'
      BY <1>1, StepNotice, StepResult DEF IInv
    <2> QED
      BY <2>1, <2>2, <2>3 DEF IInv
  <1>2. ASSUME NEW j \in Jobs, Complete(j)
        PROVE  IInv'
    BY <1>2, CompleteTypes, CompleteRoom, CompleteRegistrations, CompleteNotice, CompleteResult DEF IInv
  <1>3. CASE UNCHANGED vars
    <2>1. /\ Left' = Left /\ \A v : Registered(v)' = Registered(v) /\ Count(v)' = Count(v)
      BY <1>3 DEF vars, Left, Registered, Count
    <2>2. TypeOK' /\ RoomOK' /\ CallOK'
      BY <1>3, <2>1 DEF vars, IInv, TypeOK, RoomOK, CallOK
    <2>3. HeldOK' /\ KeptOK'
      BY <1>3, <2>1 DEF vars, IInv, HeldOK, KeptOK
    <2>4. NoticeOK' /\ ResultOK'
      BY <1>3, <2>1 DEF vars, IInv, NoticeOK, ResultOK
    <2> QED
      BY <2>2, <2>3, <2>4 DEF IInv
  <1> QED
    BY <1>1, <1>2, <1>3 DEF Next

\* Jobs, events and slots agree, for any number of waiters and jobs.
THEOREM Invariance == Spec => []IInv
PROOF
  <1>1. Init => IInv
    BY InitIInv
  <1>2. IInv /\ [Next]_vars => IInv'
    BY StepIInv
  <1> QED
    BY <1>1, <1>2, PTL DEF Spec

\* No job sets an event that whenAnyFor has closed: every registration it holds is known
\* to its owner.
THEOREM ListenersStayLive == Spec => []ListenersAreLive
PROOF
  <1>1. IInv => ListenersAreLive
    <2> SUFFICES ASSUME IInv, NEW j \in Jobs, NEW k \in DOMAIN listeners[j], listeners[j][k] # Nobody
                 PROVE  /\ notice[listeners[j][k]] # "closed"
                        /\ \E n \in 1 .. Count(listeners[j][k]) :
                             futures[listeners[j][k]][n] = j /\ slots[listeners[j][k]][n] = k
      BY DEF IInv, ListenersAreLive
    <2>1. PICK w \in Waiters : w = listeners[j][k]
      BY ElementOfSeq, LenProperties DEF IInv, TypeOK
    <2>2. PICK n \in Registered(w) : futures[w][n] = j /\ slots[w][n] = k
      BY <2>1 DEF IInv, HeldOK
    <2>3. notice[w] # "closed"
      BY <2>2 DEF Registered, IInv, CallOK
    <2> QED
      BY <2>1, <2>2, <2>3 DEF Registered
  <1> QED
    BY <1>1, Invariance, PTL

\* A waiter that sleeps with its event unset is registered with every job it waits for.
THEOREM NoCompletionIsMissed == Spec => []AsleepIsRegistered
PROOF
  <1>1. IInv => AsleepIsRegistered
    BY DEF IInv, NoticeOK, KeptOK, Registered, Listening, AsleepIsRegistered
  <1> QED
    BY <1>1, Invariance, PTL

\* The index whenAnyFor answers is that of a finished job, and it answers none only
\* after a timeout.
THEOREM AnswersAreDone == Spec => []AnswerIsDone
PROOF
  <1>1. IInv => AnswerIsDone
    BY DEF IInv, ResultOK, AnswerIsDone
  <1> QED
    BY <1>1, Invariance, PTL
=============================================================================
