----------------------------- MODULE HeapProofs -----------------------------
(***************************************************************************)
(* Proofs about SnapshotGC and FreeList for any heap, any threads, roots,  *)
(* slots and sizes.                                                        *)
(*                                                                         *)
(* SnapshotGC: the marker never sees a reference that a thread moved       *)
(* behind its back. CoverOK says why that is harmless: what was reachable  *)
(* at the snapshot can be reached, along slots still to be read, from what *)
(* is marked or logged.  It is stated without paths, by the sets closed    *)
(* under those steps, so that no induction is needed.                      *)
(*                                                                         *)
(* FreeList: it implements RangeHeap.  The links of the list need no       *)
(* induction either: HeapInv says that there is an order of the free       *)
(* blocks along which each link leads to the next one, and that all blocks *)
(* up to a remembered or reached one in this order are too small.          *)
(***************************************************************************)
EXTENDS SnapshotGC, FreeList, SequenceTheorems, WellFoundedInduction, TLAPS

\* The references in the log.
Logged == {log[i] : i \in DOMAIN log}

\* A cycle is under way.
Cycling == pc # "wait"

\* What the program may hold: at rest every object; in a cycle what was reachable
\* at its snapshot and what was allocated since.
Safe == IF Cycling THEN live \cup (used \ Old) ELSE used

\* Nothing will be freed that the snapshot held.
Retaining == pc \in {"mark", "retain", "reap"} \/ (pc = "sweep" /\ overflow)

\* No free block but those the reuse bitmap protects is below the frontier.
OwnerOK ==
    /\ BlocksHaveOneOwner
    /\ detached \subseteq frontier
    /\ pc # "sweep" => detached = {}
    /\ Cycling => /\ bins \cap frontier \subseteq reuse
                  /\ \A m \in Mutators : tlab[m] \cap frontier \subseteq reuse

\* What was reachable at the snapshot is still allocated.
LiveOK == Cycling => live \subseteq Old

\* Roots, pending stores and running threads are safe to use.
RootsOK ==
    /\ \A r \in Regs : regs[r] # Nil => regs[r] \in Safe
    /\ \A m \in Mutators : op[m] # NoOp =>
        op[m].obj \in Safe /\ (op[m].val # Nil => op[m].val \in Safe)
    /\ running \subseteq Safe

\* So is what the objects that are safe to use hold.
StoreOK == Closed(Safe, store)

\* The snapshot's garbage holds references to blocks of the snapshot only.
GarbageOK ==
    Retaining => \A c \in Old \ live, s \in Slots : store[c][s] # Nil => store[c][s] \in Old

\* What the worker's variables are in each phase.
PhaseOK ==
    /\ satb <=> pc = "mark"
    /\ pc \in {"retain", "reap"} => overflow
    /\ scan # NoScan => pc = "mark" /\ scan.obj \in marks

\* What is marked: objects of the snapshot, in the end all of them.
MarkOK ==
    /\ pc = "mark" \/ (pc = "sweep" /\ ~overflow) => marks \subseteq live
    /\ pc = "mark" => work \subseteq marks /\ Logged \subseteq live
    /\ pc = "reap" \/ (pc = "sweep" /\ overflow) => Old \subseteq marks
    /\ pc = "sweep" => live \subseteq marks /\ Old \ unswept \subseteq marks

\* Slot s of c is still to be looked at by the marker.
Unseen(c, s) == c \in work \/ c \notin marks \/ (c = scan.obj /\ s \in scan.left)

\* A thread has logged the reference in slot s of c and is about to overwrite it.
Doomed(c, s) == \E m \in Mutators : op[m].obj = c /\ op[m].slot = s

\* S holds what is marked and logged, and what leads on from it.
Reaches(S) ==
    /\ marks \cup Logged \subseteq S
    /\ \A c \in S \cap live, s \in Slots :
        Unseen(c, s) /\ ~Doomed(c, s) /\ store[c][s] \in live => store[c][s] \in S

\* All that was reachable at the snapshot is in any such set.
CoverOK ==
    pc = "mark" /\ ~overflow => \A S \in SUBSET Cells : Reaches(S) => live \subseteq S

\* While blocks are freed, no registered thread object is among them.
RegistryOK ==
    /\ RegistrySound
    /\ pc = "sweep" => contexts \cap frontier \subseteq reuse \cup marks

\* The inductive invariant.
IInv == /\ TypeOK
        /\ OwnerOK
        /\ LiveOK
        /\ RootsOK
        /\ StoreOK
        /\ GarbageOK
        /\ PhaseOK
        /\ MarkOK
        /\ CoverOK
        /\ RegistryOK

-----------------------------------------------------------------------------
(* Closures                                                                *)

\* A closure holds its roots.
LEMMA ClosureRoots ==
    ASSUME NEW R, NEW f, R \subseteq Cells
    PROVE  R \subseteq Closure(R, f)
BY DEF Closure

\* A closure is the least of the closed sets over its roots.
LEMMA ClosureLeast ==
    ASSUME NEW R, NEW f, NEW S \in SUBSET Cells, R \subseteq S, Closed(S, f)
    PROVE  Closure(R, f) \subseteq S
BY DEF Closure

\* A closure is closed.
LEMMA ClosureClosed ==
    ASSUME NEW R, NEW f \in [Cells -> [Slots -> Values]]
    PROVE  Closed(Closure(R, f), f)
<1> SUFFICES ASSUME NEW c \in Closure(R, f), NEW s \in Slots, f[c][s] # Nil
             PROVE  f[c][s] \in Closure(R, f)
  BY DEF Closed
<1>1. c \in Cells
  BY DEF Closure
<1>2. f[c][s] \in Cells
  BY <1>1 DEF Values
<1>3. ASSUME NEW S \in SUBSET Cells, R \subseteq S, Closed(S, f)
      PROVE  f[c][s] \in S
  <2>1. c \in S
    BY <1>3 DEF Closure
  <2> QED BY <1>3, <2>1 DEF Closed
<1> QED BY <1>2, <1>3 DEF Closure

-----------------------------------------------------------------------------
(* What the invariant says about single references                          *)

\* A reference in a root is safe to use.
LEMMA RegSafe ==
    ASSUME IInv, NEW r \in Regs, regs[r] # Nil
    PROVE  regs[r] \in Safe /\ regs[r] \in Cells
BY DEF IInv, RootsOK, TypeOK, Values

\* So is one loaded from a slot of an object that is.
LEMMA SlotSafe ==
    ASSUME IInv, NEW c \in Safe, NEW s \in Slots, store[c][s] # Nil
    PROVE  store[c][s] \in Safe
BY DEF IInv, StoreOK, Closed

\* What is safe to use is allocated, and what of it was allocated at the snapshot
\* was reachable then.
LEMMA SafeUsed ==
    ASSUME IInv
    PROVE  /\ Safe \subseteq used
           /\ Cycling => live \subseteq Old /\ Safe \cap Old = live
BY DEF IInv, LiveOK, Safe, Old

\* The program reaches nothing but what is safe to use.
LEMMA ReachableSafe ==
    ASSUME IInv
    PROVE  Reachable \subseteq Safe
<1> DEFINE R == (Roots \cup UNION {{op[m].obj, op[m].val} : m \in Mutators}) \ {Nil}
<1>1. Safe \in SUBSET Cells
  BY SafeUsed DEF IInv, TypeOK
<1>2. Roots \subseteq Safe
  BY RegSafe DEF Roots, IInv, RootsOK
<1>3. ASSUME NEW m \in Mutators, NEW v \in {op[m].obj, op[m].val}, v # Nil
      PROVE  v \in Safe
  BY <1>3 DEF IInv, RootsOK, NoOp
<1>4. R \subseteq Safe
  BY <1>2, <1>3
<1>5. Closed(Safe, store)
  BY DEF IInv, StoreOK
<1> HIDE DEF R
<1>6. Closure(R, store) \subseteq Safe
  BY <1>1, <1>4, <1>5, ClosureLeast
<1> QED BY <1>6 DEF R, Reachable

-----------------------------------------------------------------------------
(* The deletion log                                                        *)

\* Logging a reference adds it to the logged ones.
LEMMA LogGrows ==
    ASSUME log \in Seq(Cells), NEW v \in Cells, log' = Append(log, v)
    PROVE  /\ log' \in Seq(Cells) /\ Len(log') = Len(log) + 1
           /\ Logged' = Logged \cup {v}
<1>1. log' \in Seq(Cells) /\ Len(log') = Len(log) + 1 /\ Len(log) \in Nat
  OBVIOUS
<1>2. DOMAIN log = 1 .. Len(log) /\ DOMAIN log' = 1 .. Len(log) + 1
  BY <1>1
<1>3. log'[Len(log) + 1] = v /\ \A i \in 1 .. Len(log) : log'[i] = log[i]
  OBVIOUS
<1> QED BY <1>1, <1>2, <1>3 DEF Logged

\* Popping one leaves the others.
LEMMA LogShrinks ==
    ASSUME log \in Seq(Cells), log # <<>>, log' = SubSeq(log, 1, Len(log) - 1)
    PROVE  /\ log' \in Seq(Cells) /\ Len(log') < Len(log)
           /\ log[Len(log)] \in Logged
           /\ Logged' \subseteq Logged /\ Logged \subseteq Logged' \cup {log[Len(log)]}
<1> DEFINE n == Len(log)
<1>1. n \in Nat \ {0} /\ DOMAIN log = 1 .. n /\ \A i \in 1 .. n : log[i] \in Cells
  OBVIOUS
<1>2. /\ log' \in Seq(Cells)
      /\ Len(log') = n - 1
      /\ \A i \in 1 .. n - 1 : log'[i] = log[i]
  <2>1. \A i \in 1 .. n - 1 : log[i] \in Cells
    BY <1>1
  <2>2. 1 \in Int /\ n - 1 \in Int
    BY <1>1
  <2> HIDE DEF n
  <2>3. /\ SubSeq(log, 1, n - 1) \in Seq(Cells)
        /\ Len(SubSeq(log, 1, n - 1)) = IF 1 <= n - 1 THEN (n - 1) - 1 + 1 ELSE 0
        /\ \A i \in 1 .. (n - 1) - 1 + 1 : SubSeq(log, 1, n - 1)[i] = log[1 + i - 1]
    BY <2>1, <2>2, SubSeqProperties
  <2>4. log' = SubSeq(log, 1, n - 1)
    BY DEF n
  <2> QED BY <1>1, <2>3, <2>4
<1>3. DOMAIN log' = 1 .. n - 1
  BY <1>2
<1>4. 1 .. n = (1 .. n - 1) \cup {n} /\ n \in 1 .. n
  BY <1>1
<1>5. Logged' = {log[i] : i \in 1 .. n - 1}
  BY <1>2, <1>3 DEF Logged
<1>6. Logged = {log[i] : i \in 1 .. n}
  BY <1>1 DEF Logged
<1>7. Len(log') < n
  BY <1>1, <1>2
<1> HIDE DEF n
<1>8. log[n] \in Logged /\ Logged' \subseteq Logged /\ Logged \subseteq Logged' \cup {log[n]}
  BY <1>4, <1>5, <1>6
<1> QED BY <1>2, <1>7, <1>8 DEF n

-----------------------------------------------------------------------------
(* The steps                                                               *)

\* The program starts with an empty heap.
LEMMA InitIInv == Init => IInv
<1> SUFFICES ASSUME Init PROVE IInv
  OBVIOUS
<1> USE SizesAssumption DEF Init, Cycling, Safe, Old
<1>1. TypeOK
  <2>1. store \in [Cells -> [Slots -> Values]] /\ regs \in [Regs -> Values]
    BY DEF Values
  <2>2. log \in Seq(Cells) /\ Len(log) <= SatbCapacity
    OBVIOUS
  <2> QED BY <2>1, <2>2 DEF TypeOK
<1>2. OwnerOK /\ LiveOK /\ RootsOK /\ StoreOK /\ GarbageOK
  BY DEF OwnerOK, BlocksHaveOneOwner, LiveOK, RootsOK, StoreOK, Closed, GarbageOK, Retaining
<1>3. PhaseOK /\ MarkOK /\ CoverOK /\ RegistryOK
  BY DEF PhaseOK, MarkOK, CoverOK, RegistryOK, RegistrySound, NoScan
<1> QED BY <1>1, <1>2, <1>3 DEF IInv

\* A mutator's move of a reference from where it may use it to a root.
LEMMA RegsStep ==
    ASSUME IInv, regs' \in [Regs -> Values],
           \A r \in Regs : regs'[r] # Nil => regs'[r] \in Safe,
           UNCHANGED <<heap, op, contexts, running, pc, marking, logging, cycle, live>>
    PROVE  IInv'
<1> USE DEF heap, marking, logging, cycle
<1>1. Safe' = Safe /\ Old' = Old
  BY DEF Safe, Old, Cycling
<1>2. TypeOK'
  BY DEF IInv, TypeOK
<1>3. RootsOK'
  BY <1>1 DEF IInv, RootsOK
<1>4. OwnerOK' /\ LiveOK' /\ StoreOK' /\ GarbageOK'
  BY <1>1 DEF IInv, OwnerOK, BlocksHaveOneOwner, LiveOK, StoreOK, Closed, GarbageOK,
     Retaining, Cycling
<1>5. PhaseOK' /\ MarkOK' /\ RegistryOK'
  BY <1>1 DEF IInv, PhaseOK, MarkOK, RegistryOK, RegistrySound, Logged
<1>6. CoverOK'
  BY DEF IInv, CoverOK, Reaches, Unseen, Doomed, Logged
<1> QED BY <1>2, <1>3, <1>4, <1>5, <1>6 DEF IInv

\* A load: what a slot of an object in a root holds.
LEMMA LoadStep ==
    ASSUME IInv, NEW m \in Mutators, Load(m)
    PROVE  IInv'
<1>1. PICK r \in Regs, q \in Regs, s \in Slots :
        regs[r] # Nil /\ regs' = [regs EXCEPT ![q] = store[regs[r]][s]]
  BY DEF Load
<1> DEFINE v == store[regs[r]][s]
<1>2. regs[r] \in Safe /\ regs[r] \in Cells
  BY <1>1, RegSafe
<1>3. v \in Values /\ (v # Nil => v \in Safe)
  BY <1>2, SlotSafe DEF IInv, TypeOK
<1> HIDE DEF v
<1>4. regs' = [regs EXCEPT ![q] = v]
  BY <1>1 DEF v
<1>5. regs' \in [Regs -> Values]
  BY <1>3, <1>4 DEF IInv, TypeOK
<1>6. \A x \in Regs : regs'[x] # Nil => regs'[x] \in Safe
  BY <1>3, <1>4, RegSafe DEF IInv, TypeOK
<1> QED BY <1>5, <1>6, RegsStep DEF Load

\* A move between roots.
LEMMA MoveStep ==
    ASSUME IInv, NEW m \in Mutators, Move(m)
    PROVE  IInv'
<1>1. PICK q \in Regs, v \in {Nil} \cup {regs[r] : r \in Regs} : regs' = [regs EXCEPT ![q] = v]
  BY DEF Move
<1>2. v \in Values /\ (v # Nil => v \in Safe)
  BY RegSafe DEF Values
<1>3. regs' \in [Regs -> Values]
  BY <1>1, <1>2 DEF IInv, TypeOK
<1>4. \A x \in Regs : regs'[x] # Nil => regs'[x] \in Safe
  BY <1>1, <1>2, RegSafe DEF IInv, TypeOK
<1> QED BY <1>3, <1>4, RegsStep DEF Move

\* A thread ends: nothing but the set of running ones changes.
LEMMA ThreadEndsStep ==
    ASSUME IInv, ThreadEnds
    PROVE  IInv'
<1> USE DEF heap, marking, logging, cycle
<1>0. /\ running' \subseteq running
      /\ UNCHANGED <<heap, regs, op, contexts, pc, marking, logging, cycle, live>>
  BY DEF ThreadEnds
<1>1. Safe' = Safe /\ Old' = Old
  BY <1>0 DEF Safe, Old, Cycling
<1>2. TypeOK'
  BY <1>0 DEF IInv, TypeOK
<1>3. RootsOK'
  BY <1>0, <1>1 DEF IInv, RootsOK
<1>4. OwnerOK' /\ LiveOK' /\ StoreOK' /\ GarbageOK'
  BY <1>0, <1>1 DEF IInv, OwnerOK, BlocksHaveOneOwner, LiveOK, StoreOK, Closed, GarbageOK,
     Retaining, Cycling
<1>5. PhaseOK' /\ MarkOK' /\ RegistryOK'
  BY <1>0, <1>1 DEF IInv, PhaseOK, MarkOK, RegistryOK, RegistrySound, Logged
<1>6. CoverOK'
  BY <1>0 DEF IInv, CoverOK, Reaches, Unseen, Doomed, Logged
<1> QED BY <1>2, <1>3, <1>4, <1>5, <1>6 DEF IInv

\* What the barrier logs: a reference that was reachable at the snapshot, that is
\* not marked; it leaves out no other.
LEMMA ToLogLive ==
    ASSUME IInv, NEW v \in Safe
    PROVE  /\ ToLog(v) => v \in live /\ pc = "mark"
           /\ pc = "mark" /\ v \in live /\ ~ToLog(v) => v \in marks
<1>1. v \in used
  BY SafeUsed
<1>2. ToLog(v) => v \in Old /\ pc = "mark"
  BY <1>1 DEF ToLog, Old, IInv, PhaseOK
<1>3. pc = "mark" /\ v \in live => v \in frontier /\ v \notin reuse /\ satb
  BY DEF IInv, LiveOK, PhaseOK, Old, Cycling
<1> QED BY <1>2, <1>3, SafeUsed DEF ToLog, Cycling

\* A thread logs what it will overwrite: the reference moves from the slot to the
\* log, so what can be reached from marks, log and unseen slots stays.
LEMMA LogStoreStep ==
    ASSUME IInv, NEW m \in Mutators, LogStore(m)
    PROVE  IInv'
<1> USE DEF heap, marking, logging, cycle
<1>1. PICK r \in Regs, s \in Slots, v \in {Nil} \cup {regs[q] : q \in Regs} :
        /\ regs[r] # Nil
        /\ Record(store[regs[r]][s])
        /\ op' = [op EXCEPT ![m] = [obj |-> regs[r], slot |-> s, val |-> v]]
  BY DEF LogStore
<1> DEFINE c == regs[r]
           w == store[c][s]
<1>2. c \in Safe /\ c \in Cells
  BY <1>1, RegSafe
<1>3. v \in Values /\ (v # Nil => v \in Safe)
  BY RegSafe DEF Values
<1>4. w \in Values /\ (w # Nil => w \in Safe)
  BY <1>2, SlotSafe DEF IInv, TypeOK
<1>5. op[m] = NoOp
  BY DEF LogStore, Managed
<1> HIDE DEF c, w
<1>6. /\ Record(w)
      /\ op' = [op EXCEPT ![m] = [obj |-> c, slot |-> s, val |-> v]]
      /\ UNCHANGED <<heap, regs, contexts, running, pc, marking, cycle, live>>
  BY <1>1 DEF c, w, LogStore
<1>7. c # Nil
  BY <1>1 DEF c
<1>8. ToLog(w) => w \in live /\ w \in Cells /\ pc = "mark"
  <2>1. ToLog(w) => w # Nil
    BY SizesAssumption DEF ToLog, IInv, TypeOK
  <2> QED BY <2>1, <1>4, ToLogLive DEF Values
<1>9. /\ log' \in Seq(Cells) /\ Len(log') <= SatbCapacity
      /\ overflow' \in BOOLEAN /\ satb' = satb
      /\ Logged' \subseteq Logged \cup (IF ToLog(w) THEN {w} ELSE {})
      /\ Logged \subseteq Logged' /\ (overflow => overflow')
      /\ ToLog(w) /\ ~overflow' => w \in Logged'
  <2>1. CASE ToLog(w) /\ Len(log) < SatbCapacity
    <3>1. log' = Append(log, w) /\ UNCHANGED <<satb, overflow>>
      BY <1>6, <2>1 DEF Record
    <3>2. log' \in Seq(Cells) /\ Len(log') = Len(log) + 1 /\ Logged' = Logged \cup {w}
      BY <1>8, <2>1, <3>1, LogGrows DEF IInv, TypeOK
    <3>3. Len(log') <= SatbCapacity
      BY <2>1, <3>2, SizesAssumption DEF IInv, TypeOK
    <3> QED BY <2>1, <3>1, <3>2, <3>3 DEF IInv, TypeOK
  <2>2. CASE ToLog(w) /\ ~(Len(log) < SatbCapacity)
    <3>1. overflow' = TRUE /\ UNCHANGED <<satb, log>>
      BY <1>6, <2>2 DEF Record
    <3> QED BY <2>2, <3>1 DEF IInv, TypeOK, Logged
  <2>3. CASE ~ToLog(w)
    BY <1>6, <2>3 DEF Record, IInv, TypeOK, Logged
  <2> QED BY <2>1, <2>2, <2>3
<1>10. Safe' = Safe /\ Old' = Old
  BY <1>6 DEF Safe, Old, Cycling
<1>11. op'[m] = [obj |-> c, slot |-> s, val |-> v] /\ \A n \in Mutators \ {m} : op'[n] = op[n]
  BY <1>6 DEF IInv, TypeOK
<1>12. TypeOK'
  <2>1. op' \in [Mutators -> [obj : Cells, slot : Slots, val : Values] \cup {NoOp}]
    BY <1>2, <1>3, <1>6 DEF IInv, TypeOK
  <2> QED BY <1>6, <1>9, <2>1 DEF IInv, TypeOK
<1>13. RootsOK'
  BY <1>2, <1>3, <1>6, <1>10, <1>11 DEF IInv, RootsOK
<1>14. OwnerOK' /\ LiveOK' /\ StoreOK'
  BY <1>6, <1>10 DEF IInv, OwnerOK, BlocksHaveOneOwner, LiveOK, StoreOK, Closed, Cycling
<1>15. ToLog(w) \/ overflow' = overflow
  BY <1>6 DEF Record
<1>16. GarbageOK' /\ PhaseOK' /\ RegistryOK'
  BY <1>6, <1>8, <1>9, <1>10, <1>15
  DEF IInv, GarbageOK, Retaining, PhaseOK, RegistryOK, RegistrySound
<1>17. MarkOK'
  BY <1>6, <1>8, <1>9, <1>10, <1>15 DEF IInv, MarkOK
<1>18. CoverOK'
  <2> SUFFICES ASSUME pc = "mark", ~overflow', NEW S \in SUBSET Cells, Reaches(S)'
               PROVE  live \subseteq S
    BY <1>6 DEF CoverOK
  <2>1. marks \cup Logged' \subseteq S
    BY <1>6 DEF Reaches
  <2>2. w \in live => w \in S
    BY <1>4, <1>9, <2>1, ToLogLive, SizesAssumption DEF IInv, TypeOK
  <2>3. ASSUME NEW d \in S \cap live, NEW t \in Slots, Unseen(d, t), ~Doomed(d, t), store[d][t] \in live
        PROVE  store[d][t] \in S
    <3>1. CASE d = c /\ t = s
      BY <2>2, <2>3, <3>1 DEF w
    <3>2. CASE ~(d = c /\ t = s)
      <4>1. ~Doomed(d, t)'
        BY <1>11, <2>3, <3>2 DEF Doomed
      <4>2. Unseen(d, t)'
        BY <1>6, <2>3 DEF Unseen
      <4> QED BY <1>6, <2>3, <4>1, <4>2 DEF Reaches
    <3> QED BY <3>1, <3>2
  <2>4. Reaches(S)
    BY <1>9, <2>1, <2>3 DEF Reaches
  <2>5. ~overflow
    BY <1>9
  <2> QED BY <2>4, <2>5 DEF IInv, CoverOK
<1> QED BY <1>12, <1>13, <1>14, <1>16, <1>17, <1>18 DEF IInv

\* The store is made: the reference it overwrites was logged, or need not be.
LEMMA StoreStep ==
    ASSUME IInv, NEW m \in Mutators, Store(m)
    PROVE  IInv'
<1> USE DEF heap, marking, logging, cycle
<1> DEFINE c == op[m].obj
           s == op[m].slot
           v == op[m].val
<1>1. op[m] # NoOp /\ op[m] \in [obj : Cells, slot : Slots, val : Values]
  BY DEF Store, Managed, IInv, TypeOK
<1>2. c \in Cells /\ s \in Slots /\ v \in Values /\ c \in Safe /\ (v # Nil => v \in Safe)
  BY <1>1 DEF IInv, RootsOK
<1>3. /\ store' = [store EXCEPT ![c][s] = v]
      /\ op' = [op EXCEPT ![m] = NoOp]
      /\ UNCHANGED <<used, heapPtr, bins, tlab, regs, contexts, running, pc,
                     marking, logging, cycle, live>>
  BY DEF Store
<1>4. Doomed(c, s)
  BY DEF Doomed
<1> HIDE DEF c, s, v
<1>5. store' \in [Cells -> [Slots -> Values]]
  BY <1>2, <1>3 DEF IInv, TypeOK
<1>6. \A d \in Cells, t \in Slots : store'[d][t] = IF d = c /\ t = s THEN v ELSE store[d][t]
  BY <1>2, <1>3 DEF IInv, TypeOK
<1>7. Safe' = Safe /\ Old' = Old
  BY <1>3 DEF Safe, Old, Cycling
<1>8. op'[m] = NoOp /\ \A n \in Mutators \ {m} : op'[n] = op[n]
  BY <1>3 DEF IInv, TypeOK
<1>9. TypeOK'
  <2>1. op' \in [Mutators -> [obj : Cells, slot : Slots, val : Values] \cup {NoOp}]
    BY <1>3 DEF IInv, TypeOK
  <2> QED BY <1>3, <1>5, <2>1 DEF IInv, TypeOK
<1>10. RootsOK'
  BY <1>3, <1>7, <1>8 DEF IInv, RootsOK
<1>11. Safe \subseteq Cells
  BY SafeUsed DEF IInv, TypeOK
<1>12. StoreOK'
  BY <1>2, <1>6, <1>7, <1>11 DEF IInv, StoreOK, Closed
<1>13. GarbageOK'
  <2> SUFFICES ASSUME Retaining, NEW d \in Old \ live, NEW t \in Slots, store'[d][t] # Nil
               PROVE  store'[d][t] \in Old
    BY <1>3, <1>7 DEF GarbageOK, Retaining
  <2>1. d # c
    BY <1>2, SafeUsed DEF Retaining, Cycling
  <2>2. d \in Cells
    BY DEF Old, IInv, TypeOK
  <2> QED BY <1>6, <2>1, <2>2 DEF IInv, GarbageOK
<1>14. OwnerOK' /\ LiveOK' /\ PhaseOK' /\ MarkOK' /\ RegistryOK'
  BY <1>3, <1>7 DEF IInv, OwnerOK, BlocksHaveOneOwner, LiveOK, PhaseOK, MarkOK, RegistryOK,
     RegistrySound, Logged, Cycling
<1>15. CoverOK'
  <2> SUFFICES ASSUME pc = "mark", ~overflow, NEW S \in SUBSET Cells, Reaches(S)'
               PROVE  live \subseteq S
    BY <1>3 DEF CoverOK
  <2>1. ASSUME NEW d \in S \cap live, NEW t \in Slots, Unseen(d, t), ~Doomed(d, t), store[d][t] \in live
        PROVE  store[d][t] \in S
    <3>1. store'[d][t] = store[d][t]
      BY <1>4, <1>6, <2>1
    <3>2. ~Doomed(d, t)'
      BY <1>8, <2>1, SizesAssumption DEF Doomed, NoOp
    <3>3. Unseen(d, t)'
      BY <1>3, <2>1 DEF Unseen
    <3> QED BY <1>3, <2>1, <3>1, <3>2, <3>3 DEF Reaches
  <2>2. Reaches(S)
    BY <1>3, <2>1 DEF Reaches, Logged
  <2> QED BY <2>2 DEF IInv, CoverOK
<1> QED BY <1>9, <1>10, <1>12, <1>13, <1>14, <1>15 DEF IInv

\* A new object: its block was free, and no snapshot holds a free block.
LEMMA CreateStep ==
    ASSUME IInv, NEW m \in Mutators, NEW c \in Cells, Create(m, c),
           c \notin used, c \notin detached,
           Cycling => c \notin frontier \/ c \in reuse,
           heapPtr \subseteq heapPtr', heapPtr' \subseteq Cells, c \in heapPtr',
           bins' \subseteq bins, c \notin bins',
           tlab' \in [Mutators -> SUBSET heapPtr'],
           \A n \in Mutators : tlab'[n] \subseteq tlab[n] /\ c \notin tlab'[n]
    PROVE  IInv'
<1> USE DEF marking, logging, cycle
<1>1. /\ used' = used \cup {c}
      /\ store' = [store EXCEPT ![c] = [s \in Slots |-> Nil]]
      /\ UNCHANGED <<op, pc, marking, logging, cycle, live>>
      /\ contexts \subseteq contexts' /\ contexts' \subseteq contexts \cup {c}
      /\ running \subseteq running' /\ running' \subseteq running \cup {c}
      /\ c \in running' => c \in contexts'
  BY DEF Create, IInv, RegistryOK, RegistrySound
<1>2. PICK q \in Regs : regs' = [regs EXCEPT ![q] = c]
  BY DEF Create
<1>3. Cycling => Old' = Old /\ c \notin Old /\ c \notin live
  BY <1>1 DEF Old, IInv, LiveOK
<1>4. Safe' = Safe \cup {c}
  BY <1>1, <1>3 DEF Safe, Cycling
<1>5. /\ store' \in [Cells -> [Slots -> Values]]
      /\ \A d \in Cells, t \in Slots : store'[d][t] = IF d = c THEN Nil ELSE store[d][t]
  BY <1>1 DEF IInv, TypeOK, Values
<1>6. regs' \in [Regs -> Values]
  BY <1>2 DEF IInv, TypeOK, Values
<1>7. TypeOK'
  BY <1>1, <1>5, <1>6 DEF IInv, TypeOK
<1>8. OwnerOK'
  <2>1. BlocksHaveOneOwner'
    BY <1>1 DEF IInv, OwnerOK, BlocksHaveOneOwner
  <2> QED BY <1>1, <2>1 DEF IInv, OwnerOK, Cycling
<1>9. LiveOK'
  BY <1>1, <1>3 DEF IInv, LiveOK, Cycling
<1>10. RootsOK'
  BY <1>1, <1>2, <1>4, RegSafe DEF IInv, RootsOK, TypeOK
<1>11. StoreOK'
  <2>1. Safe \subseteq Cells
    BY SafeUsed DEF IInv, TypeOK
  <2> QED BY <1>4, <1>5, <2>1 DEF IInv, StoreOK, Closed
<1>12. GarbageOK'
  <2>1. Old \subseteq Cells
    BY DEF Old, IInv, TypeOK
  <2> QED BY <1>1, <1>3, <1>5, <2>1 DEF IInv, GarbageOK, Retaining, Cycling
<1>13. PhaseOK' /\ MarkOK'
  BY <1>1, <1>3 DEF IInv, PhaseOK, MarkOK, Logged, Cycling
<1>14. CoverOK'
  <2> SUFFICES ASSUME pc = "mark", ~overflow, NEW S \in SUBSET Cells, Reaches(S)'
               PROVE  live \subseteq S
    BY <1>1 DEF CoverOK
  <2>1. ASSUME NEW d \in S \cap live, NEW t \in Slots, Unseen(d, t), ~Doomed(d, t), store[d][t] \in live
        PROVE  store[d][t] \in S
    <3>1. store'[d][t] = store[d][t]
      BY <1>3, <1>5, <2>1 DEF Cycling
    <3> QED BY <1>1, <2>1, <3>1 DEF Reaches, Unseen, Doomed
  <2>2. Reaches(S)
    BY <1>1, <2>1 DEF Reaches, Logged
  <2> QED BY <2>2 DEF IInv, CoverOK
<1>15. RegistryOK'
  BY <1>1 DEF IInv, RegistryOK, RegistrySound, Cycling
<1> QED BY <1>7, <1>8, <1>9, <1>10, <1>11, <1>12, <1>13, <1>14, <1>15 DEF IInv

\* Allocation from the thread's own range.
LEMMA AllocPrivateStep ==
    ASSUME IInv, NEW m \in Mutators, AllocPrivate(m)
    PROVE  IInv'
<1>1. PICK c \in tlab[m] : tlab' = [tlab EXCEPT ![m] = @ \ {c}] /\ Create(m, c)
  BY DEF AllocPrivate
<1>2. UNCHANGED <<heapPtr, bins>>
  BY DEF AllocPrivate
<1>3. c \in heapPtr /\ c \in Cells
  BY <1>1 DEF IInv, TypeOK
<1>4. c \notin used /\ c \notin detached /\ c \notin bins /\ (Cycling => c \notin frontier \/ c \in reuse)
  BY <1>1 DEF IInv, OwnerOK, BlocksHaveOneOwner
<1>5. \A n \in Mutators : tlab'[n] = IF n = m THEN tlab[m] \ {c} ELSE tlab[n]
  BY <1>1 DEF IInv, TypeOK
<1>6. \A n \in Mutators : tlab'[n] \subseteq tlab[n] /\ c \notin tlab'[n]
  BY <1>1, <1>5 DEF IInv, OwnerOK, BlocksHaveOneOwner
<1>7. tlab' \in [Mutators -> SUBSET heapPtr'] /\ heapPtr' \subseteq Cells
  BY <1>1, <1>2 DEF IInv, TypeOK
<1> QED BY <1>1, <1>2, <1>3, <1>4, <1>6, <1>7, CreateStep

\* Allocation under the heap lock, from the bins or above heap_ptr.
LEMMA AllocCentralStep ==
    ASSUME IInv, NEW m \in Mutators, AllocCentral(m)
    PROVE  IInv'
<1>1. UNCHANGED tlab
  BY DEF AllocCentral
<1>2. ASSUME NEW c \in bins, bins' = bins \ {c}, UNCHANGED heapPtr, Create(m, c)
      PROVE  IInv'
  <2>1. c \in heapPtr /\ c \in Cells
    BY DEF IInv, TypeOK
  <2>2. c \notin used /\ c \notin detached /\ (Cycling => c \notin frontier \/ c \in reuse)
        /\ \A n \in Mutators : c \notin tlab[n]
    BY DEF IInv, OwnerOK, BlocksHaveOneOwner
  <2>3. tlab' \in [Mutators -> SUBSET heapPtr'] /\ heapPtr' \subseteq Cells
    BY <1>1, <1>2 DEF IInv, TypeOK
  <2> QED BY <1>1, <1>2, <2>1, <2>2, <2>3, CreateStep
<1>3. ASSUME NEW c \in Cells \ heapPtr, heapPtr' = heapPtr \cup {c}, UNCHANGED bins, Create(m, c)
      PROVE  IInv'
  <2>1. c \notin used /\ c \notin detached /\ c \notin frontier /\ c \notin bins
        /\ \A n \in Mutators : c \notin tlab[n]
    BY DEF IInv, TypeOK, OwnerOK
  <2>2. tlab' \in [Mutators -> SUBSET heapPtr'] /\ heapPtr' \subseteq Cells
    BY <1>1, <1>3 DEF IInv, TypeOK
  <2> QED BY <1>1, <1>3, <2>1, <2>2, CreateStep
<1> QED BY <1>2, <1>3 DEF AllocCentral

\* Free blocks change hands: bins, TLABs and heap_ptr move, nothing else.
LEMMA FreeBlocksStep ==
    ASSUME IInv, TypeOK', OwnerOK',
           UNCHANGED <<store, used, roots, pc, marking, logging, cycle, live>>
    PROVE  IInv'
<1> USE DEF roots, marking, logging, cycle
<1>1. Safe' = Safe /\ Old' = Old
  BY DEF Safe, Old, Cycling
<1>2. LiveOK' /\ StoreOK' /\ GarbageOK' /\ RootsOK'
  BY <1>1 DEF IInv, LiveOK, StoreOK, Closed, GarbageOK, Retaining, Cycling, RootsOK
<1>3. PhaseOK' /\ MarkOK' /\ RegistryOK'
  BY <1>1 DEF IInv, PhaseOK, MarkOK, RegistryOK, RegistrySound, Logged
<1>4. CoverOK'
  BY DEF IInv, CoverOK, Reaches, Unseen, Doomed, Logged
<1> QED BY <1>2, <1>3, <1>4 DEF IInv

\* The rest of a TLAB goes back to the bins.
LEMMA RetireStep ==
    ASSUME IInv, NEW m \in Mutators, Retire(m)
    PROVE  IInv'
<1> USE DEF roots, marking, logging, cycle
<1>1. /\ bins' = bins \cup tlab[m] /\ tlab' = [tlab EXCEPT ![m] = {}]
      /\ UNCHANGED <<store, used, heapPtr, roots, pc, marking, logging, cycle, live>>
  BY DEF Retire
<1>2. \A n \in Mutators : tlab'[n] = IF n = m THEN {} ELSE tlab[n]
  BY <1>1 DEF IInv, TypeOK
<1>3. TypeOK'
  BY <1>1 DEF IInv, TypeOK
<1>4. BlocksHaveOneOwner'
  BY <1>1, <1>2 DEF IInv, OwnerOK, BlocksHaveOneOwner
<1>5. OwnerOK'
  BY <1>1, <1>2, <1>4 DEF IInv, OwnerOK, Cycling
<1> QED BY <1>1, <1>3, <1>5, FreeBlocksStep

\* A new TLAB comes from the bins or from above heap_ptr.
LEMMA RefillStep ==
    ASSUME IInv, NEW m \in Mutators, Refill(m)
    PROVE  IInv'
<1> USE DEF roots, marking, logging, cycle
<1>1. PICK b \in SUBSET Cells :
        /\ \/ b \subseteq bins /\ bins' = bins \ b /\ UNCHANGED heapPtr
           \/ b \cap heapPtr = {} /\ heapPtr' = heapPtr \cup b /\ UNCHANGED bins
        /\ tlab' = [tlab EXCEPT ![m] = b]
  BY DEF Refill
<1>2. UNCHANGED <<store, used, roots, pc, marking, logging, cycle, live>>
  BY DEF Refill
<1>3. \A n \in Mutators : tlab'[n] = IF n = m THEN b ELSE tlab[n]
  BY <1>1 DEF IInv, TypeOK
<1>4. /\ heapPtr \subseteq heapPtr' /\ heapPtr' \subseteq Cells /\ b \subseteq heapPtr'
      /\ bins' \subseteq bins /\ b \cap bins' = {}
  BY <1>1 DEF IInv, TypeOK
<1>5. /\ b \cap (used \cup detached) = {} /\ \A n \in Mutators : b \cap tlab[n] = {}
      /\ Cycling => b \cap frontier \subseteq reuse
  <2>1. CASE b \subseteq bins
    BY <2>1 DEF IInv, OwnerOK, BlocksHaveOneOwner
  <2>2. CASE b \cap heapPtr = {}
    BY <2>2 DEF IInv, TypeOK, OwnerOK
  <2> QED BY <1>1, <2>1, <2>2
<1>6. TypeOK'
  <2>1. tlab' \in [Mutators -> SUBSET heapPtr']
    BY <1>1, <1>4 DEF IInv, TypeOK
  <2> QED BY <1>2, <1>4, <2>1 DEF IInv, TypeOK
<1>7. BlocksHaveOneOwner'
  BY <1>2, <1>3, <1>4, <1>5 DEF IInv, OwnerOK, BlocksHaveOneOwner
<1>8. OwnerOK'
  BY <1>2, <1>3, <1>4, <1>5, <1>7 DEF IInv, OwnerOK, Cycling
<1> QED BY <1>2, <1>6, <1>8, FreeBlocksStep

\* The first pause: what is reachable is what the cycle is about, and it follows
\* from the marked roots, of which no slot has been looked at.
LEMMA SnapshotStep ==
    ASSUME IInv, Snapshot
    PROVE  IInv'
<1> USE DEF heap, roots, logging, cycle
<1>1. /\ pc = "wait" /\ pc' = "mark" /\ frontier' = heapPtr
      /\ \/ reuse' = bins /\ bins' = bins
         \/ reuse' = {} /\ bins' = {}
      /\ tlab' = [m \in Mutators |-> {}]
      /\ marks' = used \cap heapPtr \cap Roots /\ work' = marks'
      /\ satb' = TRUE /\ log' = <<>> /\ overflow' = FALSE
      /\ live' = Reachable
      /\ UNCHANGED <<store, used, heapPtr, roots, scan, unswept, detached>>
  BY DEF Snapshot
<1>2. \A m \in Mutators : op[m] = NoOp
  BY DEF Snapshot, Paused, Managed
<1>3. scan = NoScan /\ detached = {} /\ Safe = used
  BY <1>1 DEF IInv, PhaseOK, OwnerOK, Safe, Cycling
<1>4. used \subseteq Cells /\ Roots \subseteq used
  BY <1>3, RegSafe DEF IInv, TypeOK, Roots, RootsOK
<1>5. (Roots \cup UNION {{op[m].obj, op[m].val} : m \in Mutators}) \ {Nil} = Roots
  BY <1>2 DEF Roots, NoOp
<1>6. live' = Closure(Roots, store)
  BY <1>1, <1>5 DEF Reachable
<1>7. /\ Roots \subseteq live' /\ live' \subseteq used /\ Closed(live', store)
  <2>1. Roots \subseteq live'
    BY <1>4, <1>6, ClosureRoots
  <2>2. live' \subseteq used
    BY <1>1, <1>3, ReachableSafe
  <2>3. Closed(live', store)
    BY <1>6, ClosureClosed DEF IInv, TypeOK
  <2> QED BY <2>1, <2>2, <2>3
<1>8. Old' = used
  BY <1>1 DEF Old, IInv, TypeOK, OwnerOK, BlocksHaveOneOwner
<1>9. Safe' = live' /\ Cycling'
  BY <1>1, <1>8 DEF Safe, Cycling
<1>10. marks' = Roots
  BY <1>1, <1>4 DEF IInv, TypeOK
<1>11. Logged' = {}
  BY <1>1 DEF Logged
<1>12. TypeOK'
  <2>1. log' \in Seq(Cells) /\ Len(log') <= SatbCapacity
    BY <1>1, SizesAssumption
  <2>2. live' \subseteq Cells /\ marks' \subseteq Cells /\ work' \subseteq Cells
    BY <1>1, <1>4, <1>7
  <2>3. bins' \subseteq heapPtr /\ reuse' \subseteq Cells /\ frontier' \subseteq heapPtr'
    BY <1>1 DEF IInv, TypeOK
  <2>4. unswept' \subseteq frontier'
    BY <1>1 DEF IInv, TypeOK
  <2> QED BY <1>1, <2>1, <2>2, <2>3, <2>4 DEF IInv, TypeOK
<1>13. OwnerOK'
  <2>1. BlocksHaveOneOwner'
    BY <1>1 DEF IInv, OwnerOK, BlocksHaveOneOwner
  <2> QED BY <1>1, <1>3, <2>1 DEF OwnerOK
<1>14. LiveOK' /\ StoreOK'
  BY <1>1, <1>7, <1>8, <1>9 DEF LiveOK, StoreOK, Closed
<1>15. RootsOK'
  <2>1. Nil \notin running /\ running \subseteq live'
    BY <1>7, SizesAssumption DEF Roots, IInv, TypeOK
  <2> QED BY <1>1, <1>2, <1>7, <1>9, <2>1 DEF RootsOK, Roots
<1>16. GarbageOK'
  BY <1>1, <1>3, <1>8 DEF IInv, GarbageOK, StoreOK, Closed
<1>17. PhaseOK' /\ MarkOK' /\ RegistryOK'
  BY <1>1, <1>3, <1>7, <1>10, <1>11 DEF IInv, PhaseOK, MarkOK, RegistryOK, RegistrySound
<1>18. CoverOK'
  <2> SUFFICES ASSUME NEW S \in SUBSET Cells, Reaches(S)'
               PROVE  live' \subseteq S
    BY DEF CoverOK
  <2> DEFINE W == S \cap live'
  <2>1. Roots \subseteq W
    BY <1>7, <1>10 DEF Reaches
  <2>2. \A c \in live', t \in Slots : Unseen(c, t)' /\ ~Doomed(c, t)'
    BY <1>1, <1>2, <1>4, <1>7, SizesAssumption DEF Unseen, Doomed, NoOp
  <2>3. Closed(W, store)
    BY <1>1, <1>7, <2>2 DEF Reaches, Closed
  <2>4. Closure(Roots, store) \subseteq W
    BY <2>1, <2>3, ClosureLeast
  <2> QED BY <1>6, <2>4
<1> QED BY <1>12, <1>13, <1>14, <1>15, <1>16, <1>17, <1>18 DEF IInv

\* Marking: what the marker's variables say is all that changes.
LEMMA MarkingStep ==
    ASSUME IInv, pc = "mark",
           UNCHANGED <<heap, roots, pc, satb, overflow, cycle, live>>,
           marks \subseteq marks', marks' \subseteq live, work' \subseteq marks',
           log' \in Seq(Cells), Len(log') <= SatbCapacity, Logged' \subseteq live,
           scan' \in [obj : Cells, left : SUBSET Slots] \cup {NoScan},
           scan' # NoScan => scan'.obj \in marks',
           ~overflow => \A S \in SUBSET Cells : Reaches(S)' => Reaches(S)
    PROVE  IInv'
<1> USE DEF heap, roots, cycle
<1>1. Safe' = Safe /\ Old' = Old
  BY DEF Safe, Old, Cycling
<1>2. live \subseteq Cells
  BY DEF IInv, TypeOK
<1>3. TypeOK'
  BY <1>2 DEF IInv, TypeOK
<1>4. OwnerOK' /\ LiveOK' /\ StoreOK' /\ GarbageOK' /\ RootsOK'
  BY <1>1 DEF IInv, OwnerOK, BlocksHaveOneOwner, LiveOK, StoreOK, Closed, GarbageOK,
     Retaining, Cycling, RootsOK
<1>5. PhaseOK' /\ MarkOK' /\ RegistryOK'
  BY DEF IInv, PhaseOK, MarkOK, RegistryOK, RegistrySound
<1>6. CoverOK'
  BY DEF IInv, CoverOK
<1> QED BY <1>3, <1>4, <1>5, <1>6 DEF IInv

\* A reference leaves the log for the marks.
LEMMA DrainStep ==
    ASSUME IInv, Drain
    PROVE  IInv'
<1> DEFINE v == log[Len(log)]
<1>1. /\ pc = "mark" /\ ~overflow /\ scan = NoScan /\ log # <<>>
      /\ log' = SubSeq(log, 1, Len(log) - 1)
      /\ marks' = marks \cup ({v} \cap Old)
      /\ work' = work \cup (({v} \cap Old) \ marks)
      /\ UNCHANGED <<heap, roots, pc, scan, satb, overflow, cycle, live>>
  BY DEF Drain, Mark
<1>2. /\ log' \in Seq(Cells) /\ Len(log') < Len(log)
      /\ v \in Logged
      /\ Logged' \subseteq Logged /\ Logged \subseteq Logged' \cup {v}
  BY <1>1, LogShrinks DEF IInv, TypeOK
<1> HIDE DEF v
<1>3. v \in live /\ v \in Old /\ Logged' \subseteq live
  BY <1>1, <1>2, SafeUsed DEF IInv, MarkOK, Cycling
<1>4. marks' = marks \cup {v} /\ work' = work \cup ({v} \ marks)
  BY <1>1, <1>3
<1>5. marks' \subseteq live /\ work' \subseteq marks'
  BY <1>1, <1>3, <1>4 DEF IInv, MarkOK
<1>6. Len(log') <= SatbCapacity
  <2>1. Len(log) \in Nat /\ Len(log') \in Nat /\ Len(log) <= SatbCapacity
    BY <1>2 DEF IInv, TypeOK
  <2> QED BY <1>2, <2>1, SizesAssumption
<1>7. ASSUME NEW S \in SUBSET Cells, Reaches(S)'
      PROVE  Reaches(S)
  BY <1>1, <1>2, <1>4, <1>7 DEF Reaches, Unseen, Doomed, heap, roots
<1>8. scan' \in [obj : Cells, left : SUBSET Slots] \cup {NoScan} /\ scan' = NoScan
  BY <1>1
<1> QED BY <1>1, <1>2, <1>3, <1>4, <1>5, <1>6, <1>7, <1>8, MarkingStep

\* A marked block is taken from the mark stack to be scanned.
LEMMA PickStep ==
    ASSUME IInv, Pick
    PROVE  IInv'
<1>1. PICK c \in work : work' = work \ {c} /\ scan' = [obj |-> c, left |-> Slots]
  BY DEF Pick
<1>2. /\ pc = "mark" /\ ~overflow /\ scan = NoScan
      /\ UNCHANGED <<heap, roots, pc, marks, logging, cycle, live>>
  BY DEF Pick
<1>3. c \in marks /\ c \in Cells /\ marks \subseteq live /\ work' \subseteq marks /\ Logged \subseteq live
  BY <1>1, <1>2 DEF IInv, TypeOK, MarkOK
<1>4. scan' \in [obj : Cells, left : SUBSET Slots] /\ scan'.obj = c /\ scan'.left = Slots
  BY <1>1, <1>3
<1>5. log' \in Seq(Cells) /\ Len(log') <= SatbCapacity /\ Logged' = Logged
  BY <1>2 DEF IInv, TypeOK, Logged, logging
<1>6. ASSUME NEW S \in SUBSET Cells, Reaches(S)'
      PROVE  Reaches(S)
  <2>1. \A d \in Cells, t \in Slots : Unseen(d, t) => Unseen(d, t)'
    BY <1>1, <1>2, <1>4, SizesAssumption DEF Unseen, NoScan
  <2> QED BY <1>2, <1>5, <1>6, <2>1 DEF Reaches, Doomed, heap, roots
<1> QED BY <1>2, <1>3, <1>4, <1>5, <1>6, MarkingStep DEF logging

\* One slot of the block being scanned is read and what it holds is marked.
LEMMA ScanSlotStep ==
    ASSUME IInv, ScanSlot
    PROVE  IInv'
<1>1. PICK s \in scan.left :
        /\ marks' = marks \cup ({store[scan.obj][s]} \cap Old)
        /\ work' = work \cup (({store[scan.obj][s]} \cap Old) \ marks)
        /\ scan' = IF scan.left = {s} THEN NoScan ELSE [scan EXCEPT !.left = @ \ {s}]
  BY DEF ScanSlot, Mark
<1>2. pc = "mark" /\ scan # NoScan /\ UNCHANGED <<heap, roots, pc, logging, cycle, live>>
  BY DEF ScanSlot
<1> DEFINE c == scan.obj
           w == store[c][s]
<1>3. scan \in [obj : Cells, left : SUBSET Slots] /\ c \in Cells /\ s \in Slots
  BY <1>1, <1>2 DEF IInv, TypeOK
<1>4. c \in marks /\ c \in live /\ marks \subseteq live /\ work \subseteq marks /\ Logged \subseteq live
  BY <1>2 DEF IInv, PhaseOK, MarkOK
<1>5. w \in Old => w \in live
  <2>1. c \in Safe /\ Cycling
    BY <1>2, <1>4, SafeUsed DEF Safe, Cycling
  <2>2. w \in Old => w # Nil
    BY SizesAssumption DEF Old, IInv, TypeOK
  <2> QED BY <1>3, <2>1, <2>2, SlotSafe, SafeUsed
<1>6. live \subseteq Old
  BY <1>2, SafeUsed DEF Cycling
<1> HIDE DEF w
<1>7. marks' = marks \cup ({w} \cap Old) /\ work' = work \cup (({w} \cap Old) \ marks)
  BY <1>1 DEF w
<1>8. marks' \subseteq live /\ work' \subseteq marks'
  BY <1>4, <1>5, <1>7
<1>9. /\ scan' \in [obj : Cells, left : SUBSET Slots] \cup {NoScan}
      /\ scan' # NoScan => scan'.obj = c
      /\ \A t \in Slots : t \in scan.left /\ t # s => scan'.obj = c /\ t \in scan'.left
  BY <1>1, <1>3
<1>10. log' \in Seq(Cells) /\ Len(log') <= SatbCapacity /\ Logged' = Logged
  BY <1>2 DEF IInv, TypeOK, Logged, logging
<1>11. ASSUME NEW S \in SUBSET Cells, Reaches(S)'
       PROVE  Reaches(S)
  <2>1. ASSUME NEW d \in S \cap live, NEW t \in Slots, Unseen(d, t), ~Doomed(d, t), store[d][t] \in live
        PROVE  store[d][t] \in S
    <3>1. ~Doomed(d, t)' /\ store' = store /\ live' = live
      BY <1>2, <2>1 DEF Doomed, heap, roots
    <3>2. CASE d = c /\ t = s
      BY <1>6, <1>7, <1>11, <2>1, <3>2 DEF w, Reaches
    <3>3. CASE ~(d = c /\ t = s)
      <4>1. Unseen(d, t)'
        BY <1>6, <1>7, <1>9, <2>1, <3>3 DEF Unseen
      <4> QED BY <1>11, <2>1, <3>1, <4>1 DEF Reaches
    <3> QED BY <3>2, <3>3
  <2> QED BY <1>7, <1>10, <1>11, <2>1 DEF Reaches
<1> HIDE DEF c
<1> QED BY <1>2, <1>4, <1>7, <1>8, <1>9, <1>10, <1>11, MarkingStep DEF logging

\* When the worklist is empty and nothing is logged, everything reachable at the
\* snapshot is marked, and nothing else.
LEMMA MarkedLive ==
    ASSUME IInv, pc = "mark", ~overflow, scan = NoScan, work = {}, log = <<>>
    PROVE  marks = live
<1>1. marks \in SUBSET Cells /\ marks \subseteq live
  BY DEF IInv, TypeOK, MarkOK
<1>2. Logged = {}
  BY DEF Logged
<1>3. \A c \in marks \cap live, s \in Slots : ~Unseen(c, s)
  BY <1>1, SizesAssumption DEF Unseen, NoScan
<1>4. Reaches(marks)
  BY <1>1, <1>2, <1>3 DEF Reaches
<1> QED BY <1>1, <1>4 DEF IInv, CoverOK

\* A thread that runs is never reaped.
LEMMA RunningKept ==
    ASSUME IInv, Cycling, live \subseteq marks
    PROVE  running \cap DeadContexts = {}
<1>1. running \subseteq used /\ running \subseteq Safe
  BY DEF IInv, RegistryOK, RegistrySound, RootsOK
<1>2. \A c \in DeadContexts : c \in frontier /\ c \notin reuse /\ c \notin marks
  BY DEF DeadContexts
<1> QED BY <1>1, <1>2, SafeUsed DEF Old

\* The pauses that start the sweep.
LEMMA SweepStartStep ==
    ASSUME IInv, Cycling, live \subseteq marks, detached = {},
           pc' = "sweep", satb' = FALSE, contexts' = contexts \ DeadContexts, unswept' = frontier,
           IF overflow THEN Old \subseteq marks ELSE marks \subseteq live,
           scan = NoScan,
           UNCHANGED <<heap, regs, op, running, marking, log, overflow, frontier, reuse, detached, live>>
    PROVE  IInv'
<1> USE DEF heap, marking
<1>1. Safe' = Safe /\ Old' = Old
  BY DEF Safe, Old, Cycling
<1>2. TypeOK'
  BY DEF IInv, TypeOK
<1>3. OwnerOK' /\ LiveOK' /\ StoreOK' /\ RootsOK'
  BY <1>1 DEF IInv, OwnerOK, BlocksHaveOneOwner, LiveOK, StoreOK, Closed, Cycling, RootsOK
<1>4. GarbageOK'
  <2>1. CASE overflow
    BY <1>1, <2>1 DEF IInv, GarbageOK, Retaining, PhaseOK, TypeOK, Cycling
  <2>2. CASE ~overflow
    BY <2>2 DEF GarbageOK, Retaining
  <2> QED BY <2>1, <2>2
<1>5. PhaseOK' /\ CoverOK'
  BY DEF PhaseOK, CoverOK, IInv
<1>6. MarkOK'
  BY <1>1 DEF MarkOK, Old, IInv
<1>7. RegistryOK'
  <2>1. running' \subseteq contexts'
    BY RunningKept DEF IInv, RegistryOK, RegistrySound
  <2>2. contexts' \cap frontier \subseteq reuse \cup marks
    BY DEF DeadContexts
  <2> QED BY <2>1, <2>2 DEF IInv, RegistryOK, RegistrySound
<1> QED BY <1>2, <1>3, <1>4, <1>5, <1>6, <1>7 DEF IInv

\* A thread object whose handle cannot be closed is kept with all it leads to:
\* the cycle is now about that as well, and marking goes on.
LEMMA KeepStep ==
    ASSUME IInv, pc = "mark", ~overflow, scan = NoScan, work = {}, log = <<>>, Paused,
           NEW S \in SUBSET DeadContexts, NEW d \in DeadContexts \ S,
           contexts' = contexts \ S, Mark({d}), satb' = TRUE,
           live' = live \cup Closure({d}, Garbage),
           UNCHANGED <<pc, unswept, heap, regs, op, running, scan, log, overflow, frontier,
                       reuse, detached>>
    PROVE  IInv'
<1> USE DEF heap
<1> DEFINE C == Closure({d}, Garbage)
<1>1. marks = live
  BY MarkedLive
<1>2. live \subseteq Old /\ Cycling
  BY SafeUsed DEF Cycling
<1>3. d \in Old /\ d \notin live /\ Old \subseteq Cells
  BY <1>1 DEF DeadContexts, Old, IInv, TypeOK, RegistryOK, RegistrySound
<1>4. marks' = live \cup {d} /\ work' = {d}
  BY <1>1, <1>3 DEF Mark
<1>5. /\ Garbage \in [Cells -> [Slots -> Values]]
      /\ \A c \in Cells, s \in Slots : Garbage[c][s] = IF c \in live THEN Nil ELSE store[c][s]
  BY DEF Garbage, IInv, TypeOK, Values
<1>6. {d} \subseteq Cells
  BY <1>3
<1>7. Closed(Old, Garbage)
  BY <1>3, <1>5 DEF Closed, IInv, GarbageOK, Retaining
<1>8. C \subseteq Old
  BY <1>3, <1>7, ClosureLeast
<1>9. d \in C /\ Closed(C, Garbage)
  <2>1. d \in C
    BY <1>6, ClosureRoots
  <2> QED BY <1>5, <2>1, ClosureClosed
<1> HIDE DEF C
<1>10. live' = live \cup C
  BY DEF C
<1>11. Old' = Old
  BY DEF Old
<1>12. Safe' = Safe \cup C /\ Safe \subseteq Safe'
  BY <1>2, <1>10, <1>11 DEF Safe, Cycling
<1>13. TypeOK'
  BY <1>3, <1>4, <1>8, <1>10 DEF IInv, TypeOK
<1>14. LiveOK' /\ OwnerOK'
  BY <1>2, <1>8, <1>10, <1>11 DEF LiveOK, IInv, OwnerOK, BlocksHaveOneOwner, Cycling
<1>15. RootsOK'
  BY <1>12 DEF IInv, RootsOK
<1>16. StoreOK'
  <2> SUFFICES ASSUME NEW c \in Safe', NEW s \in Slots, store[c][s] # Nil
               PROVE  store[c][s] \in Safe'
    BY DEF StoreOK, Closed
  <2>1. CASE c \in Safe
    BY <1>12, <2>1, SlotSafe
  <2>2. CASE c \in C \ live
    <3>1. Garbage[c][s] = store[c][s]
      BY <1>3, <1>5, <1>8, <2>2
    <3>2. Garbage[c][s] \in C
      BY <1>9, <2>2, <3>1 DEF Closed
    <3> QED BY <1>12, <3>1, <3>2
  <2>3. live \subseteq Safe
    BY <1>2 DEF Safe
  <2> QED BY <1>12, <2>1, <2>2, <2>3
<1>17. GarbageOK'
  BY <1>10, <1>11 DEF IInv, GarbageOK, Retaining
<1>18. PhaseOK' /\ MarkOK'
  BY <1>4, <1>9, <1>10, <1>11 DEF IInv, PhaseOK, MarkOK, Logged
<1>19. RegistryOK'
  BY <1>1, <1>2, RunningKept DEF IInv, RegistryOK, RegistrySound
<1>20. CoverOK'
  <2> SUFFICES ASSUME NEW T \in SUBSET Cells, Reaches(T)'
               PROVE  live' \subseteq T
    BY DEF CoverOK
  <2> DEFINE W == T \cap live'
  <2>1. live \cup {d} \subseteq W
    BY <1>4, <1>9, <1>10 DEF Reaches
  <2>2. ASSUME NEW c \in W, NEW s \in Slots, Garbage[c][s] # Nil
        PROVE  Garbage[c][s] \in W
    <3>1. c \in C /\ c \notin live /\ c \in Cells
      BY <1>2, <1>3, <1>5, <1>8, <1>10, <2>2
    <3>2. Garbage[c][s] = store[c][s] /\ Garbage[c][s] \in C
      BY <1>5, <1>9, <2>2, <3>1 DEF Closed
    <3>3. Unseen(c, s)'
      BY <1>4, <3>1 DEF Unseen
    <3>4. ~Doomed(c, s)'
      BY <3>1, SizesAssumption DEF Doomed, Paused, Managed, NoOp
    <3> QED BY <1>10, <3>1, <3>2, <3>3, <3>4 DEF Reaches
  <2>3. Closed(W, Garbage) /\ {d} \subseteq W
    BY <2>1, <2>2 DEF Closed
  <2>4. C \subseteq W
    BY <2>3, ClosureLeast DEF C
  <2> QED BY <1>10, <2>1, <2>4
<1> QED BY <1>13, <1>14, <1>15, <1>16, <1>17, <1>18, <1>19, <1>20 DEF IInv

\* The pause that ends the marking, or goes on with it.
LEMMA RemarkStep ==
    ASSUME IInv, Remark
    PROVE  IInv'
<1>1. /\ pc = "mark" /\ ~overflow /\ scan = NoScan /\ work = {} /\ log = <<>>
      /\ Paused /\ Reap
      /\ UNCHANGED <<heap, regs, op, running, scan, log, overflow, frontier, reuse, detached>>
  BY DEF Remark
<1>2. marks = live /\ Cycling /\ detached = {}
  BY <1>1, MarkedLive DEF Cycling, IInv, OwnerOK
<1>3. CASE /\ contexts' = contexts \ DeadContexts
           /\ pc' = "sweep" /\ unswept' = frontier /\ satb' = FALSE
           /\ UNCHANGED <<marks, work, live>>
  BY <1>1, <1>2, <1>3, SweepStartStep DEF marking
<1>4. CASE \E S \in SUBSET DeadContexts : \E d \in DeadContexts \ S :
             /\ contexts' = contexts \ S
             /\ Mark({d})
             /\ satb' = TRUE
             /\ live' = live \cup Closure({d}, Garbage)
             /\ UNCHANGED <<pc, unswept>>
  BY <1>1, <1>4, KeepStep
<1> QED BY <1>1, <1>3, <1>4 DEF Reap

\* The log has overflown: what is marked matters no more.
LEMMA RemarkOverflowStep ==
    ASSUME IInv, RemarkOverflow
    PROVE  IInv'
<1> USE DEF heap, roots, marking, cycle
<1>1. /\ pc = "mark" /\ overflow /\ scan = NoScan /\ pc' = "retain" /\ satb' = FALSE
      /\ UNCHANGED <<heap, roots, marking, log, overflow, cycle, live>>
  BY DEF RemarkOverflow
<1>2. Safe' = Safe /\ Old' = Old
  BY <1>1 DEF Safe, Old, Cycling
<1>3. TypeOK'
  BY <1>1 DEF IInv, TypeOK
<1>4. OwnerOK' /\ LiveOK' /\ StoreOK' /\ GarbageOK' /\ RootsOK'
  BY <1>1, <1>2 DEF IInv, OwnerOK, BlocksHaveOneOwner, LiveOK, StoreOK, Closed, GarbageOK,
     Retaining, Cycling, RootsOK
<1>5. PhaseOK' /\ MarkOK' /\ CoverOK' /\ RegistryOK'
  BY <1>1 DEF IInv, PhaseOK, MarkOK, CoverOK, RegistryOK, RegistrySound
<1> QED BY <1>3, <1>4, <1>5 DEF IInv

\* Every allocated block of the snapshot is marked.
LEMMA RetainStep ==
    ASSUME IInv, Retain
    PROVE  IInv'
<1> USE DEF heap, roots, logging, cycle
<1>1. /\ pc = "retain" /\ pc' = "reap" /\ marks' = marks \cup Old
      /\ UNCHANGED <<heap, roots, work, scan, logging, cycle, live>>
  BY DEF Retain
<1>2. Safe' = Safe /\ Old' = Old /\ Old \subseteq Cells
  BY <1>1 DEF Safe, Old, Cycling, IInv, TypeOK
<1>3. TypeOK'
  BY <1>1, <1>2 DEF IInv, TypeOK
<1>4. OwnerOK' /\ LiveOK' /\ StoreOK' /\ GarbageOK' /\ RootsOK'
  BY <1>1, <1>2 DEF IInv, OwnerOK, BlocksHaveOneOwner, LiveOK, StoreOK, Closed, GarbageOK,
     Retaining, Cycling, RootsOK
<1>5. PhaseOK' /\ MarkOK' /\ CoverOK' /\ RegistryOK'
  BY <1>1, <1>2 DEF IInv, PhaseOK, MarkOK, CoverOK, RegistryOK, RegistrySound
<1> QED BY <1>3, <1>4, <1>5 DEF IInv

\* The pause that starts the sweep of a cycle whose log has overflown.
LEMMA ReapRetainedStep ==
    ASSUME IInv, ReapRetained
    PROVE  IInv'
<1>1. /\ pc = "reap" /\ contexts' = contexts \ DeadContexts
      /\ pc' = "sweep" /\ unswept' = frontier
      /\ UNCHANGED <<heap, regs, op, running, marking, logging, frontier, reuse, detached, live>>
  BY DEF ReapRetained
<1>2. /\ Cycling /\ detached = {} /\ overflow /\ Old \subseteq marks /\ satb = FALSE
      /\ scan = NoScan
  BY <1>1 DEF IInv, Cycling, OwnerOK, PhaseOK, MarkOK, TypeOK
<1>3. live \subseteq marks
  BY <1>2, SafeUsed
<1> QED BY <1>1, <1>2, <1>3, SweepStartStep DEF logging

\* One block is swept.  It is freed only if the snapshot did not reach it, and
\* then nothing that is safe to use leads to it.
LEMMA SweepStep ==
    ASSUME IInv, Sweep
    PROVE  IInv'
<1> USE DEF roots, marking, logging
<1>1. PICK c \in unswept :
        /\ unswept' = unswept \ {c}
        /\ IF c \in reuse \cup marks
           THEN UNCHANGED <<store, used, detached>>
           ELSE /\ used' = used \ {c}
                /\ detached' = detached \cup {c}
                /\ store' = [store EXCEPT ![c] = [s \in Slots |-> Nil]]
  BY DEF Sweep
<1>2. pc = "sweep" /\ UNCHANGED <<heapPtr, bins, tlab, roots, pc, marking, logging, frontier, reuse, live>>
  BY DEF Sweep
<1>3. c \in frontier /\ c \in Cells /\ Cycling
  BY <1>2 DEF IInv, TypeOK, Cycling
<1>4. live \subseteq marks /\ Old \ unswept \subseteq marks /\ (overflow => Old \subseteq marks)
      /\ (~overflow => marks \subseteq live) /\ live \subseteq Old
  BY <1>2, <1>3, SafeUsed DEF IInv, MarkOK
<1>5. CASE c \in reuse \cup marks
  <2>1. UNCHANGED <<store, used, detached>>
    BY <1>1, <1>5
  <2>2. Safe' = Safe /\ Old' = Old
    BY <1>2, <2>1 DEF Safe, Old, Cycling
  <2>3. TypeOK'
    BY <1>1, <1>2, <2>1 DEF IInv, TypeOK
  <2>4. OwnerOK' /\ LiveOK' /\ StoreOK' /\ GarbageOK' /\ RootsOK'
    BY <1>2, <2>1, <2>2 DEF IInv, OwnerOK, BlocksHaveOneOwner, LiveOK, StoreOK, Closed, GarbageOK,
       Retaining, Cycling, RootsOK
  <2>5. MarkOK'
    BY <1>1, <1>2, <1>4, <1>5, <2>2 DEF MarkOK, Old
  <2>6. PhaseOK' /\ CoverOK' /\ RegistryOK'
    BY <1>2, <2>1 DEF IInv, PhaseOK, CoverOK, RegistryOK, RegistrySound
  <2> QED BY <2>3, <2>4, <2>5, <2>6 DEF IInv
<1>6. CASE c \notin reuse \cup marks
  <2>1. /\ used' = used \ {c}
        /\ detached' = detached \cup {c}
        /\ store' = [store EXCEPT ![c] = [s \in Slots |-> Nil]]
    BY <1>1, <1>6
  <2>2. Old' = Old \ {c} /\ c \notin live /\ c \notin Safe
    BY <1>2, <1>3, <1>4, <1>6, <2>1 DEF Old, Safe
  <2>3. Safe' = Safe
    BY <1>2, <2>1, <2>2 DEF Safe, Cycling
  <2>4. /\ store' \in [Cells -> [Slots -> Values]]
        /\ \A d \in Cells, t \in Slots : store'[d][t] = IF d = c THEN Nil ELSE store[d][t]
    BY <1>3, <2>1 DEF IInv, TypeOK, Values
  <2>5. TypeOK'
    BY <1>1, <1>2, <1>3, <2>1, <2>4 DEF IInv, TypeOK
  <2>6. OwnerOK'
    <3>1. c \notin bins /\ \A m \in Mutators : c \notin tlab[m]
      BY <1>3, <1>6 DEF IInv, OwnerOK
    <3>2. BlocksHaveOneOwner'
      BY <1>2, <2>1, <3>1 DEF IInv, OwnerOK, BlocksHaveOneOwner
    <3> QED BY <1>2, <1>3, <2>1, <3>2 DEF IInv, OwnerOK, Cycling
  <2>7. LiveOK' /\ RootsOK'
    BY <1>2, <1>4, <2>2, <2>3 DEF IInv, LiveOK, RootsOK
  <2>8. StoreOK'
    <3>1. Safe \subseteq Cells
      BY SafeUsed DEF IInv, TypeOK
    <3> QED BY <2>3, <2>4, <3>1 DEF IInv, StoreOK, Closed
  <2>9. GarbageOK'
    <3>1. overflow => c \notin Old
      BY <1>4, <1>6
    <3>2. Old \subseteq Cells
      BY DEF Old, IInv, TypeOK
    <3> QED BY <1>2, <2>2, <2>4, <3>1, <3>2 DEF IInv, GarbageOK, Retaining
  <2>10. MarkOK'
    BY <1>1, <1>2, <1>4, <2>2 DEF MarkOK
  <2>11. PhaseOK' /\ CoverOK'
    BY <1>2 DEF IInv, PhaseOK, CoverOK
  <2>12. RegistryOK'
    BY <1>2, <1>3, <1>6, <2>1 DEF IInv, RegistryOK, RegistrySound
  <2> QED BY <2>5, <2>6, <2>7, <2>8, <2>9, <2>10, <2>11, <2>12 DEF IInv
<1> QED BY <1>5, <1>6

\* The cycle is over: every object left is safe to use again.
LEMMA PublishStep ==
    ASSUME IInv, Publish
    PROVE  IInv'
<1> USE DEF roots, marking, logging
<1>1. /\ pc = "sweep" /\ unswept = {} /\ bins' = bins \cup detached /\ detached' = {}
      /\ pc' = "wait"
      /\ UNCHANGED <<store, used, heapPtr, tlab, roots, marking, logging, frontier, reuse,
                     unswept, live>>
  BY DEF Publish
<1>2. Safe' = used /\ Cycling
  BY <1>1 DEF Safe, Cycling
<1>3. Safe \subseteq used
  BY SafeUsed
<1>4. detached \subseteq heapPtr
  BY DEF IInv, OwnerOK, TypeOK
<1>5. TypeOK'
  BY <1>1, <1>4 DEF IInv, TypeOK
<1>6. OwnerOK'
  <2>1. BlocksHaveOneOwner'
    BY <1>1 DEF IInv, OwnerOK, BlocksHaveOneOwner
  <2> QED BY <1>1, <2>1 DEF OwnerOK, Cycling
<1>7. LiveOK' /\ GarbageOK' /\ CoverOK' /\ MarkOK'
  BY <1>1 DEF LiveOK, GarbageOK, Retaining, CoverOK, MarkOK, Cycling
<1>8. RootsOK'
  BY <1>1, <1>2, <1>3 DEF IInv, RootsOK
<1>9. StoreOK'
  <2> SUFFICES ASSUME NEW c \in used, NEW s \in Slots, store[c][s] # Nil
               PROVE  store[c][s] \in used
    BY <1>1, <1>2 DEF StoreOK, Closed
  <2>1. CASE c \in Safe
    BY <1>3, <2>1, SlotSafe
  <2>2. CASE c \notin Safe
    <3>1. c \in Old \ live
      BY <1>2, <2>2 DEF Safe
    <3>2. overflow
      BY <1>1, <3>1 DEF IInv, MarkOK
    <3>3. store[c][s] \in Old
      BY <1>1, <3>1, <3>2 DEF IInv, GarbageOK, Retaining
    <3> QED BY <3>3 DEF Old
  <2> QED BY <2>1, <2>2
<1>10. PhaseOK' /\ RegistryOK'
  BY <1>1 DEF IInv, PhaseOK, RegistryOK, RegistrySound
<1> QED BY <1>5, <1>6, <1>7, <1>8, <1>9, <1>10 DEF IInv

\* A step that changes nothing.
LEMMA StutterIInv == IInv /\ UNCHANGED vars => IInv'
<1> SUFFICES ASSUME IInv, UNCHANGED vars PROVE IInv'
  OBVIOUS
<1>1. regs' \in [Regs -> Values] /\ \A r \in Regs : regs'[r] # Nil => regs'[r] \in Safe
  BY RegSafe DEF vars, roots, IInv, TypeOK
<1> QED BY <1>1, RegsStep DEF vars, roots

-----------------------------------------------------------------------------
(* The theorems                                                            *)

\* Every step of the worker and of the compiled code preserves the invariant.
THEOREM Invariance == Spec => []IInv
<1>1. ASSUME IInv, Worker PROVE IInv'
  BY <1>1, SnapshotStep, DrainStep, PickStep, ScanSlotStep, RemarkStep, RemarkOverflowStep,
     RetainStep, ReapRetainedStep, SweepStep, PublishStep DEF Worker
<1>2. ASSUME IInv, NEW m \in Mutators, Mutator(m) PROVE IInv'
  BY <1>2, LoadStep, MoveStep, LogStoreStep, StoreStep, AllocPrivateStep, AllocCentralStep,
     RetireStep, RefillStep DEF Mutator
<1>3. IInv /\ [Next]_vars => IInv'
  BY <1>1, <1>2, ThreadEndsStep, StutterIInv DEF Next
<1> QED BY <1>3, InitIInv, PTL DEF Spec

\* Every variable of the collector keeps its type, and the deletion log stays
\* within its buffer.
THEOREM TypeCorrect == Spec => []TypeOK
<1>1. IInv => TypeOK
  BY DEF IInv
<1> QED BY <1>1, Invariance, PTL

\* For any heap, any number of threads, roots and slots and any size of the log,
\* no block the program can reach is ever freed.
THEOREM NothingIsLost == Spec => []NothingLost
<1>1. IInv => NothingLost
  BY ReachableSafe, SafeUsed DEF NothingLost
<1> QED BY <1>1, Invariance, PTL

\* A cycle whose log did not overflow frees exactly what was garbage at its
\* snapshot.
THEOREM SnapshotIsExact == Spec => []SnapshotExact
<1>1. IInv => SnapshotExact
  BY DEF IInv, MarkOK, SnapshotExact
<1> QED BY <1>1, Invariance, PTL

\* No block is in the hands of two of the program, the bins, a TLAB and the worker.
THEOREM OneOwner == Spec => []BlocksHaveOneOwner
<1>1. IInv => BlocksHaveOneOwner
  BY DEF IInv, OwnerOK
<1> QED BY <1>1, Invariance, PTL

\* The weak registry of threads names existing thread objects and every running
\* thread.
THEOREM RegistryIsSound == Spec => []RegistrySound
<1>1. IInv => RegistrySound
  BY DEF IInv, RegistryOK
<1> QED BY <1>1, Invariance, PTL
-----------------------------------------------------------------------------
(* FreeList: numbers                                                       *)
\* A set of numbers has a least one, and a bounded one a greatest.
LEMMA LeastExists ==
  ASSUME NEW S \in SUBSET Nat, S # {}
  PROVE  \E m \in S : \A x \in S : m <= x
PROOF
  <1> DEFINE less == OpToRel(<, Nat)
  <1>1. IsWellFoundedOn(less, Nat)
    BY NatLessThanWellFounded
  <1>2. \A x, y \in Nat : <<x, y>> \in less <=> x < y
    BY DEF OpToRel
  <1> HIDE DEF less
  <1>3. PICK m \in S : \A y \in S : <<y, m>> \notin less
    BY <1>1, WFMin
  <1>4. \A x \in S : ~ (x < m)
    BY <1>2, <1>3
  <1>5. \A x \in S : m <= x
    BY <1>4
  <1> QED
    BY <1>5

LEMMA HighestIs ==
  ASSUME NEW S \in SUBSET Nat, NEW n \in Nat, \A x \in S : x <= n, S # {}
  PROVE  Highest(S) \in S /\ \A x \in S : x <= Highest(S)
PROOF
  <1> DEFINE T == {n - x : x \in S}
  <1>1. \A x \in S : n - x \in Nat
    OBVIOUS
  <1> T \in SUBSET Nat /\ T # {}
    BY <1>1
  <1>2. PICK m \in T : \A x \in T : m <= x
    BY LeastExists
  <1>3. PICK h \in S : m = n - h
    OBVIOUS
  <1>4. \A x \in S : x <= h
    <2> TAKE x \in S
    <2>1. n - x \in T
      OBVIOUS
    <2> HIDE DEF T
    <2> QED
      BY <1>2, <1>3, <2>1
  <1> QED
    BY <1>4 DEF Highest
-----------------------------------------------------------------------------
(* FreeList: headers tile the heap                                         *)
\* The blocks with these headers lie one after the other from address 1 up to e.
Tiles(f, e) ==
  /\ e \in Nat \ {0}
  /\ DOMAIN f \subseteq Nat \ {0}
  /\ f \in [DOMAIN f -> Nat \ {0}]
  /\ \A b \in DOMAIN f : b + f[b] \in DOMAIN f \cup {e} /\ b + f[b] <= e
  /\ \A b, c \in DOMAIN f : b < c => b + f[b] <= c
  /\ e # 1 => 1 \in DOMAIN f

\* A block becomes two.
LEMMA SplitTiles ==
  ASSUME NEW f, NEW e, Tiles(f, e), NEW a \in DOMAIN f, NEW n \in Nat \ {0}, n < f[a]
  PROVE  LET g == Split(f, a, n)
         IN  /\ a + n \notin DOMAIN f
             /\ DOMAIN g = DOMAIN f \cup {a + n}
             /\ g[a] = n /\ g[a + n] = f[a] - n
             /\ \A c \in DOMAIN f : c # a => g[c] = f[c]
             /\ Tiles(g, e)
PROOF
  <1> DEFINE g == Split(f, a, n)
  <1>1. a + n \notin DOMAIN f
    BY DEF Tiles
  <1>2. /\ DOMAIN g = DOMAIN f \cup {a + n}
        /\ g[a] = n /\ g[a + n] = f[a] - n
        /\ \A c \in DOMAIN f : c # a => g[c] = f[c]
    BY <1>1 DEF Split, Header, Tiles
  <1>3. g \in [DOMAIN g -> Nat \ {0}]
    <2>1. g = [c \in DOMAIN g |-> g[c]]
      BY DEF Split, Header
    <2> HIDE DEF g
    <2> QED
      BY <1>1, <1>2, <2>1 DEF Tiles
  <1> HIDE DEF g
  <1>4. \A b \in DOMAIN g : b + g[b] \in DOMAIN g \cup {e} /\ b + g[b] <= e
    BY <1>1, <1>2 DEF Tiles
  <1>5. \A b, c \in DOMAIN g : b < c => b + g[b] <= c
    <2> SUFFICES ASSUME NEW b \in DOMAIN g, NEW c \in DOMAIN g, b < c
                 PROVE  b + g[b] <= c
      OBVIOUS
    <2>1. CASE b = a + n
      <3>1. c \in DOMAIN f /\ a < c
        BY <2>1, <1>2 DEF Tiles
      <3> QED
        BY <2>1, <3>1, <1>2 DEF Tiles
    <2>2. CASE c = a + n /\ b # a + n
      BY <2>2, <1>2 DEF Tiles
    <2>3. CASE b # a + n /\ c # a + n
      BY <2>3, <1>2 DEF Tiles
    <2> QED
      BY <2>1, <2>2, <2>3
  <1>6. e # 1 => 1 \in DOMAIN g
    BY <1>2 DEF Tiles
  <1> QED
    BY <1>1, <1>2, <1>3, <1>4, <1>5, <1>6 DEF g, Tiles

\* The heap grows by a block.
LEMMA GrowTiles ==
  ASSUME NEW f, NEW e, Tiles(f, e), NEW n \in Nat \ {0}
  PROVE  LET g == Header(f, e, n)
         IN  /\ e \notin DOMAIN f
             /\ DOMAIN g = DOMAIN f \cup {e} /\ g[e] = n /\ \A c \in DOMAIN f : g[c] = f[c]
             /\ Tiles(g, e + n)
PROOF
  <1> DEFINE g == Header(f, e, n)
  <1>1. e \notin DOMAIN f
    BY DEF Tiles
  <1>2. DOMAIN g = DOMAIN f \cup {e} /\ g[e] = n /\ \A c \in DOMAIN f : g[c] = f[c]
    BY <1>1 DEF Header
  <1>3. g \in [DOMAIN g -> Nat \ {0}]
    <2>1. g = [c \in DOMAIN g |-> g[c]]
      BY DEF Header
    <2> HIDE DEF g
    <2> QED
      BY <1>2, <2>1 DEF Tiles
  <1> HIDE DEF g
  <1>4. \A b \in DOMAIN g : b + g[b] \in DOMAIN g \cup {e + n} /\ b + g[b] <= e + n
    BY <1>2 DEF Tiles
  <1>5. \A b, c \in DOMAIN g : b < c => b + g[b] <= c
    BY <1>2 DEF Tiles
  <1> QED
    BY <1>1, <1>2, <1>3, <1>4, <1>5 DEF g, Tiles

\* Two blocks become one.
Joined(f, a, b) == Header([c \in DOMAIN f \ {b} |-> f[c]], a, f[a] + f[b])

LEMMA JoinTiles ==
  ASSUME NEW f, NEW e, Tiles(f, e), NEW a \in DOMAIN f, NEW b \in DOMAIN f, a + f[a] = b
  PROVE  LET g == Joined(f, a, b)
         IN  /\ DOMAIN g = DOMAIN f \ {b} /\ g[a] = f[a] + f[b]
             /\ \A c \in DOMAIN g : c # a => g[c] = f[c]
             /\ Tiles(g, e)
PROOF
  <1> DEFINE g == Joined(f, a, b)
  <1>1. a # b
    BY DEF Tiles
  <1>2. DOMAIN g = DOMAIN f \ {b} /\ g[a] = f[a] + f[b] /\ \A c \in DOMAIN g : c # a => g[c] = f[c]
    BY <1>1 DEF Joined, Header
  <1>3. g \in [DOMAIN g -> Nat \ {0}]
    <2>1. g = [c \in DOMAIN g |-> g[c]]
      BY DEF Joined, Header
    <2> HIDE DEF g
    <2> QED
      BY <1>2, <2>1 DEF Tiles
  <1> HIDE DEF g
  <1>4. \A c \in DOMAIN g : c + g[c] \in DOMAIN g \cup {e} /\ c + g[c] <= e
    <2> TAKE c \in DOMAIN g
    <2>1. CASE c = a
      BY <1>2, <2>1 DEF Tiles
    <2>2. CASE c # a
      <3>1. c + f[c] # b
        BY <1>2, <2>2 DEF Tiles
      <3> QED
        BY <1>2, <2>2, <3>1 DEF Tiles
    <2> QED
      BY <2>1, <2>2
  <1>5. \A c, d \in DOMAIN g : c < d => c + g[c] <= d
    <2> SUFFICES ASSUME NEW c \in DOMAIN g, NEW d \in DOMAIN g, c < d
                 PROVE  c + g[c] <= d
      OBVIOUS
    <2>1. CASE c = a
      <3>1. b <= d /\ b # d
        BY <1>2, <2>1 DEF Tiles
      <3> QED
        BY <1>2, <2>1, <3>1 DEF Tiles
    <2>2. CASE c # a
      BY <1>2, <2>2 DEF Tiles
    <2> QED
      BY <2>1, <2>2
  <1>6. e # 1 => 1 \in DOMAIN g
    BY <1>2 DEF Tiles
  <1> QED
    BY <1>2, <1>3, <1>4, <1>5, <1>6 DEF g, Tiles

\* What a sweep computes: the end of the last block kept, the gaps below it, and the block
\* kept that ends each gap.
LEMMA SweepFacts ==
  ASSUME Tiles(size, top), NEW kept \in SUBSET DOMAIN size, NEW end, NEW gaps,
         end = Highest(Ends(kept)),
         gaps = {b \in Ends(kept) : b \in DOMAIN size \ kept /\ b < end}
  PROVE  /\ end \in Ends(kept) /\ \A e \in Ends(kept) : e <= end
         /\ end \in Nat \ {0} /\ end <= top
         /\ Ends(kept) \subseteq Nat \ {0}
         /\ \A e \in Ends(kept) : e < end => e \in DOMAIN size
         /\ \A b \in gaps : /\ Following(b, kept) \in kept /\ b < Following(b, kept)
                            /\ \A l \in kept : b < l => Following(b, kept) <= l
PROOF
  <1>1. Ends(kept) \subseteq Nat \ {0} /\ 1 \in Ends(kept) /\ \A e \in Ends(kept) : e <= top
    BY DEF Ends, Tiles
  <1>2. top \in Nat
    BY DEF Tiles
  <1>3. end \in Ends(kept) /\ \A e \in Ends(kept) : e <= end
    BY <1>1, <1>2, HighestIs
  <1>4. \A e \in Ends(kept) : e < end => e \in DOMAIN size
    BY <1>1, <1>3 DEF Ends, Tiles
  <1>5. ASSUME NEW b \in gaps
        PROVE  /\ Following(b, kept) \in kept /\ b < Following(b, kept)
               /\ \A l \in kept : b < l => Following(b, kept) <= l
    <2>1. b \in Nat \ {0} /\ b < end /\ b \in DOMAIN size \ kept
      BY <1>1
    <2>2. PICK k \in kept : end = k + size[k]
      <3>1. end # 1
        BY <1>1, <2>1
      <3> QED
        BY <1>3, <3>1 DEF Ends
    <2>3. b < k
      BY <2>1, <2>2 DEF Tiles
    <2> DEFINE above == {k2 \in kept : b < k2}
    <2>4. above \in SUBSET Nat /\ above # {}
      BY <2>3 DEF Tiles
    <2>5. PICK m \in above : \A x \in above : m <= x
      BY <2>4, LeastExists
    <2>6. \E m2 \in kept : b < m2 /\ \A l \in kept : b < l => m2 <= l
      BY <2>5
    <2> QED
      BY <2>6 DEF Following
  <1> QED
    BY <1>1, <1>3, <1>4, <1>5

\* The blocks kept and the gaps between them tile the heap up to its new end.
LEMMA SweepTiles ==
  ASSUME Tiles(size, top), NEW kept \in SUBSET DOMAIN size, NEW end, NEW gaps,
         end = Highest(Ends(kept)),
         gaps = {b \in Ends(kept) : b \in DOMAIN size \ kept /\ b < end}
  PROVE  LET g == [b \in kept \cup gaps |-> IF b \in kept THEN size[b] ELSE Following(b, kept) - b]
         IN  Tiles(g, end)
PROOF
  <1> DEFINE g == [b \in kept \cup gaps |-> IF b \in kept THEN size[b] ELSE Following(b, kept) - b]
  <1>1. /\ end \in Ends(kept) /\ \A e \in Ends(kept) : e <= end
        /\ end \in Nat \ {0} /\ end <= top
        /\ Ends(kept) \subseteq Nat \ {0}
        /\ \A e \in Ends(kept) : e < end => e \in DOMAIN size
        /\ \A b \in gaps : /\ Following(b, kept) \in kept /\ b < Following(b, kept)
                           /\ \A l \in kept : b < l => Following(b, kept) <= l
    BY SweepFacts
  <1>2. kept \subseteq Nat \ {0} /\ gaps \subseteq Nat \ {0} /\ gaps \cap kept = {}
    BY <1>1 DEF Tiles
  <1>3. /\ DOMAIN g = kept \cup gaps
        /\ \A b \in kept : g[b] = size[b]
        /\ \A b \in gaps : g[b] = Following(b, kept) - b /\ b + g[b] = Following(b, kept)
        /\ g \in [DOMAIN g -> Nat \ {0}]
    BY <1>1, <1>2 DEF Tiles
  <1> HIDE DEF g
  <1>4. ASSUME NEW b \in DOMAIN g
        PROVE  b + g[b] \in DOMAIN g \cup {end} /\ b + g[b] <= end
    <2>1. CASE b \in kept
      <3>1. b + g[b] \in Ends(kept)
        BY <1>3, <2>1 DEF Ends
      <3> QED
        BY <1>1, <1>3, <3>1
    <2>2. CASE b \in gaps
      <3> DEFINE k == Following(b, kept)
      <3>1. k \in kept /\ k + size[k] \in Ends(kept) /\ size[k] \in Nat
        BY <1>1, <2>2 DEF Ends, Tiles
      <3>2. k < end
        BY <1>1, <1>2, <3>1 DEF Tiles
      <3> QED
        BY <1>3, <2>2, <3>1, <3>2, <1>1, <1>2
    <2> QED
      BY <1>3, <2>1, <2>2
  <1>5. ASSUME NEW b \in DOMAIN g, NEW c \in DOMAIN g, b < c
        PROVE  b + g[b] <= c
    <2>1. CASE b \in kept
      BY <1>3, <1>5, <2>1 DEF Tiles
    <2>2. CASE b \in gaps /\ c \in kept
      BY <1>1, <1>3, <1>5, <2>2
    <2>3. CASE b \in gaps /\ c \in gaps
      <3>1. c # 1
        BY <1>2, <1>5, <2>3
      <3>2. PICK l \in kept : c = l + size[l]
        BY <3>1, <2>3 DEF Ends
      <3>3. l < c /\ l \in Nat /\ l # b
        BY <1>2, <2>3, <3>2 DEF Tiles
      <3>4. b < l
        BY <1>2, <1>5, <2>3, <3>2, <3>3 DEF Tiles
      <3> QED
        BY <1>1, <1>2, <1>3, <2>3, <3>3, <3>4
    <2> QED
      BY <1>3, <2>1, <2>2, <2>3
  <1>6. end # 1 => 1 \in DOMAIN g
    <2>1. 1 \in Ends(kept)
      BY DEF Ends
    <2> QED
      BY <1>1, <1>3, <2>1
  <1> QED
    BY <1>1, <1>2, <1>3, <1>4, <1>5, <1>6 DEF g, Tiles
-----------------------------------------------------------------------------
(* FreeList: lists                                                         *)

\* h is the first of S in this order, or 0 for none.
First(h, S, ord) == \/ h = 0 /\ S = {}
                    \/ h \in S /\ \A c \in S : ord[h] <= ord[c]

\* The links lead from h through the blocks of L, each once, in this order.
IsList(L, h, links, ord) ==
  /\ L \subseteq Nat \ {0}
  /\ ord \in [Nat -> Int]
  /\ \A b, c \in L : ord[b] = ord[c] => b = c
  /\ First(h, L, ord)
  /\ \A b \in L : First(links[b], {c \in L : ord[b] < ord[c]}, ord)

\* Only the links of its members make a list.
LEMMA SameList ==
  ASSUME NEW L, NEW h, NEW links, NEW ord, IsList(L, h, links, ord),
         NEW other, \A b \in L : other[b] = links[b]
  PROVE  IsList(L, h, other, ord)
  BY DEF IsList, First

\* A block is put before the others.
LEMMA Pushed ==
  ASSUME NEW L, NEW h, NEW links, NEW ord, IsList(L, h, links, ord),
         NEW x \in Nat \ {0}, x \notin L,
         NEW other, other[x] = h, \A b \in L : other[b] = links[b]
  PROVE  IsList(L \cup {x}, x, other,
                [ord EXCEPT ![x] = IF h = 0 THEN 0 ELSE ord[h] - 1])
PROOF
  <1> DEFINE new == [ord EXCEPT ![x] = IF h = 0 THEN 0 ELSE ord[h] - 1]
  <1>1. L \subseteq Nat \ {0} /\ ord \in [Nat -> Int] /\ (h \in L \/ (h = 0 /\ L = {}))
    <2>1. L \subseteq Nat \ {0} /\ ord \in [Nat -> Int] /\ First(h, L, ord)
      BY DEF IsList
    <2> QED
      BY <2>1 DEF First
  <1>2. /\ new \in [Nat -> Int]
        /\ \A b \in L : new[b] = ord[b] /\ new[x] < ord[b]
    <2>1. \A b \in L : h \in L /\ h # 0 /\ ord[h] \in Int /\ ord[h] <= ord[b] /\ ord[b] \in Int
      BY <1>1 DEF IsList, First
    <2>2. (IF h = 0 THEN 0 ELSE ord[h] - 1) \in Int
      <3>1. h # 0 => h \in Nat /\ ord[h] \in Int
        BY <1>1
      <3> QED
        BY <3>1
    <2>3. new \in [Nat -> Int] /\ new[x] = IF h = 0 THEN 0 ELSE ord[h] - 1
      BY <1>1, <2>2
    <2>4. \A b \in L : new[b] = ord[b]
      BY <1>1
    <2> HIDE DEF new
    <2> QED
      BY <2>1, <2>3, <2>4
  <1>3. \A b, c \in L \cup {x} : new[b] = new[c] => b = c
    <2>1. \A b \in L : new[x] # new[b]
      BY <1>1, <1>2
    <2> QED
      BY <1>2, <2>1 DEF IsList
  <1>4. First(x, L \cup {x}, new)
    <2>1. new[x] <= new[x] /\ \A b \in L : new[x] <= new[b]
      BY <1>1, <1>2
    <2> QED
      BY <2>1 DEF First
  <1>5. ASSUME NEW b \in L \cup {x}
        PROVE  First(other[b], {c \in L \cup {x} : new[b] < new[c]}, new)
    <2>1. CASE b = x
      <3>1. {c \in L \cup {x} : new[b] < new[c]} = L
        <4>1. ~ (new[x] < new[x]) /\ \A c \in L : new[x] < new[c]
          BY <1>1, <1>2
        <4> HIDE DEF new
        <4> QED
          BY <2>1, <4>1
      <3> QED
        BY <1>2, <2>1, <3>1 DEF IsList, First
    <2>2. CASE b \in L
      <3>1. {c \in L \cup {x} : new[b] < new[c]} = {c \in L : ord[b] < ord[c]}
        BY <1>1, <1>2, <2>2
      <3>2. First(links[b], {c \in L : ord[b] < ord[c]}, new)
        BY <1>2, <2>2 DEF IsList, First
      <3> QED
        BY <2>2, <3>1, <3>2
    <2> QED
      BY <2>1, <2>2
  <1> QED
    BY <1>1, <1>2, <1>3, <1>4, <1>5 DEF IsList

\* The first block is taken off.
LEMMA Popped ==
  ASSUME NEW L, NEW h \in L, NEW links, NEW ord, IsList(L, h, links, ord)
  PROVE  IsList(L \ {h}, links[h], links, ord)
PROOF
  <1>1. L \subseteq Nat \ {0} /\ ord \in [Nat -> Int] /\ \A c \in L : ord[h] <= ord[c]
    BY DEF IsList, First
  <1>2. {c \in L : ord[h] < ord[c]} = L \ {h}
    <2>1. \A c \in L \ {h} : ord[h] < ord[c]
      BY <1>1 DEF IsList
    <2>2. ~ (ord[h] < ord[h])
      BY <1>1
    <2> QED
      BY <2>1, <2>2
  <1>3. \A b \in L : {c \in L \ {h} : ord[b] < ord[c]} = {c \in L : ord[b] < ord[c]}
    <2>1. \A b \in L : ~ (ord[b] < ord[h])
      BY <1>1
    <2> QED
      BY <2>1
  <1> QED
    BY <1>1, <1>2, <1>3 DEF IsList

\* A block is taken out behind another.
LEMMA Unlinked ==
  ASSUME NEW L, NEW h, NEW links, NEW ord, IsList(L, h, links, ord),
         NEW p \in L, NEW x \in L, links[p] = x,
         NEW other, other[p] = links[x], \A b \in L \ {p, x} : other[b] = links[b]
  PROVE  x # p /\ IsList(L \ {x}, h, other, ord)
PROOF
  <1>1. L \subseteq Nat \ {0} /\ ord \in [Nat -> Int]
    BY DEF IsList
  <1>2. ord[p] < ord[x] /\ \A c \in L : ord[p] < ord[c] => ord[x] <= ord[c]
    BY <1>1 DEF IsList, First
  <1>3. x # p
    BY <1>1, <1>2
  <1>4. First(h, L \ {x}, ord)
    <2>1. h \in L /\ \A c \in L : ord[h] <= ord[c]
      BY DEF IsList, First
    <2>2. h # x
      BY <1>1, <1>2, <2>1
    <2> QED
      BY <2>1, <2>2 DEF First
  <1>5. ASSUME NEW b \in L \ {x}
        PROVE  First(other[b], {c \in L \ {x} : ord[b] < ord[c]}, ord)
    <2>1. CASE b = p
      <3>1. {c \in L \ {x} : ord[b] < ord[c]} = {c \in L : ord[x] < ord[c]}
        <4>1. \A c \in L \ {x} : ord[p] < ord[c] <=> ord[x] < ord[c]
          <5>1. \A c \in L \ {x} : ord[c] # ord[x]
            BY DEF IsList
          <5> QED
            BY <1>1, <1>2, <5>1
        <4>2. ~ (ord[x] < ord[x])
          BY <1>1
        <4> QED
          BY <2>1, <4>1, <4>2
      <3> QED
        BY <2>1, <3>1 DEF IsList
    <2>2. CASE b # p
      <3>1. links[b] # x
        <4>1. ASSUME links[b] = x PROVE FALSE
          <5>1. ord[b] < ord[x] /\ \A c \in L : ord[b] < ord[c] => ord[x] <= ord[c]
            BY <1>1, <4>1 DEF IsList, First
          <5>2. ord[b] # ord[p] /\ ord[b] \in Int /\ ord[p] \in Int /\ ord[x] \in Int
            BY <1>1, <2>2 DEF IsList
          <5> QED
            BY <1>2, <5>1, <5>2
        <4> QED
          BY <4>1
      <3>2. other[b] = links[b]
        BY <2>2
      <3>3. First(links[b], {c \in L : ord[b] < ord[c]}, ord)
        BY DEF IsList
      <3>4. CASE ord[b] < ord[x]
        BY <3>1, <3>2, <3>3, <3>4 DEF First
      <3>5. CASE ~ (ord[b] < ord[x])
        <4>1. {c \in L \ {x} : ord[b] < ord[c]} = {c \in L : ord[b] < ord[c]}
          BY <3>5
        <4> QED
          BY <3>2, <3>3, <4>1
      <3> QED
        BY <3>4, <3>5
    <2> QED
      BY <2>1, <2>2
  <1> QED
    BY <1>1, <1>3, <1>4, <1>5 DEF IsList

\* The list a sweep builds runs from the highest block to the lowest.
LEMMA Descending ==
  ASSUME NEW L \in SUBSET (Nat \ {0}), NEW n \in Nat, \A b \in L : b <= n, NEW links,
         \A b \in L : links[b] = Highest({c \in L : c < b})
  PROVE  IsList(L, Highest(L), links, [a \in Nat |-> 0 - a])
PROOF
  <1> DEFINE ord == [a \in Nat |-> 0 - a]
  <1>1. ord \in [Nat -> Int] /\ \A b, c \in L : ord[b] = 0 - b /\ (ord[b] < ord[c] <=> c < b)
    OBVIOUS
  <1>2. \A b, c \in L : (ord[b] = ord[c] => b = c) /\ (ord[b] <= ord[c] <=> c <= b)
    OBVIOUS
  <1>3. ASSUME NEW S \in SUBSET L
        PROVE  First(Highest(S), S, ord)
    <2>1. CASE S = {}
      BY <2>1 DEF First, Highest
    <2>2. CASE S # {}
      <3>1. S \in SUBSET Nat /\ \A x \in S : x <= n
        OBVIOUS
      <3>2. Highest(S) \in S /\ \A x \in S : x <= Highest(S)
        BY <2>2, <3>1, HighestIs
      <3> QED
        BY <1>2, <3>2 DEF First
    <2> QED
      BY <2>1, <2>2
  <1>4. \A b \in L : {c \in L : ord[b] < ord[c]} = {c \in L : c < b}
    BY <1>1
  <1> HIDE DEF ord
  <1>5. \A b \in L : First(links[b], {c \in L : ord[b] < ord[c]}, ord)
    BY <1>3, <1>4
  <1> QED
    BY <1>1, <1>2, <1>3, <1>5 DEF IsList, ord

-----------------------------------------------------------------------------
(* FreeList: ranges                                                        *)
\* What the ranges of a set of blocks are.
LEMMA RangesAre ==
  ASSUME NEW f, NEW S
  PROVE  \A r : r \in AsRanges(f, S) <=> \E b \in S : r = Heap!Ranged(b, f[b])
  BY DEF AsRanges, Heap!Ranged

LEMMA RangedFields ==
  \A a, n : Heap!Ranged(a, n).at = a /\ Heap!Ranged(a, n).size = n /\ Heap!End(Heap!Ranged(a, n)) = a + n
  BY DEF Heap!Ranged, Heap!End

LEMMA RangesSame ==
  ASSUME NEW f, NEW g, NEW S, \A b \in S : f[b] = g[b]
  PROVE  AsRanges(f, S) = AsRanges(g, S)
  BY DEF AsRanges

LEMMA RangesAdd ==
  ASSUME NEW f, NEW S, NEW x
  PROVE  AsRanges(f, S \cup {x}) = AsRanges(f, S) \cup {Heap!Ranged(x, f[x])}
  BY DEF AsRanges, Heap!Ranged

LEMMA RangesRemove ==
  ASSUME NEW f, NEW S, NEW x \in S
  PROVE  AsRanges(f, S \ {x}) = AsRanges(f, S) \ {Heap!Ranged(x, f[x])}
PROOF
  <1>1. \A b \in S \ {x} : Heap!Ranged(b, f[b]) # Heap!Ranged(x, f[x])
    BY RangedFields
  <1>2. \A r : r \in AsRanges(f, S \ {x}) <=> r \in AsRanges(f, S) \ {Heap!Ranged(x, f[x])}
    BY <1>1, RangesAre
  <1> QED
    BY <1>2

LEMMA RangesMember ==
  ASSUME NEW f, NEW S, NEW x \in S
  PROVE  Heap!Ranged(x, f[x]) \in AsRanges(f, S)
  BY RangesAre

\* One block of the program's becomes two.
LEMMA RangesSplit ==
  ASSUME NEW f, NEW g, NEW S, NEW a \in S, NEW x, x \notin S, \A b \in S : b # a => g[b] = f[b]
  PROVE  AsRanges(g, S \cup {x}) =
           AsRanges(f, S \ {a}) \cup {Heap!Ranged(a, g[a]), Heap!Ranged(x, g[x])}
PROOF
  <1>1. S \cup {x} = ((S \ {a}) \cup {a}) \cup {x}
    OBVIOUS
  <1>2. AsRanges(g, S \cup {x}) = (AsRanges(g, S \ {a}) \cup {Heap!Ranged(a, g[a])}) \cup {Heap!Ranged(x, g[x])}
    <2>1. AsRanges(g, (S \ {a}) \cup {a}) = AsRanges(g, S \ {a}) \cup {Heap!Ranged(a, g[a])}
      BY RangesAdd
    <2>2. AsRanges(g, ((S \ {a}) \cup {a}) \cup {x}) =
            AsRanges(g, (S \ {a}) \cup {a}) \cup {Heap!Ranged(x, g[x])}
      BY RangesAdd
    <2> QED
      BY <1>1, <2>1, <2>2
  <1>3. AsRanges(g, S \ {a}) = AsRanges(f, S \ {a})
    BY RangesSame
  <1> QED
    BY <1>2, <1>3
-----------------------------------------------------------------------------
(* FreeList: batches                                                       *)
BatchType == [cursor : Nat, end : Nat]

\* The tail of a batch is a block marked free, and of one batch only.
Private(f, bits, bt) ==
  \A t \in Threads : bt[t].cursor < bt[t].end =>
    /\ bt[t].cursor \in bits /\ bt[t].cursor + f[bt[t].cursor] = bt[t].end
    /\ \A u \in Threads : u # t /\ bt[u].cursor < bt[u].end => bt[u].cursor # bt[t].cursor

\* The tails of these batches.
TailsOf(bt) == {bt[t].cursor : t \in {u \in Threads : bt[u].cursor < bt[u].end}}

\* The tails are told by cursor and end.
LEMMA TailsAre ==
  ASSUME batch \in [Threads -> BatchType]
  PROVE  Tails = TailsOf(batch)
PROOF
  <1>1. \A t \in Threads : 0 < Room(t) <=> batch[t].cursor < batch[t].end
    BY DEF Room, BatchType
  <1> QED
    BY <1>1 DEF Tails, TailsOf

\* What HandOut does: the block at leaves, in one piece or two, and the list stays.
HandingOut(f, e, bits, at) ==
  /\ Tiles(f, e) /\ bits \in SUBSET DOMAIN f /\ at \in DOMAIN f \ bits
  /\ batch \in [Threads -> BatchType] /\ Private(f, bits, batch)
  /\ call.by \in Threads \cup {Nobody}
  /\ call.by # Nobody => call.object \in Objects /\ BatchSize <= f[at] /\ batch[call.by].cursor = 0
  /\ HandOut(at, f, bits)

HandedOut(f, e, bits, at) ==
  /\ Tiles(size', e) /\ DOMAIN f \subseteq DOMAIN size' /\ free' \subseteq DOMAIN size'
  /\ batch' \in [Threads -> BatchType] /\ Private(size', free', batch')
  /\ free' \ TailsOf(batch') = bits \ TailsOf(batch)
  /\ \A c \in DOMAIN f : c # at => size'[c] = f[c]
  /\ \E pieces \in Heap!Pieces(at, f[at]) :
       \A S \in SUBSET (DOMAIN f \ {at}) :
         AsRanges(size', DOMAIN size' \ S) = AsRanges(f, (DOMAIN f \ S) \ {at}) \cup pieces

LEMMA HandsOut ==
  ASSUME NEW f, NEW e, NEW bits, NEW at, HandingOut(f, e, bits, at)
  PROVE  HandedOut(f, e, bits, at)
PROOF
  <1> USE DEF HandingOut, HandedOut
  <1> DEFINE o == call.object
             x == at + o
  <1>1. CASE ~ (call.by # Nobody /\ f[at] - o >= MinSplit)
    <2>1. size' = f /\ free' = bits
      BY <1>1 DEF HandOut
    <2>2. /\ batch' \in [Threads -> BatchType]
          /\ \A t \in Threads : \/ batch'[t] = batch[t]
                                \/ ~ (batch'[t].cursor < batch'[t].end) /\ ~ (batch[t].cursor < batch[t].end)
      <3>1. CASE call.by = Nobody
        BY <3>1 DEF HandOut
      <3>2. CASE call.by # Nobody
        <4>1. batch' = [batch EXCEPT ![call.by] = [cursor |-> at + f[at], end |-> at + f[at]]]
          BY <1>1, <3>2 DEF HandOut
        <4>2. at + f[at] \in Nat
          BY DEF Tiles
        <4>3. ~ (batch[call.by].cursor < batch[call.by].end)
          <5>1. 0 \notin bits
            BY DEF Tiles
          <5> QED
            BY <3>2, <5>1 DEF Private
        <4>4. ~ (batch'[call.by].cursor < batch'[call.by].end)
          BY <3>2, <4>1, <4>2
        <4> QED
          BY <3>2, <4>1, <4>2, <4>3, <4>4 DEF BatchType
      <3> QED
        BY <3>1, <3>2
    <2>3. \A t \in Threads : /\ batch'[t].cursor < batch'[t].end <=> batch[t].cursor < batch[t].end
                             /\ batch[t].cursor < batch[t].end => batch'[t] = batch[t]
      BY <2>2
    <2>4. TailsOf(batch') = TailsOf(batch)
      BY <2>3 DEF TailsOf
    <2>5. Private(size', free', batch')
      BY <2>1, <2>3 DEF Private
    <2>6. ASSUME NEW S \in SUBSET (DOMAIN f \ {at})
          PROVE  AsRanges(size', DOMAIN size' \ S) =
                   AsRanges(f, (DOMAIN f \ S) \ {at}) \cup {Heap!Ranged(at, f[at])}
      <3>1. DOMAIN f \ S = ((DOMAIN f \ S) \ {at}) \cup {at}
        OBVIOUS
      <3> QED
        BY <2>1, <3>1, RangesAdd
    <2>7. {Heap!Ranged(at, f[at])} \in Heap!Pieces(at, f[at])
      BY DEF Heap!Pieces
    <2> QED
      BY <2>1, <2>2, <2>4, <2>5, <2>6, <2>7
  <1>2. CASE call.by # Nobody /\ f[at] - o >= MinSplit
    <2> DEFINE by == call.by
               new == [cursor |-> x, end |-> at + f[at]]
    <2>1. /\ size' = Split(f, at, o)
          /\ free' = bits \cup {x}
          /\ batch' = [batch EXCEPT ![by] = new]
      BY <1>2 DEF HandOut
    <2>2. o \in Nat \ {0} /\ f[at] \in Nat /\ o < f[at] /\ by \in Threads /\ at \in Nat
      BY <1>2, HeapAssumption DEF Tiles, Requests, Sizes
    <2>3. /\ x \notin DOMAIN f
          /\ DOMAIN size' = DOMAIN f \cup {x}
          /\ size'[at] = o /\ size'[x] = f[at] - o
          /\ \A c \in DOMAIN f : c # at => size'[c] = f[c]
          /\ Tiles(size', e)
      <3>1. size' = Split(f, at, o)
        BY <2>1
      <3> HIDE DEF o
      <3>2. /\ at + o \notin DOMAIN f
            /\ DOMAIN Split(f, at, o) = DOMAIN f \cup {at + o}
            /\ Split(f, at, o)[at] = o /\ Split(f, at, o)[at + o] = f[at] - o
            /\ \A c \in DOMAIN f : c # at => Split(f, at, o)[c] = f[c]
            /\ Tiles(Split(f, at, o), e)
        BY <2>2, SplitTiles
      <3> QED
        BY <3>1, <3>2
    <2>4. batch' \in [Threads -> BatchType] /\ batch'[by] = new /\ \A t \in Threads : t # by => batch'[t] = batch[t]
      BY <2>1, <2>2 DEF BatchType
    <2>5. new.cursor = x /\ new.end = at + f[at] /\ x < at + f[at] /\ x + size'[x] = at + f[at]
      BY <2>2, <2>3
    <2>6. ~ (batch[by].cursor < batch[by].end)
      <3>1. 0 \notin bits
        BY DEF Tiles
      <3> QED
        BY <1>2, <2>2, <3>1 DEF Private
    <2> HIDE DEF new, x, by, o
    <2>7. TailsOf(batch') = TailsOf(batch) \cup {x}
      BY <2>2, <2>4, <2>5, <2>6 DEF TailsOf
    <2>8. Private(size', free', batch')
      <3> SUFFICES ASSUME NEW t \in Threads, batch'[t].cursor < batch'[t].end
                   PROVE  /\ batch'[t].cursor \in free' /\ batch'[t].cursor + size'[batch'[t].cursor] = batch'[t].end
                          /\ \A u \in Threads : u # t /\ batch'[u].cursor < batch'[u].end => batch'[u].cursor # batch'[t].cursor
        BY DEF Private
      <3>1. CASE t = by
        BY <2>1, <2>3, <2>4, <2>5, <3>1 DEF Private
      <3>2. CASE t # by
        <4>1. batch'[t] = batch[t] /\ batch[t].cursor \in bits /\ batch[t].cursor + size'[batch[t].cursor] = batch[t].end
          BY <2>3, <2>4, <3>2 DEF Private
        <4> QED
          BY <2>1, <2>3, <2>4, <2>5, <3>2, <4>1 DEF Private
      <3> QED
        BY <3>1, <3>2
    <2>9. free' \ TailsOf(batch') = bits \ TailsOf(batch)
      BY <2>1, <2>3, <2>7
    <2> DEFINE pieces == {Heap!Ranged(at, o), Heap!Ranged(x, f[at] - o)}
    <2>10. pieces \in Heap!Pieces(at, f[at])
      BY <2>2 DEF Heap!Pieces, x
    <2>11. ASSUME NEW S \in SUBSET (DOMAIN f \ {at})
           PROVE  AsRanges(size', DOMAIN size' \ S) = AsRanges(f, (DOMAIN f \ S) \ {at}) \cup pieces
      <3> DEFINE T == DOMAIN f \ S
      <3>1. DOMAIN size' \ S = (DOMAIN f \ S) \cup {x}
        BY <2>3
      <3>2. \A b \in T : b # at => size'[b] = f[b]
        BY <2>3
      <3> QED
        <4>1. at \in T /\ x \notin T
          BY <2>3
        <4>2. AsRanges(size', T \cup {x}) =
                AsRanges(f, T \ {at}) \cup {Heap!Ranged(at, size'[at]), Heap!Ranged(x, size'[x])}
          <5> HIDE DEF T
          <5> QED
            BY <4>1, <3>2, RangesSplit
        <4> QED
          BY <2>3, <3>1, <4>2
    <2> QED
      BY <2>1, <2>3, <2>4, <2>8, <2>9, <2>10, <2>11
  <1> QED
    BY <1>1, <1>2

-----------------------------------------------------------------------------
(* FreeList: the invariant                                                 *)
SearchCall ==
  [at : {"search"}, by : Threads \cup {Nobody}, need : Requests, object : Requests,
   tried : BOOLEAN, block : Nat, prev : Nat]

CallType ==
  /\ call.at \in {"idle", "search", "exit"}
  /\ call.at = "search" =>
       /\ call \in SearchCall
       /\ call.by # Nobody =>
            call.object \in Objects /\ call.need = BatchSize /\ batch[call.by].cursor = 0

HeapTypes ==
  /\ Tiles(size, top) /\ top <= ReserveEnd
  /\ free \in SUBSET DOMAIN size
  /\ next \in [Addresses -> Nat]
  /\ head \in Nat /\ missSize \in Nat /\ searchSize \in Nat /\ searchPrev \in Nat
  /\ batch \in [Threads -> BatchType]
  /\ CallType

\* The free blocks but for the tails of batches: the list.
Listed == free \ TailsOf(batch)

\* The search has passed over blocks that are too small only, and knows the predecessor of
\* the one it has come to.
Reached(ord) ==
  \/ call.block = 0 /\ \A c \in Listed : size[c] < call.need
  \/ /\ call.block \in Listed
     /\ \A c \in Listed : ord[c] < ord[call.block] => size[c] < call.need
     /\ \/ call.prev = 0 /\ call.block = head
        \/ call.prev \in Listed /\ next[call.prev] = call.block

\* Behind the head the remembered predecessor is preceded by blocks too small for that size.
Cached(ord) ==
  searchSize # 0 =>
    /\ searchPrev \in Listed
    /\ \A c \in Listed : c # head /\ ord[c] <= ord[searchPrev] => size[c] < searchSize

ListOK(ord) ==
  /\ IsList(Listed, head, next, ord)
  /\ Cached(ord)
  /\ call.at = "search" => Reached(ord)

\* No free block is as large as the smallest size known to be missing.
MissOK == missSize # 0 => \A c \in Listed : size[c] < missSize

\* The inductive invariant.
HeapInv == HeapTypes /\ Private(size, free, batch) /\ MissOK /\ \E ord : ListOK(ord)

\* The ranges of the program and of the list, and a step of theirs.
Held == AsRanges(size, (DOMAIN size \ free) \cup Tails)
Spare == AsRanges(size, free \ Tails)
Moves == Heap!RangeNext \/ UNCHANGED <<Held, Spare, top>>

\* What HeapAssumption says of each size.
LEMMA SizesArePositive ==
  /\ Requests \subseteq Nat \ {0} /\ Objects \subseteq Requests /\ Sizes \subseteq Requests
  /\ BatchSize \in Requests /\ MinSplit \in Nat \ {0} /\ ReserveEnd \in Nat \ {0}
  BY HeapAssumption DEF Requests, Sizes

\* Every tail has the FREE bit, so what is not in the list is the program's or a tail.
LEMMA TailsAreFree ==
  ASSUME NEW f, NEW bits \in SUBSET DOMAIN f, NEW bt, Private(f, bits, bt)
  PROVE  /\ TailsOf(bt) \subseteq bits
         /\ (DOMAIN f \ bits) \cup TailsOf(bt) = DOMAIN f \ (bits \ TailsOf(bt))
PROOF
  <1>1. TailsOf(bt) \subseteq bits
    BY DEF TailsOf, Private
  <1> QED
    BY <1>1

\* The program holds what is not in the list.
LEMMA HeldIs ==
  ASSUME HeapTypes, Private(size, free, batch)
  PROVE  Held = AsRanges(size, DOMAIN size \ Listed) /\ Spare = AsRanges(size, Listed)
PROOF
  <1>1. free \in SUBSET DOMAIN size /\ batch \in [Threads -> BatchType]
    BY DEF HeapTypes
  <1>2. Tails = TailsOf(batch)
    BY <1>1, TailsAre
  <1>3. (DOMAIN size \ free) \cup TailsOf(batch) = DOMAIN size \ (free \ TailsOf(batch))
    BY <1>1, TailsAreFree
  <1> QED
    BY <1>2, <1>3 DEF Held, Spare, Listed

\* The same after a step.
LEMMA HeldIsNext ==
  ASSUME HeapTypes', Private(size', free', batch')
  PROVE  Held' = AsRanges(size', DOMAIN size' \ Listed') /\ Spare' = AsRanges(size', Listed')
PROOF
  <1>1. free' \in SUBSET DOMAIN size' /\ batch' \in [Threads -> BatchType]
    BY DEF HeapTypes
  <1>2. Tails' = TailsOf(batch')
    <2>1. \A t \in Threads : 0 < Room(t)' <=> batch'[t].cursor < batch'[t].end
      BY <1>1 DEF Room, BatchType
    <2> QED
      BY <2>1 DEF Tails, TailsOf
  <1>3. (DOMAIN size' \ free') \cup TailsOf(batch') = DOMAIN size' \ (free' \ TailsOf(batch'))
    BY <1>1, TailsAreFree
  <1>4. Listed' = free' \ TailsOf(batch')
    BY DEF Listed, TailsOf
  <1> QED
    BY <1>2, <1>3, <1>4 DEF Held, Spare

\* Blocks are where they can be.
LEMMA BlocksAre ==
  ASSUME HeapTypes
  PROVE  /\ DOMAIN size \subseteq Addresses /\ Addresses \subseteq Nat \ {0}
         /\ \A b \in DOMAIN size : size[b] \in Nat \ {0} /\ b + size[b] <= top
         /\ top \in Nat \ {0}
         /\ Listed \subseteq DOMAIN size /\ 0 \notin Listed
  BY SizesArePositive DEF HeapTypes, Tiles, Addresses, Listed

\* What does not touch the list leaves it as it was.
LEMMA ListFrame ==
  ASSUME MissOK, \E ord : ListOK(ord), Listed' = Listed, \A c \in Listed : size'[c] = size[c],
         UNCHANGED <<next, head, missSize, searchSize, searchPrev, call>>
  PROVE  MissOK' /\ \E ord : ListOK(ord)'
PROOF
  <1>1. PICK ord : ListOK(ord)
    OBVIOUS
  <1>2. IsList(Listed, head, next, ord)' /\ Cached(ord)' /\ (call.at = "search" => Reached(ord))'
    BY <1>1 DEF ListOK, Cached, Reached, IsList, First
  <1>3. ListOK(ord)'
    BY <1>2 DEF ListOK
  <1> QED
    BY <1>3 DEF MissOK

\* Ranges depend on headers, FREE bits, batches and the end of the heap alone.
LEMMA StutterMoves ==
  ASSUME UNCHANGED <<size, free, batch, top>>
  PROVE  Moves
  BY DEF Moves, Held, Spare, Tails, Room, AsRanges

\* What changes nothing but the call.
LEMMA CallFrame ==
  ASSUME HeapInv, UNCHANGED <<threaded, top, size, free, next, head, missSize, searchSize, searchPrev, batch>>,
         CallType', NEW ord, ListOK(ord), call'.at = "search" => Reached(ord)'
  PROVE  HeapInv' /\ Moves
PROOF
  <1>1. Listed' = Listed
    BY DEF Listed, TailsOf
  <1>2. ListOK(ord)'
    BY <1>1 DEF ListOK, Cached, IsList, First
  <1>3. HeapTypes' /\ Private(size', free', batch') /\ MissOK'
    BY <1>1 DEF HeapInv, HeapTypes, MissOK
  <1> QED
    BY <1>2, <1>3, StutterMoves DEF HeapInv

\* Where a search begins.
LEMMA Probes ==
  ASSUME HeapInv, NEW ord, ListOK(ord), NEW n \in Requests
  PROVE  /\ FirstProbe(n) \in Nat
         /\ \/ FirstProbe(n) = 0 /\ \A c \in Listed : size[c] < n
            \/ /\ FirstProbe(n) = head /\ head \in Listed
               /\ \A c \in Listed : ~ (ord[c] < ord[head])
PROOF
  <1>1. n \in Nat /\ head \in Nat /\ missSize \in Nat
    BY SizesArePositive DEF HeapInv, HeapTypes
  <1>2. \A c \in Listed : size[c] \in Nat
    BY BlocksAre DEF HeapInv
  <1>3. CASE missSize # 0 /\ n >= missSize
    BY <1>1, <1>2, <1>3 DEF FirstProbe, HeapInv, MissOK
  <1>4. CASE ~ (missSize # 0 /\ n >= missSize)
    <2>1. FirstProbe(n) = head
      BY <1>4 DEF FirstProbe
    <2>2. First(head, Listed, ord) /\ ord \in [Nat -> Int] /\ Listed \subseteq Nat
      BY DEF ListOK, IsList
    <2>3. CASE head = 0 /\ Listed = {}
      BY <2>1, <2>3
    <2>4. CASE head \in Listed /\ \A c \in Listed : ord[head] <= ord[c]
      BY <1>1, <2>1, <2>2, <2>4
    <2> QED
      BY <2>2, <2>3, <2>4 DEF First
  <1> QED
    BY <1>3, <1>4

\* A search begins at the head, or nowhere for a size known to be missing.
LEMMA AllocDirectStep ==
  ASSUME HeapInv, NEW n \in Sizes, AllocDirect(n)
  PROVE  HeapInv' /\ Moves
PROOF
  <1>1. PICK ord : ListOK(ord)
    BY DEF HeapInv
  <1>2. n \in Requests
    BY SizesArePositive
  <1>3. call' = Searching(Nobody, n, n, FALSE, FirstProbe(n))
    BY DEF AllocDirect
  <1>4. CallType'
    BY <1>1, <1>2, <1>3, Probes DEF CallType, Searching, SearchCall
  <1>5. Listed' = Listed /\ UNCHANGED <<size, next, head>>
    BY DEF AllocDirect, Listed, TailsOf
  <1>6. Reached(ord)'
    BY <1>1, <1>2, <1>3, <1>5, Probes DEF Reached, Searching
  <1> QED
    BY <1>1, <1>4, <1>6, CallFrame DEF AllocDirect

\* So does that for a batch.
LEMMA RefillBatchStep ==
  ASSUME HeapInv, NEW t \in Threads, NEW n \in Objects, RefillBatch(t, n)
  PROVE  HeapInv' /\ Moves
PROOF
  <1>1. PICK ord : ListOK(ord)
    BY DEF HeapInv
  <1>2. n \in Requests /\ BatchSize \in Requests
    BY SizesArePositive
  <1>3. call' = Searching(t, BatchSize, n, FALSE, FirstProbe(BatchSize)) /\ batch[t].cursor = 0 /\ batch' = batch
    BY DEF RefillBatch
  <1>4. CallType'
    BY <1>1, <1>2, <1>3, Probes DEF CallType, Searching, SearchCall
  <1>5. Listed' = Listed /\ UNCHANGED <<size, next, head>>
    BY DEF RefillBatch, Listed, TailsOf
  <1>6. Reached(ord)'
    BY <1>1, <1>2, <1>3, <1>5, Probes DEF Reached, Searching
  <1> QED
    BY <1>1, <1>4, <1>6, CallFrame DEF RefillBatch

\* The search passes over blocks too small for it, also when it jumps behind the head to the
\* remembered predecessor.
LEMMA AdvanceStep ==
  ASSUME HeapInv, Advance
  PROVE  HeapInv' /\ Moves
PROOF
  <1>1. PICK ord : ListOK(ord)
    BY DEF HeapInv
  <1> DEFINE need == call.need
             prev == IF call.prev = 0 /\ searchSize = need THEN searchPrev ELSE call.block
  <1>2. /\ call \in SearchCall /\ need \in Nat \ {0} /\ Reached(ord)
        /\ call.block # 0 /\ call.block \in Listed /\ size[call.block] < need
    BY <1>1, SizesArePositive DEF Advance, HeapInv, HeapTypes, CallType, SearchCall, ListOK, Reached
  <1>3. /\ Listed \subseteq Nat \ {0} /\ ord \in [Nat -> Int]
        /\ \A b, c \in Listed : ord[b] = ord[c] => b = c
        /\ \A b \in Listed : First(next[b], {c \in Listed : ord[b] < ord[c]}, ord)
    BY <1>1 DEF ListOK, IsList
  <1>13. \A c \in Listed : ord[c] \in Int
    BY <1>3
  <1>4. prev \in Listed /\ \A c \in Listed : ord[c] <= ord[prev] => size[c] < need
    <2>1. CASE call.prev = 0 /\ searchSize = need
      <3>1. call.block = head /\ prev = searchPrev
        BY <1>2, <1>3, <2>1 DEF Reached
      <3>2. searchPrev \in Listed /\ \A c \in Listed : c # head /\ ord[c] <= ord[searchPrev] => size[c] < need
        BY <1>1, <1>2, <2>1 DEF ListOK, Cached
      <3> QED
        BY <1>2, <3>1, <3>2
    <2>2. CASE ~ (call.prev = 0 /\ searchSize = need)
      <3>1. prev = call.block
        BY <2>2
      <3>2. \A c \in Listed : ord[c] < ord[call.block] => size[c] < need
        BY <1>2 DEF Reached
      <3>3. \A c \in Listed : ord[c] <= ord[call.block] => ord[c] < ord[call.block] \/ c = call.block
        <4> SUFFICES ASSUME NEW c \in Listed, ord[c] <= ord[call.block]
                     PROVE  ord[c] < ord[call.block] \/ c = call.block
          OBVIOUS
        <4>1. ord[c] \in Int /\ ord[call.block] \in Int
          BY <1>2, <1>13
        <4>2. ord[c] < ord[call.block] \/ ord[c] = ord[call.block]
          BY <4>1
        <4> QED
          BY <1>2, <1>3, <4>2
      <3> QED
        BY <1>2, <3>1, <3>2, <3>3
    <2> QED
      BY <2>1, <2>2
  <1>5. call' = [call EXCEPT !.prev = prev, !.block = next[prev]]
    BY DEF Advance
  <1>6. prev \in Nat /\ prev # 0 /\ next[prev] \in Nat
    <2>1. prev \in Addresses
      BY <1>4, BlocksAre DEF HeapInv
    <2> QED
      BY <1>3, <1>4, <2>1 DEF HeapInv, HeapTypes
  <1> HIDE DEF prev, need
  <1>7. /\ call' \in SearchCall /\ call'.prev = prev /\ call'.block = next[prev]
        /\ call'.need = need /\ call'.by = call.by /\ call'.object = call.object /\ call'.at = "search"
    BY <1>2, <1>5, <1>6 DEF SearchCall, need
  <1>8. CallType'
    BY <1>7, <1>2 DEF CallType, HeapInv, HeapTypes, Advance, need
  <1>9. Listed' = Listed /\ UNCHANGED <<size, next, head>>
    BY DEF Advance, Listed, TailsOf
  <1>10. Reached(ord)'
    <2>1. First(next[prev], {c \in Listed : ord[prev] < ord[c]}, ord)
      BY <1>3, <1>4
    <2>2. \A c \in Listed : ~ (ord[prev] < ord[c]) => size[c] < need
      BY <1>3, <1>4
    <2>3. CASE next[prev] = 0 /\ {c \in Listed : ord[prev] < ord[c]} = {}
      BY <1>7, <1>9, <2>2, <2>3 DEF Reached
    <2>4. CASE /\ next[prev] \in Listed /\ ord[prev] < ord[next[prev]]
               /\ \A c \in Listed : ord[prev] < ord[c] => ord[next[prev]] <= ord[c]
      <3>1. \A c \in Listed : ord[c] < ord[next[prev]] => ~ (ord[prev] < ord[c])
        BY <1>13, <2>4
      <3> QED
        BY <1>4, <1>7, <1>9, <2>2, <2>4, <3>1 DEF Reached
    <2> QED
      BY <2>1, <2>3, <2>4 DEF First
  <1> QED
    BY <1>1, <1>8, <1>10, CallFrame DEF Advance

\* A block that is large enough leaves the list; what remains of it takes its place at the head.
LEMMA FoundStep ==
  ASSUME HeapInv, Found
  PROVE  HeapInv' /\ Moves
PROOF
  <1>1. PICK ord : ListOK(ord)
    BY DEF HeapInv
  <1> DEFINE block == call.block
             need == call.need
             rest == block + need
             first == IF call.prev = 0 THEN next[block] ELSE head
             unlinked == [IF call.prev = 0 THEN next ELSE [next EXCEPT ![call.prev] = next[block]]
                            EXCEPT ![block] = 0]
             cut == size[block] - need >= MinSplit
             f == IF cut THEN Split(size, block, need) ELSE size
             bits == IF cut THEN (free \ {block}) \cup {rest} ELSE free \ {block}
             L == Listed \ {block}
             M == IF cut THEN L \cup {rest} ELSE L
  <1>2. /\ call \in SearchCall /\ need \in Requests /\ need \in Nat \ {0} /\ call.at = "search"
        /\ call.by # Nobody => call.object \in Objects /\ need = BatchSize /\ batch[call.by].cursor = 0
        /\ Reached(ord) /\ block \in Listed /\ block \in DOMAIN size /\ block \in Nat \ {0}
        /\ size[block] \in Nat \ {0} /\ size[block] >= need /\ call.prev \in Nat
    <2>1. call \in SearchCall /\ call.at = "search" /\ block # 0 /\ size[block] >= need
      BY DEF Found, HeapInv, HeapTypes, CallType
    <2>2. need \in Requests /\ need \in Nat \ {0} /\ call.prev \in Nat
      BY <2>1, SizesArePositive DEF SearchCall
    <2>3. call.by # Nobody => call.object \in Objects /\ need = BatchSize /\ batch[call.by].cursor = 0
      BY <2>1 DEF HeapInv, HeapTypes, CallType
    <2>4. Reached(ord) /\ block \in Listed
      BY <1>1, <2>1 DEF ListOK, Reached
    <2> QED
      BY <2>1, <2>2, <2>3, <2>4, BlocksAre DEF HeapInv
  <1>3. /\ IsList(Listed, head, next, ord) /\ Listed \subseteq Nat \ {0} /\ ord \in [Nat -> Int]
        /\ \A c \in Listed : c \in DOMAIN size /\ ord[c] \in Int /\ size[c] \in Nat
    BY <1>1, BlocksAre DEF HeapInv, ListOK, IsList
  <1>4. /\ Tiles(f, top) /\ DOMAIN size \subseteq DOMAIN f
        /\ DOMAIN f = IF cut THEN DOMAIN size \cup {rest} ELSE DOMAIN size
        /\ cut => rest \notin DOMAIN size /\ f[block] = need /\ f[rest] = size[block] - need /\ need < size[block]
        /\ ~ cut => f[block] = size[block]
        /\ need <= f[block]
        /\ \A c \in DOMAIN size : c # block => f[c] = size[c]
    <2>1. Tiles(size, top)
      BY DEF HeapInv, HeapTypes
    <2>2. CASE cut
      <3>1. need < size[block]
        BY <1>2, <2>2, SizesArePositive
      <3>2. f = Split(size, block, need)
        BY <2>2
      <3> QED
        BY <1>2, <2>1, <2>2, <3>1, <3>2, SplitTiles
    <2>3. CASE ~ cut
      BY <1>2, <2>1, <2>3
    <2> QED
      BY <2>2, <2>3
  <1>5. free \in SUBSET DOMAIN size /\ batch \in [Threads -> BatchType] /\ Private(size, free, batch)
    BY DEF HeapInv, HeapTypes
  <1>6. bits \in SUBSET DOMAIN f /\ block \in DOMAIN f \ bits
    BY <1>2, <1>4, <1>5
  <1>7. block \notin TailsOf(batch) /\ TailsOf(batch) \subseteq free
    BY <1>2, <1>5, TailsAreFree DEF Listed
  <1>8. Private(f, bits, batch)
    <2>1. \A t \in Threads : batch[t].cursor < batch[t].end => batch[t].cursor # block /\ batch[t].cursor \in free
      BY <1>7 DEF TailsOf
    <2> QED
      BY <1>4, <1>5, <2>1 DEF Private
  <1>9. HandOut(block, f, bits)
    BY DEF Found
  <1>10. /\ head' = IF cut THEN rest ELSE first
         /\ next' = IF cut THEN [unlinked EXCEPT ![rest] = first] ELSE unlinked
         /\ searchSize' = (IF call.prev = 0 THEN 0 ELSE need)
         /\ call.prev # 0 => searchPrev' = call.prev
         /\ call.prev = 0 => searchPrev' = searchPrev
         /\ missSize' = missSize /\ top' = top
    BY DEF Found
  <1>11. call' = Idle
    BY <1>9 DEF HandOut
  <1>12. M \subseteq DOMAIN f /\ block \notin M /\ bits \ TailsOf(batch) = M
    BY <1>2, <1>3, <1>4, <1>5, <1>7 DEF Listed
  <1>13. /\ Tiles(size', top) /\ DOMAIN f \subseteq DOMAIN size' /\ free' \subseteq DOMAIN size'
         /\ batch' \in [Threads -> BatchType] /\ Private(size', free', batch')
         /\ free' \ TailsOf(batch') = bits \ TailsOf(batch)
         /\ \A c \in DOMAIN f : c # block => size'[c] = f[c]
         /\ \E pieces \in Heap!Pieces(block, f[block]) :
              \A S \in SUBSET (DOMAIN f \ {block}) :
                AsRanges(size', DOMAIN size' \ S) = AsRanges(f, (DOMAIN f \ S) \ {block}) \cup pieces
    <2>1. call.by \in Threads \cup {Nobody}
      BY <1>2 DEF SearchCall
    <2> HIDE DEF f, bits, block, need
    <2>2. HandingOut(f, top, bits, block)
      BY <1>2, <1>4, <1>5, <1>6, <1>8, <1>9, <2>1 DEF HandingOut
    <2>3. HandedOut(f, top, bits, block)
      BY <2>2, HandsOut
    <2> QED
      BY <2>3 DEF HandedOut
  <1>14. Listed' = M
    BY <1>12, <1>13 DEF Listed, TailsOf
  <1>15. /\ \A c \in L : size'[c] = size[c]
         /\ cut => size'[rest] = size[block] - need
    BY <1>2, <1>3, <1>4, <1>13
  <1>16. next \in [Addresses -> Nat] /\ DOMAIN size \subseteq Addresses /\ head \in Nat
    BY BlocksAre DEF HeapInv, HeapTypes
  <1>17. first \in Nat /\ unlinked \in [Addresses -> Nat]
    BY <1>2, <1>16
  <1>18. block \in Addresses /\ (call.prev # 0 => call.prev \in Listed /\ next[call.prev] = block /\ call.prev \in Addresses)
    BY <1>2, <1>3, <1>16 DEF Reached
  <1> HIDE DEF f, bits, block, need
  <1>19. IsList(L, first, unlinked, ord)
    <2>1. CASE call.prev = 0
      <3>1. block = head
        BY <1>2, <1>3, <2>1 DEF Reached, block
      <3>2. IsList(L, next[head], next, ord)
        BY <1>2, <1>3, <3>1, Popped
      <3>3. first = next[head] /\ \A b \in L : unlinked[b] = next[b]
        BY <1>3, <1>16, <1>18, <2>1, <3>1
      <3> HIDE DEF first, unlinked, L
      <3> QED
        BY <3>2, <3>3, SameList
    <2>2. CASE call.prev # 0
      <3>1. call.prev \in Listed /\ next[call.prev] = block
        BY <1>18, <2>2
      <3>2. call.prev # block
        BY <1>2, <1>3, <3>1, Unlinked
      <3>3. unlinked[call.prev] = next[block] /\ \A b \in Listed \ {call.prev, block} : unlinked[b] = next[b]
        BY <1>3, <1>16, <1>18, <2>2, <3>2
      <3>4. first = head
        BY <2>2
      <3> HIDE DEF unlinked, first
      <3>5. IsList(Listed \ {block}, head, unlinked, ord)
        BY <1>2, <1>3, <3>1, <3>3, Unlinked
      <3> QED
        BY <3>4, <3>5
    <2> QED
      BY <2>1, <2>2
  <1>20. call.prev # 0 => /\ call.prev \in L
                          /\ \A c \in L : ord[c] <= ord[call.prev] => size[c] < need
    <2> SUFFICES ASSUME call.prev # 0
                 PROVE  /\ call.prev \in L
                        /\ \A c \in L : ord[c] <= ord[call.prev] => size[c] < need
      OBVIOUS
    <2>1. call.prev \in Listed /\ next[call.prev] = block
      BY <1>18
    <2>2. First(block, {c \in Listed : ord[call.prev] < ord[c]}, ord)
      BY <1>3, <2>1 DEF IsList
    <2>3. ord[call.prev] < ord[block]
      BY <1>2, <2>2 DEF First
    <2>4. \A c \in Listed : ord[c] < ord[block] => size[c] < need
      BY <1>2 DEF Reached, block, need
    <2>5. \A c \in Listed : ord[c] <= ord[call.prev] => ord[c] < ord[block]
      BY <1>2, <1>3, <2>1, <2>3
    <2> QED
      BY <1>2, <1>3, <2>1, <2>3, <2>4, <2>5
  <1> HIDE DEF unlinked, first
  <1>21. \E o : ListOK(o)'
    <2>1. CASE cut
      <3> DEFINE o == [ord EXCEPT ![rest] = IF first = 0 THEN 0 ELSE ord[first] - 1]
      <3>1. rest \in Nat \ {0} /\ rest \notin L /\ rest \in Addresses
        <4>1. rest \in DOMAIN size'
          BY <1>4, <1>13, <2>1
        <4>2. top \in Nat /\ top <= ReserveEnd /\ ReserveEnd \in Nat
          BY BlocksAre, SizesArePositive DEF HeapInv, HeapTypes
        <4>3. rest \in Nat \ {0} /\ rest + size'[rest] <= top /\ size'[rest] \in Nat \ {0}
          BY <1>13, <4>1 DEF Tiles
        <4> QED
          BY <1>3, <1>4, <2>1, <4>2, <4>3 DEF Addresses
      <3>2. next'[rest] = first /\ \A b \in L : next'[b] = unlinked[b]
        BY <1>10, <1>17, <2>1, <3>1
      <3> HIDE DEF L
      <3>3. IsList(L \cup {rest}, rest, next', o)
        BY <1>19, <3>1, <3>2, Pushed
      <3>4. M = L \cup {rest} /\ head' = rest
        BY <1>10, <2>1
      <3>5. \A c \in L : o[c] = ord[c]
        BY <1>3, <3>1 DEF L
      <3> HIDE DEF o, M, rest
      <3>9. PICK q : q = o
        OBVIOUS
      <3>6. IsList(Listed, head, next, q)'
        BY <1>14, <3>3, <3>4, <3>9 DEF IsList, First
      <3>7. Cached(q)'
        <4>1. searchSize' # 0 => call.prev # 0 /\ searchSize' = need /\ searchPrev' = call.prev
          BY <1>10
        <4>2. \A c \in M : c # head' => c \in L
          BY <3>4
        <4>3. call.prev # 0 => /\ call.prev \in M
                               /\ \A c \in M : c # head' /\ q[c] <= q[call.prev] => size'[c] < need
          BY <1>15, <1>20, <3>4, <3>5, <3>9, <4>2
        <4> HIDE DEF cut
        <4> QED
          BY <1>14, <4>1, <4>3 DEF Cached
      <3>8. ListOK(q)'
        BY <1>11, <3>6, <3>7 DEF ListOK, Idle
      <3> QED
        BY <3>8
    <2>2. CASE ~ cut
      <3>1. M = L /\ head' = first /\ next' = unlinked
        BY <1>10, <2>2
      <3> HIDE DEF M, L
      <3>6. IsList(Listed, head, next, ord)'
        BY <1>14, <1>19, <3>1 DEF IsList, First
      <3>7. Cached(ord)'
        BY <1>10, <1>14, <1>15, <1>20, <3>1 DEF Cached
      <3>8. ListOK(ord)'
        BY <1>11, <3>6, <3>7 DEF ListOK, Idle
      <3> QED
        BY <3>8
    <2> QED
      BY <2>1, <2>2
  <1>22. MissOK'
    <2>1. missSize \in Nat /\ (missSize # 0 => size[block] < missSize /\ \A c \in L : size[c] < missSize)
      BY <1>2 DEF HeapInv, HeapTypes, MissOK
    <2>2. cut /\ missSize # 0 => size'[rest] < missSize
      BY <1>2, <1>15, <2>1
    <2> QED
      BY <1>10, <1>14, <1>15, <2>1, <2>2 DEF MissOK
  <1>23. HeapTypes'
    <2>1. CallType'
      BY <1>11 DEF CallType, Idle
    <2>2. next' \in [Addresses -> Nat] /\ head' \in Nat
      <3>1. first \in Nat /\ block \in Nat /\ need \in Nat /\ rest \in Nat
        BY <1>17, <1>2
      <3>2. [unlinked EXCEPT ![rest] = first] \in [Addresses -> Nat]
        BY <1>17, <3>1
      <3> HIDE DEF rest, cut
      <3> QED
        BY <1>10, <1>17, <3>1, <3>2
    <2>3. searchSize' \in Nat /\ searchPrev' \in Nat
      BY <1>2, <1>10 DEF HeapInv, HeapTypes
    <2> QED
      BY <1>10, <1>13, <2>1, <2>2, <2>3 DEF HeapInv, HeapTypes
  <1>24. Moves
    <2>1. Held = AsRanges(size, DOMAIN size \ Listed) /\ Spare = AsRanges(size, Listed)
      BY HeldIs DEF HeapInv
    <2>2. Held' = AsRanges(size', DOMAIN size' \ M) /\ Spare' = AsRanges(size', M)
      BY <1>13, <1>14, <1>23, HeldIsNext
    <2>3. PICK pieces \in Heap!Pieces(block, f[block]) :
            AsRanges(size', DOMAIN size' \ M) = AsRanges(f, (DOMAIN f \ M) \ {block}) \cup pieces
      BY <1>12, <1>13
    <2>4. (DOMAIN f \ M) \ {block} = DOMAIN size \ Listed
      BY <1>2, <1>4
    <2>5. AsRanges(f, DOMAIN size \ Listed) = AsRanges(size, DOMAIN size \ Listed)
      BY <1>2, <1>4, RangesSame
    <2>6. Held' = Held \cup pieces
      BY <2>1, <2>2, <2>3, <2>4, <2>5
    <2> DEFINE r == Heap!Ranged(block, size[block])
    <2>7. r \in Spare /\ r.at = block /\ r.size = size[block]
      BY <1>2, <2>1, RangesMember, RangedFields
    <2>8. AsRanges(size', L) = Spare \ {r}
      BY <1>2, <1>15, <2>1, RangesSame, RangesRemove
    <2> HIDE DEF L
    <2>9. CASE cut
      <3>1. Spare' = (Spare \ {r}) \cup {Heap!Ranged(rest, size[block] - need)}
        <4>1. M = L \cup {rest} /\ size'[rest] = size[block] - need
          BY <1>15, <2>9
        <4>2. AsRanges(size', L \cup {rest}) = AsRanges(size', L) \cup {Heap!Ranged(rest, size'[rest])}
          BY RangesAdd
        <4> HIDE DEF M, rest, r
        <4> QED
          BY <2>2, <2>8, <4>1, <4>2
      <3>2. need < size[block] /\ f[block] = need
        BY <1>4, <2>9
      <3> HIDE DEF r
      <3>3. Heap!Take(need)
        BY <1>2, <1>10, <2>3, <2>6, <2>7, <3>1, <3>2 DEF Heap!Take, Held, Spare
      <3> QED
        BY <1>2, <3>3 DEF Moves, Heap!RangeNext
    <2>10. CASE ~ cut
      <3>1. Spare' = Spare \ {r} /\ f[block] = size[block]
        BY <1>4, <2>2, <2>8, <2>10
      <3> HIDE DEF r
      <3>3. Heap!Take(need)
        BY <1>2, <1>10, <2>3, <2>6, <2>7, <3>1 DEF Heap!Take, Held, Spare
      <3> QED
        BY <1>2, <3>3 DEF Moves, Heap!RangeNext
    <2> QED
      BY <2>9, <2>10
  <1> QED
    BY <1>13, <1>21, <1>22, <1>23, <1>24 DEF HeapInv

\* When no block of the list will do, the heap grows.
LEMMA BumpStep ==
  ASSUME HeapInv, Bump
  PROVE  HeapInv' /\ Moves
PROOF
  <1>1. PICK ord : ListOK(ord)
    BY DEF HeapInv
  <1>2. PICK f, at, need : f = Header(size, top, call.need) /\ at = top /\ need = call.need
    OBVIOUS
  <1>3. /\ call \in SearchCall /\ need \in Requests /\ need \in Nat \ {0} /\ call.at = "search"
        /\ call.by \in Threads \cup {Nobody}
        /\ call.by # Nobody => call.object \in Objects /\ need = BatchSize /\ batch[call.by].cursor = 0
        /\ \A c \in Listed : size[c] < need
    <2>1. call \in SearchCall /\ call.at = "search" /\ call.block = 0
      BY DEF Bump, HeapInv, HeapTypes, CallType
    <2>2. need \in Requests /\ need \in Nat \ {0} /\ call.by \in Threads \cup {Nobody}
      BY <1>2, <2>1, SizesArePositive DEF SearchCall
    <2>3. call.by # Nobody => call.object \in Objects /\ need = BatchSize /\ batch[call.by].cursor = 0
      BY <1>2, <2>1 DEF HeapInv, HeapTypes, CallType
    <2>4. \A c \in Listed : size[c] < need
      BY <1>1, <1>2, <2>1, BlocksAre DEF ListOK, Reached, HeapInv
    <2> QED
      BY <2>1, <2>2, <2>3, <2>4
  <1>4. /\ at \notin DOMAIN size
        /\ DOMAIN f = DOMAIN size \cup {at} /\ f[at] = need /\ \A c \in DOMAIN size : f[c] = size[c]
        /\ Tiles(f, at + need)
    BY <1>2, <1>3, GrowTiles DEF HeapInv, HeapTypes
  <1>5. free \in SUBSET DOMAIN size /\ batch \in [Threads -> BatchType] /\ Private(size, free, batch)
    BY DEF HeapInv, HeapTypes
  <1>6. free \in SUBSET DOMAIN f /\ at \in DOMAIN f \ free
    BY <1>4, <1>5
  <1>7. Private(f, free, batch)
    BY <1>4, <1>5 DEF Private
  <1>8. HandOut(at, f, free)
    BY <1>2 DEF Bump
  <1>9. /\ UNCHANGED <<next, head, searchSize, searchPrev>>
        /\ missSize' = RememberMiss(need) /\ top' = top + need /\ top + need <= ReserveEnd
    BY <1>2 DEF Bump
  <1>10. call' = Idle
    BY <1>8 DEF HandOut
  <1>11. /\ Tiles(size', at + need) /\ DOMAIN f \subseteq DOMAIN size' /\ free' \subseteq DOMAIN size'
         /\ batch' \in [Threads -> BatchType] /\ Private(size', free', batch')
         /\ free' \ TailsOf(batch') = free \ TailsOf(batch)
         /\ \A c \in DOMAIN f : c # at => size'[c] = f[c]
         /\ \E pieces \in Heap!Pieces(at, f[at]) :
              \A S \in SUBSET (DOMAIN f \ {at}) :
                AsRanges(size', DOMAIN size' \ S) = AsRanges(f, (DOMAIN f \ S) \ {at}) \cup pieces
    <2>1. HandingOut(f, at + need, free, at)
      BY <1>3, <1>4, <1>5, <1>6, <1>7, <1>8 DEF HandingOut
    <2>2. HandedOut(f, at + need, free, at)
      BY <2>1, HandsOut
    <2> QED
      BY <2>2 DEF HandedOut
  <1>12. Listed' = Listed
    BY <1>11 DEF Listed, TailsOf
  <1>13. \A c \in Listed : c \in DOMAIN size /\ size'[c] = size[c]
    BY <1>4, <1>5, <1>11 DEF Listed
  <1>14. ListOK(ord)'
    <2>1. IsList(Listed, head, next, ord)' /\ Cached(ord)'
      BY <1>1, <1>9, <1>12, <1>13 DEF ListOK, Cached, IsList, First
    <2> QED
      BY <1>10, <2>1 DEF ListOK, Idle
  <1>15. MissOK'
    <2>1. \A c \in Listed : size[c] < RememberMiss(need)
      BY <1>3 DEF RememberMiss, MissOK, HeapInv
    <2> QED
      BY <1>9, <1>12, <1>13, <2>1 DEF MissOK
  <1>16. HeapTypes'
    <2>1. CallType'
      BY <1>10 DEF CallType, Idle
    <2>2. missSize' \in Nat
      BY <1>3, <1>9 DEF RememberMiss, HeapInv, HeapTypes
    <2> QED
      BY <1>2, <1>9, <1>11, <2>1, <2>2 DEF HeapInv, HeapTypes
  <1>17. Moves
    <2>1. Held = AsRanges(size, DOMAIN size \ Listed) /\ Spare = AsRanges(size, Listed)
      BY HeldIs DEF HeapInv
    <2>2. Held' = AsRanges(size', DOMAIN size' \ Listed) /\ Spare' = AsRanges(size', Listed)
      BY <1>11, <1>12, <1>16, HeldIsNext
    <2>3. PICK pieces \in Heap!Pieces(at, f[at]) :
            AsRanges(size', DOMAIN size' \ Listed) = AsRanges(f, (DOMAIN f \ Listed) \ {at}) \cup pieces
      BY <1>4, <1>11, <1>13
    <2>4. (DOMAIN f \ Listed) \ {at} = DOMAIN size \ Listed
      BY <1>4
    <2>5. AsRanges(f, DOMAIN size \ Listed) = AsRanges(size, DOMAIN size \ Listed)
      BY <1>4, RangesSame
    <2>6. Held' = Held \cup pieces
      BY <2>1, <2>2, <2>3, <2>4, <2>5
    <2>7. Spare' = Spare
      BY <1>13, <2>1, <2>2, RangesSame
    <2>8. \A r \in Spare : r.size < need
      BY <1>3, <2>1, RangesAre, RangedFields
    <2>9. Heap!Extend(need)
      BY <1>2, <1>4, <1>9, <2>3, <2>6, <2>7, <2>8 DEF Heap!Extend, Held, Spare
    <2> QED
      BY <1>3, <2>9 DEF Moves, Heap!RangeNext
  <1> QED
    BY <1>11, <1>14, <1>15, <1>16, <1>17 DEF HeapInv

\* A program without threads takes a block from the end of the heap when there is no list.
LEMMA AllocSingleStep ==
  ASSUME HeapInv, NEW n \in Objects, AllocSingle(n)
  PROVE  HeapInv' /\ Moves
PROOF
  <1>1. PICK ord : ListOK(ord)
    BY DEF HeapInv
  <1>2. PICK f : f = Header(size, top, n)
    OBVIOUS
  <1>3. /\ size' = f /\ top' = top + n /\ top + n <= ReserveEnd /\ head = 0
        /\ UNCHANGED <<threaded, free, next, head, missSize, searchSize, searchPrev, batch, call>>
        /\ call.at = "idle"
    BY <1>2 DEF AllocSingle
  <1>4. n \in Requests /\ n \in Nat \ {0}
    BY SizesArePositive
  <1>5. Listed = {} /\ Listed' = {}
    BY <1>1, <1>3 DEF ListOK, IsList, First, Listed, TailsOf
  <1>6. /\ top \notin DOMAIN size
        /\ DOMAIN f = DOMAIN size \cup {top} /\ f[top] = n /\ \A c \in DOMAIN size : f[c] = size[c]
        /\ Tiles(f, top + n)
    BY <1>2, <1>4, GrowTiles DEF HeapInv, HeapTypes
  <1>7. Private(size', free', batch')
    BY <1>3, <1>6 DEF Private, HeapInv, HeapTypes
  <1>8. HeapTypes'
    BY <1>3, <1>6 DEF HeapInv, HeapTypes, CallType
  <1>9. MissOK' /\ \E o : ListOK(o)'
    <2>1. Listed' = Listed
      BY <1>5
    <2> QED
      BY <1>3, <1>5, <2>1, ListFrame DEF HeapInv
  <1>10. Moves
    <2>1. Held = AsRanges(size, DOMAIN size) /\ Spare = AsRanges(size, {})
      BY <1>5, HeldIs DEF HeapInv
    <2>2. Held' = AsRanges(f, DOMAIN f) /\ Spare' = AsRanges(f, {})
      BY <1>3, <1>5, <1>7, <1>8, HeldIsNext
    <2>3. Spare = {} /\ Spare' = {}
      BY <2>1, <2>2 DEF AsRanges
    <2>4. AsRanges(f, DOMAIN f) = AsRanges(f, DOMAIN size) \cup {Heap!Ranged(top, n)}
      BY <1>6, RangesAdd
    <2>5. AsRanges(f, DOMAIN size) = AsRanges(size, DOMAIN size)
      BY <1>6, RangesSame
    <2>6. Held' = Held \cup {Heap!Ranged(top, n)}
      BY <2>1, <2>2, <2>4, <2>5
    <2>7. {Heap!Ranged(top, n)} \in Heap!Pieces(top, n)
      BY DEF Heap!Pieces
    <2>8. Heap!Extend(n)
      BY <1>3, <2>3, <2>6, <2>7 DEF Heap!Extend, Held, Spare
    <2> QED
      BY <1>4, <2>8 DEF Moves, Heap!RangeNext
  <1> QED
    BY <1>7, <1>8, <1>9, <1>10 DEF HeapInv

\* A tail that returns is put before the list, in one piece with its head if that follows it.
LEMMA RetireTail ==
  ASSUME HeapInv, NEW t \in Threads, RetireBatch(t), batch[t].cursor < batch[t].end
  PROVE  HeapInv' /\ Moves
PROOF
  <1>1. PICK ord : ListOK(ord)
    BY DEF HeapInv
  <1>2. PICK at, end : at = batch[t].cursor /\ end = batch[t].end
    OBVIOUS
  <1>3. /\ batch' = [batch EXCEPT ![t] = NoBatch]
        /\ call.at = "idle" /\ missSize' = 0 /\ searchSize' = 0 /\ head' = at
        /\ UNCHANGED <<threaded, top, searchPrev, call>>
    BY <1>2 DEF RetireBatch, ForgetSearches
  <1>4. /\ free \in SUBSET DOMAIN size /\ batch \in [Threads -> BatchType] /\ Private(size, free, batch)
        /\ Tiles(size, top) /\ next \in [Addresses -> Nat]
    BY DEF HeapInv, HeapTypes
  <1>5. /\ at \in free /\ at + size[at] = end /\ at \in Nat \ {0} /\ size[at] \in Nat \ {0} /\ end \in Nat \ {0}
        /\ at \in Addresses /\ at \in DOMAIN size
    <2>1. at \in free /\ at + size[at] = end
      BY <1>2, <1>4 DEF Private
    <2>2. at \in DOMAIN size
      BY <1>4, <2>1
    <2> QED
      BY <2>1, <2>2, BlocksAre DEF HeapInv
  <1>6. Room(t) = size[at]
    BY <1>2, <1>4, <1>5 DEF Room, BatchType
  <1>7. /\ batch' \in [Threads -> BatchType] /\ batch'[t] = NoBatch
        /\ \A u \in Threads : u # t => batch'[u] = batch[u]
    BY <1>3, <1>4 DEF NoBatch, BatchType
  <1>8. TailsOf(batch') = TailsOf(batch) \ {at} /\ at \in TailsOf(batch)
    <2>1. \A u \in Threads : u # t /\ batch[u].cursor < batch[u].end => batch[u].cursor # at
      BY <1>2, <1>4 DEF Private
    <2>2. ~ (batch'[t].cursor < batch'[t].end)
      BY <1>7 DEF NoBatch
    <2>3. \A u \in {v \in Threads : batch'[v].cursor < batch'[v].end} :
             /\ u \in Threads /\ batch[u].cursor < batch[u].end
             /\ batch'[u].cursor = batch[u].cursor /\ batch[u].cursor # at
      BY <1>7, <2>1, <2>2
    <2>4. \A u \in {v \in Threads : batch[v].cursor < batch[v].end} :
             batch[u].cursor # at =>
               u \in {v \in Threads : batch'[v].cursor < batch'[v].end} /\ batch'[u].cursor = batch[u].cursor
      BY <1>2, <1>7
    <2>5. \A x \in TailsOf(batch') : x \in TailsOf(batch) /\ x # at
      BY <2>3 DEF TailsOf
    <2>6. \A x \in TailsOf(batch) : x # at => x \in TailsOf(batch')
      BY <2>4 DEF TailsOf
    <2>7. at \in TailsOf(batch)
      BY <1>2 DEF TailsOf
    <2> QED
      BY <2>5, <2>6, <2>7
  <1>9. TailsOf(batch) \subseteq free /\ at \notin Listed
    BY <1>4, <1>8, TailsAreFree DEF Listed
  <1>10. IsList(Listed, head, next, ord) /\ Listed \subseteq DOMAIN size /\ Listed \subseteq Addresses /\ 0 \notin Listed
         /\ head \in Nat
    BY <1>1, BlocksAre DEF ListOK, HeapInv, HeapTypes
  <1>11. CallType'
    BY <1>3 DEF CallType
  <1>12. missSize' \in Nat /\ searchSize' \in Nat /\ searchPrev' \in Nat /\ head' \in Nat /\ top' <= ReserveEnd
    BY <1>3, <1>5 DEF HeapInv, HeapTypes
  <1>13. Held = AsRanges(size, DOMAIN size \ Listed) /\ Spare = AsRanges(size, Listed)
    BY HeldIs DEF HeapInv
  <1> DEFINE r == Heap!Ranged(at, size[at])
  <1>14. r \in Held /\ r.at = at /\ r.size = size[at] /\ Heap!End(r) = end
    BY <1>5, <1>9, <1>13, RangesMember, RangedFields
  <1>15. AsRanges(size, (DOMAIN size \ Listed) \ {at}) = Held \ {r}
    BY <1>5, <1>9, <1>13, RangesRemove
  <1>16. CASE end = head /\ head \in free
    <2>1. /\ size' = Header([b \in DOMAIN size \ {head} |-> size[b]], at, size[at] + size[head])
          /\ free' = free \ {head}
          /\ next' = [next EXCEPT ![at] = next[head], ![head] = 0]
      BY <1>2, <1>6, <1>16 DEF RetireBatch
    <2>2. head \in Listed /\ head # at
      BY <1>5, <1>9, <1>10, <1>16 DEF IsList, First
    <2>3. /\ DOMAIN size' = DOMAIN size \ {head} /\ size'[at] = size[at] + size[head]
          /\ \A c \in DOMAIN size' : c # at => size'[c] = size[c]
          /\ Tiles(size', top)
      <3>1. at + size[at] = head /\ head \in DOMAIN size
        BY <1>5, <1>10, <1>16, <2>2
      <3>2. LET g == Joined(size, at, head)
            IN  /\ DOMAIN g = DOMAIN size \ {head} /\ g[at] = size[at] + size[head]
                /\ \A c \in DOMAIN g : c # at => g[c] = size[c]
                /\ Tiles(g, top)
        BY <1>4, <1>5, <3>1, JoinTiles
      <3>3. size' = Joined(size, at, head)
        BY <2>1 DEF Joined
      <3> QED
        BY <3>2, <3>3
    <2>4. free' \in SUBSET DOMAIN size'
      BY <1>4, <2>1, <2>3
    <2>5. Private(size', free', batch')
      <3>1. \A u \in Threads : batch[u].cursor < batch[u].end => batch[u].cursor # head
        BY <2>2 DEF Listed, TailsOf
      <3>2. \A u \in Threads : batch'[u].cursor < batch'[u].end =>
              /\ u # t /\ batch'[u] = batch[u] /\ batch[u].cursor \in free' /\ batch[u].cursor # at
        BY <1>2, <1>4, <1>7, <2>1, <3>1 DEF Private, NoBatch
      <3>3. \A u \in Threads : batch'[u].cursor < batch'[u].end => size'[batch[u].cursor] = size[batch[u].cursor]
        BY <2>3, <2>4, <3>2
      <3> QED
        BY <1>4, <3>2, <3>3 DEF Private
    <2>6. Listed' = (Listed \ {head}) \cup {at}
      BY <1>5, <1>8, <1>9, <2>1, <2>2 DEF Listed, TailsOf
    <2>7. /\ next' \in [Addresses -> Nat] /\ next'[at] = next[head]
          /\ \A b \in Listed \ {head} : next'[b] = next[b]
      BY <1>4, <1>5, <1>9, <1>10, <2>1, <2>2
    <2>8. PICK o : IsList(Listed', head', next', o)
      <3>1. IsList(Listed \ {head}, next[head], next, ord)
        BY <1>10, <2>2, Popped
      <3>2. at \notin Listed \ {head}
        BY <1>9
      <3>3. IsList((Listed \ {head}) \cup {at}, at, next',
                   [ord EXCEPT ![at] = IF next[head] = 0 THEN 0 ELSE ord[next[head]] - 1])
        BY <1>5, <2>7, <3>1, <3>2, Pushed
      <3> QED
        BY <1>3, <2>6, <3>3
    <2>9. ListOK(o)'
      BY <1>3, <2>8 DEF ListOK, Cached, IsList, First
    <2>10. MissOK' /\ HeapTypes'
      BY <1>3, <1>7, <1>11, <1>12, <2>3, <2>4, <2>7 DEF MissOK, HeapTypes
    <2>11. Held' = Held \ {r}
      <3>1. Held' = AsRanges(size', DOMAIN size' \ Listed')
        BY <2>5, <2>10, HeldIsNext
      <3>2. DOMAIN size' \ Listed' = (DOMAIN size \ Listed) \ {at}
        BY <1>5, <2>2, <2>3, <2>6
      <3>3. \A b \in (DOMAIN size \ Listed) \ {at} : size'[b] = size[b]
        BY <2>2, <2>3
      <3> HIDE DEF r
      <3> QED
        BY <1>15, <3>1, <3>2, <3>3, RangesSame
    <2> DEFINE s == Heap!Ranged(head, size[head])
    <2>12. s \in Spare /\ s.at = head /\ s.size = size[head]
      BY <1>13, <2>2, RangesMember, RangedFields
    <2>13. Spare' = (Spare \ {s}) \cup {Heap!Ranged(at, size[at] + size[head])}
      <3>1. Spare' = AsRanges(size', (Listed \ {head}) \cup {at})
        BY <2>5, <2>6, <2>10, HeldIsNext
      <3>2. AsRanges(size', (Listed \ {head}) \cup {at}) =
              AsRanges(size', Listed \ {head}) \cup {Heap!Ranged(at, size[at] + size[head])}
        <4>1. AsRanges(size', (Listed \ {head}) \cup {at}) =
                AsRanges(size', Listed \ {head}) \cup {Heap!Ranged(at, size'[at])}
          BY RangesAdd
        <4> QED
          BY <2>3, <4>1
      <3>3. \A b \in Listed \ {head} : size'[b] = size[b]
        BY <1>9, <1>10, <2>3
      <3>4. AsRanges(size', Listed \ {head}) = AsRanges(size, Listed \ {head})
        BY <3>3, RangesSame
      <3>5. AsRanges(size, Listed \ {head}) = Spare \ {s}
        BY <1>13, <2>2, RangesRemove
      <3> HIDE DEF s
      <3> QED
        BY <3>1, <3>2, <3>4, <3>5
    <2> HIDE DEF r, s
    <2>14. s.at = Heap!End(r) /\ Spare' = (Spare \ {s}) \cup {Heap!Ranged(r.at, r.size + s.size)}
      BY <1>14, <1>16, <2>12, <2>13
    <2>15. Heap!Return
      BY <1>3, <1>14, <2>11, <2>12, <2>14 DEF Heap!Return, Held, Spare
    <2> QED
      BY <2>5, <2>9, <2>10, <2>15 DEF HeapInv, Moves, Heap!RangeNext
  <1>17. CASE ~ (end = head /\ head \in free)
    <2>1. /\ size' = Header(size, at, size[at])
          /\ free' = free
          /\ next' = [next EXCEPT ![at] = head]
      BY <1>2, <1>6, <1>17 DEF RetireBatch
    <2>2. size' = size
      BY <1>4, <1>5, <2>1 DEF Header, Tiles
    <2>5. Private(size', free', batch')
      <3>1. \A u \in Threads : batch'[u].cursor < batch'[u].end => u # t /\ batch'[u] = batch[u]
        BY <1>7 DEF NoBatch
      <3> QED
        BY <1>4, <2>1, <2>2, <3>1 DEF Private
    <2>6. Listed' = Listed \cup {at}
      BY <1>5, <1>8, <2>1 DEF Listed, TailsOf
    <2>7. /\ next' \in [Addresses -> Nat] /\ next'[at] = head
          /\ \A b \in Listed : next'[b] = next[b]
      BY <1>4, <1>5, <1>9, <1>10, <2>1
    <2>8. PICK o : IsList(Listed', head', next', o)
      <3>1. IsList(Listed \cup {at}, at, next', [ord EXCEPT ![at] = IF head = 0 THEN 0 ELSE ord[head] - 1])
        BY <1>5, <1>9, <1>10, <2>7, Pushed
      <3> QED
        BY <1>3, <2>6, <3>1
    <2>9. ListOK(o)'
      BY <1>3, <2>8 DEF ListOK, Cached, IsList, First
    <2>10. MissOK' /\ HeapTypes'
      BY <1>3, <1>4, <1>7, <1>11, <1>12, <2>1, <2>2, <2>7 DEF MissOK, HeapTypes
    <2>11. Held' = Held \ {r}
      <3>1. Held' = AsRanges(size, DOMAIN size \ Listed')
        BY <2>2, <2>5, <2>10, HeldIsNext
      <3>2. DOMAIN size \ Listed' = (DOMAIN size \ Listed) \ {at}
        BY <2>6
      <3> HIDE DEF r
      <3> QED
        BY <1>15, <3>1, <3>2
    <2>13. Spare' = Spare \cup {r}
      <3>1. Spare' = AsRanges(size, Listed \cup {at})
        BY <2>2, <2>5, <2>6, <2>10, HeldIsNext
      <3> QED
        BY <1>13, <3>1, RangesAdd
    <2> HIDE DEF r
    <2>14. Heap!Return
      BY <1>3, <1>14, <2>11, <2>13 DEF Heap!Return, Held, Spare
    <2> QED
      BY <2>5, <2>9, <2>10, <2>14 DEF HeapInv, Moves, Heap!RangeNext
  <1> QED
    BY <1>16, <1>17

\* A batch that is used up is forgotten.
LEMMA RetireNothing ==
  ASSUME HeapInv, NEW t \in Threads, RetireBatch(t), ~ (batch[t].cursor < batch[t].end)
  PROVE  HeapInv' /\ Moves
PROOF
  <1>1. /\ batch' = [batch EXCEPT ![t] = NoBatch]
        /\ UNCHANGED <<threaded, top, size, free, next, head, missSize, searchSize, searchPrev, call>>
    BY DEF RetireBatch
  <1>2. batch \in [Threads -> BatchType] /\ Private(size, free, batch)
    BY DEF HeapInv, HeapTypes
  <1>3. /\ batch' \in [Threads -> BatchType] /\ batch'[t] = NoBatch
        /\ \A u \in Threads : u # t => batch'[u] = batch[u]
    BY <1>1, <1>2 DEF NoBatch, BatchType
  <1>4. \A u \in Threads : /\ batch'[u].cursor < batch'[u].end <=> batch[u].cursor < batch[u].end
                           /\ batch'[u].cursor < batch'[u].end => batch'[u] = batch[u]
    BY <1>3 DEF NoBatch
  <1>5. TailsOf(batch') = TailsOf(batch)
    BY <1>4 DEF TailsOf
  <1>6. Private(size', free', batch')
    BY <1>1, <1>2, <1>4 DEF Private
  <1>7. Listed' = Listed
    BY <1>1, <1>5 DEF Listed, TailsOf
  <1>8. HeapTypes'
    <2>1. \A u \in Threads : batch[u].cursor = 0 => batch'[u].cursor = 0
      BY <1>3 DEF NoBatch
    <2>2. CallType'
      <3>1. call' = call /\ CallType
        BY <1>1 DEF HeapInv, HeapTypes
      <3>2. call.at = "search" /\ call.by # Nobody => call.by \in Threads
        BY <3>1 DEF CallType, SearchCall
      <3> QED
        BY <2>1, <3>1, <3>2 DEF CallType
    <2> QED
      BY <1>1, <1>3, <2>2 DEF HeapInv, HeapTypes
  <1>9. MissOK' /\ \E o : ListOK(o)'
    BY <1>1, <1>7, ListFrame DEF HeapInv
  <1>10. UNCHANGED <<Held, Spare, top>>
    BY <1>1, <1>6, <1>7, <1>8, HeldIs, HeldIsNext DEF HeapInv
  <1> QED
    BY <1>6, <1>8, <1>9, <1>10 DEF HeapInv, Moves

\* The tails after one batch changes.
LEMMA TailsAfter ==
  ASSUME Private(size, free, batch), NEW t \in Threads, batch[t].cursor < batch[t].end,
         NEW bt, \A u \in Threads : u # t => bt[u] = batch[u]
  PROVE  TailsOf(bt) = (TailsOf(batch) \ {batch[t].cursor})
                         \cup (IF bt[t].cursor < bt[t].end THEN {bt[t].cursor} ELSE {})
PROOF
  <1>1. \A u \in Threads : u # t /\ batch[u].cursor < batch[u].end => batch[u].cursor # batch[t].cursor
    BY DEF Private
  <1>2. \A x \in TailsOf(bt) : \/ bt[t].cursor < bt[t].end /\ x = bt[t].cursor
                               \/ x \in TailsOf(batch) /\ x # batch[t].cursor
    <2> SUFFICES ASSUME NEW u \in Threads, bt[u].cursor < bt[u].end
                 PROVE  \/ bt[t].cursor < bt[t].end /\ bt[u].cursor = bt[t].cursor
                        \/ bt[u].cursor \in TailsOf(batch) /\ bt[u].cursor # batch[t].cursor
      BY DEF TailsOf
    <2>1. CASE u = t
      BY <2>1
    <2>2. CASE u # t
      <3>1. bt[u] = batch[u] /\ batch[u].cursor < batch[u].end
        BY <2>2
      <3> QED
        BY <1>1, <2>2, <3>1 DEF TailsOf
    <2> QED
      BY <2>1, <2>2
  <1>3. \A x \in TailsOf(batch) : x # batch[t].cursor => x \in TailsOf(bt)
    <2> SUFFICES ASSUME NEW u \in Threads, batch[u].cursor < batch[u].end, batch[u].cursor # batch[t].cursor
                 PROVE  batch[u].cursor \in TailsOf(bt)
      BY DEF TailsOf
    <2>1. bt[u] = batch[u]
      OBVIOUS
    <2> QED
      BY <2>1 DEF TailsOf
  <1>4. bt[t].cursor < bt[t].end => bt[t].cursor \in TailsOf(bt)
    BY DEF TailsOf
  <1> QED
    BY <1>2, <1>3, <1>4

\* A thread's object comes from the tail of its batch, which it holds.
LEMMA AllocFromBatchStep ==
  ASSUME HeapInv, NEW t \in Threads, NEW n \in Objects, AllocFromBatch(t, n)
  PROVE  HeapInv' /\ Moves
PROOF
  <1>1. PICK at, end, rest : at = batch[t].cursor /\ end = batch[t].end /\ rest = Room(t) - n
    OBVIOUS
  <1>2. /\ free \in SUBSET DOMAIN size /\ batch \in [Threads -> BatchType] /\ Private(size, free, batch)
        /\ Tiles(size, top) /\ n \in Nat \ {0} /\ MinSplit \in Nat \ {0}
    BY SizesArePositive DEF HeapInv, HeapTypes
  <1>3. /\ at # 0 /\ batch[t].cursor < batch[t].end
        /\ UNCHANGED <<threaded, top, next, head, missSize, searchSize, searchPrev, call>>
        /\ rest >= 0
    BY <1>1 DEF AllocFromBatch
  <1>4. /\ at \in free /\ at + size[at] = end /\ at \in Nat \ {0} /\ size[at] \in Nat \ {0} /\ end \in Nat
        /\ at \in DOMAIN size /\ at \in TailsOf(batch) /\ at \notin Listed
    <2>1. at \in free /\ at + size[at] = end
      BY <1>1, <1>2, <1>3 DEF Private
    <2>2. at \in DOMAIN size /\ at \in TailsOf(batch)
      BY <1>1, <1>2, <1>3, <2>1 DEF TailsOf
    <2> QED
      BY <2>1, <2>2, BlocksAre DEF HeapInv, Listed
  <1>5. rest = size[at] - n /\ rest \in Nat
    BY <1>1, <1>2, <1>3, <1>4 DEF Room, BatchType
  <1>6. /\ size' = (IF rest >= MinSplit THEN Split(size, at, n) ELSE size)
        /\ free' = (IF rest >= MinSplit THEN (free \ {at}) \cup {at + n} ELSE free \ {at})
        /\ batch' = [batch EXCEPT ![t].cursor = IF rest >= MinSplit THEN at + n ELSE end]
    <2>1. /\ size' = (IF rest >= MinSplit THEN Header(Header(size, at + n, rest), at, n) ELSE size)
          /\ free' = (IF rest >= MinSplit THEN (free \ {at}) \cup {at + n} ELSE free \ {at})
          /\ batch' = [batch EXCEPT ![t].cursor = IF rest >= MinSplit THEN at + n ELSE end]
      BY <1>1 DEF AllocFromBatch
    <2> QED
      BY <1>5, <2>1 DEF Split
  <1>7. /\ batch' \in [Threads -> BatchType]
        /\ batch'[t].cursor = (IF rest >= MinSplit THEN at + n ELSE end)
        /\ batch'[t].end = end
        /\ \A u \in Threads : u # t => batch'[u] = batch[u]
    BY <1>1, <1>2, <1>4, <1>6 DEF BatchType
  <1>8. CallType'
    <2>1. call' = call /\ CallType
      BY <1>3 DEF HeapInv, HeapTypes
    <2>2. call.at = "search" /\ call.by # Nobody => call.by # t /\ call.by \in Threads
      BY <1>1, <1>3, <2>1 DEF CallType, SearchCall
    <2> QED
      BY <1>7, <2>1, <2>2 DEF CallType
  <1>9. Held = AsRanges(size, DOMAIN size \ Listed) /\ Spare = AsRanges(size, Listed)
    BY HeldIs DEF HeapInv
  <1>10. CASE rest >= MinSplit
    <2>1. at + n < end /\ n < size[at]
      BY <1>2, <1>4, <1>5, <1>10
    <2>2. /\ at + n \notin DOMAIN size
          /\ DOMAIN size' = DOMAIN size \cup {at + n}
          /\ size'[at] = n /\ size'[at + n] = rest
          /\ \A c \in DOMAIN size : c # at => size'[c] = size[c]
          /\ Tiles(size', top)
      <3>1. LET g == Split(size, at, n)
            IN  /\ at + n \notin DOMAIN size
                /\ DOMAIN g = DOMAIN size \cup {at + n}
                /\ g[at] = n /\ g[at + n] = size[at] - n
                /\ \A c \in DOMAIN size : c # at => g[c] = size[c]
                /\ Tiles(g, top)
        BY <1>2, <1>4, <2>1, SplitTiles
      <3> QED
        BY <1>5, <1>6, <1>10, <3>1
    <2>3. TailsOf(batch') = (TailsOf(batch) \ {at}) \cup {at + n}
      BY <1>1, <1>2, <1>3, <1>7, <1>10, <2>1, TailsAfter
    <2>4. Listed' = Listed
      <3>1. at + n \notin free
        BY <1>2, <2>2
      <3> QED
        BY <1>4, <1>6, <1>10, <2>3, <3>1 DEF Listed, TailsOf
    <2>5. free' \in SUBSET DOMAIN size'
      BY <1>2, <1>6, <1>10, <2>2
    <2>6. Private(size', free', batch')
      <3>1. \A u \in Threads : u # t /\ batch[u].cursor < batch[u].end =>
               /\ batch[u].cursor \in free /\ batch[u].cursor # at /\ batch[u].cursor # at + n
               /\ batch[u].cursor \in free' /\ size'[batch[u].cursor] = size[batch[u].cursor]
        BY <1>1, <1>2, <1>3, <1>6, <1>10, <2>2 DEF Private
      <3>2. at + n \in free' /\ at + n + size'[at + n] = end
        BY <1>2, <1>4, <1>5, <1>6, <1>10, <2>2
      <3> QED
        BY <1>2, <1>7, <1>10, <3>1, <3>2 DEF Private
    <2>7. MissOK' /\ \E o : ListOK(o)'
      <3>1. \A c \in Listed : size'[c] = size[c]
        BY <1>4, <2>2, BlocksAre DEF HeapInv
      <3> QED
        BY <1>3, <2>4, <3>1, ListFrame DEF HeapInv
    <2>8. HeapTypes'
      BY <1>3, <1>7, <1>8, <2>2, <2>5 DEF HeapInv, HeapTypes
    <2>9. Spare' = Spare
      <3>1. \A c \in Listed : size'[c] = size[c]
        BY <1>4, <2>2, BlocksAre DEF HeapInv
      <3> QED
        BY <1>9, <2>4, <2>6, <2>8, <3>1, RangesSame, HeldIsNext
    <2> DEFINE r == Heap!Ranged(at, size[at])
    <2>10. Held' = (Held \ {r}) \cup {Heap!Ranged(at, n), Heap!Ranged(at + n, size[at] - n)}
      <3>1. Held' = AsRanges(size', DOMAIN size' \ Listed)
        BY <2>4, <2>6, <2>8, HeldIsNext
      <3>2. DOMAIN size' \ Listed = (DOMAIN size \ Listed) \cup {at + n}
        BY <2>2, BlocksAre DEF HeapInv
      <3>3. AsRanges(size', (DOMAIN size \ Listed) \cup {at + n}) =
              AsRanges(size, (DOMAIN size \ Listed) \ {at})
                \cup {Heap!Ranged(at, size'[at]), Heap!Ranged(at + n, size'[at + n])}
        <4>1. at \in DOMAIN size \ Listed
          BY <1>4
        <4>2. AsRanges(size', (DOMAIN size \ Listed) \cup {at + n}) =
                AsRanges(size', (DOMAIN size \ Listed) \ {at})
                  \cup {Heap!Ranged(at, size'[at]), Heap!Ranged(at + n, size'[at + n])}
          <5>1. PICK S, x, f : S = DOMAIN size \ Listed /\ x = at + n /\ f = size'
            OBVIOUS
          <5>2. S \cup {x} = ((S \ {at}) \cup {at}) \cup {x}
            BY <4>1, <5>1
          <5>3. AsRanges(f, (S \ {at}) \cup {at}) = AsRanges(f, S \ {at}) \cup {Heap!Ranged(at, f[at])}
            BY RangesAdd
          <5>4. AsRanges(f, ((S \ {at}) \cup {at}) \cup {x}) =
                  AsRanges(f, (S \ {at}) \cup {at}) \cup {Heap!Ranged(x, f[x])}
            BY RangesAdd
          <5>5. AsRanges(f, S \cup {x}) = AsRanges(f, S \ {at}) \cup {Heap!Ranged(at, f[at]), Heap!Ranged(x, f[x])}
            BY <5>2, <5>3, <5>4
          <5> QED
            BY <5>1, <5>5
        <4>3. AsRanges(size', (DOMAIN size \ Listed) \ {at}) = AsRanges(size, (DOMAIN size \ Listed) \ {at})
          BY <2>2, RangesSame
        <4> QED
          BY <4>2, <4>3
      <3>4. AsRanges(size, (DOMAIN size \ Listed) \ {at}) = Held \ {r}
        BY <1>4, <1>9, RangesRemove
      <3> HIDE DEF r
      <3> QED
        BY <1>5, <2>2, <3>1, <3>2, <3>3, <3>4
    <2>11. r \in Held /\ r.at = at /\ r.size = size[at]
      BY <1>4, <1>9, RangesMember, RangedFields
    <2>12. {Heap!Ranged(at, n), Heap!Ranged(at + n, size[at] - n)} \in Heap!Pieces(at, size[at])
      <3>1. n \in 1 .. size[at] - 1
        BY <1>2, <1>4, <2>1
      <3> QED
        BY <3>1 DEF Heap!Pieces
    <2> HIDE DEF r
    <2>13. Heap!Divide
      BY <1>3, <2>9, <2>10, <2>11, <2>12 DEF Heap!Divide, Held, Spare
    <2> QED
      BY <2>6, <2>7, <2>8, <2>13 DEF HeapInv, Moves, Heap!RangeNext
  <1>11. CASE ~ (rest >= MinSplit)
    <2>1. size' = size /\ free' = free \ {at}
      BY <1>6, <1>11
    <2>3. TailsOf(batch') = TailsOf(batch) \ {at}
      <3>1. ~ (batch'[t].cursor < batch'[t].end)
        BY <1>4, <1>7, <1>11
      <3> QED
        BY <1>1, <1>2, <1>3, <1>7, <3>1, TailsAfter
    <2>4. Listed' = Listed
      BY <1>4, <2>1, <2>3 DEF Listed, TailsOf
    <2>6. Private(size', free', batch')
      <3>1. \A u \in Threads : batch'[u].cursor < batch'[u].end => u # t
        BY <1>4, <1>7, <1>11
      <3>2. \A u \in Threads : u # t /\ batch[u].cursor < batch[u].end =>
               batch[u].cursor \in free /\ batch[u].cursor # at
        BY <1>1, <1>2, <1>3 DEF Private
      <3> QED
        BY <1>2, <1>7, <2>1, <3>1, <3>2 DEF Private
    <2>7. MissOK' /\ \E o : ListOK(o)'
      BY <1>3, <2>1, <2>4, ListFrame DEF HeapInv
    <2>8. HeapTypes'
      BY <1>2, <1>3, <1>7, <1>8, <2>1 DEF HeapInv, HeapTypes
    <2>9. UNCHANGED <<Held, Spare, top>>
      BY <1>3, <1>9, <2>1, <2>4, <2>6, <2>8, HeldIsNext
    <2> QED
      BY <2>6, <2>7, <2>8, <2>9 DEF HeapInv, Moves
  <1> QED
    BY <1>10, <1>11

\* The room between the blocks that are kept, as ranges.
LEMMA GapsAre ==
  ASSUME Tiles(size, top), NEW kept \in SUBSET DOMAIN size, NEW end, NEW gaps,
         end = Highest(Ends(kept)),
         gaps = {b \in Ends(kept) : b \in DOMAIN size \ kept /\ b < end}
  PROVE  /\ Heap!Ends(AsRanges(size, kept)) = Ends(kept)
         /\ Heap!Gaps(AsRanges(size, kept)) = {Heap!Ranged(b, Following(b, kept) - b) : b \in gaps}
PROOF
  <1> DEFINE K == AsRanges(size, kept)
  <1>1. /\ \A r \in K : \E b \in kept : r = Heap!Ranged(b, size[b]) /\ r.at = b /\ Heap!End(r) = b + size[b]
        /\ \A b \in kept : \E r \in K : r.at = b /\ Heap!End(r) = b + size[b]
    <2>1. \A r \in K : \E b \in kept : r = Heap!Ranged(b, size[b]) /\ r.at = b /\ Heap!End(r) = b + size[b]
      BY RangesAre, RangedFields
    <2>2. ASSUME NEW b \in kept
          PROVE  \E r \in K : r.at = b /\ Heap!End(r) = b + size[b]
      <3>1. Heap!Ranged(b, size[b]) \in K
        BY RangesMember
      <3> QED
        BY <3>1, RangedFields
    <2> QED
      BY <2>1, <2>2
  <1>2. Heap!Ends(K) = Ends(kept)
    <2> HIDE DEF K
    <2> QED
      BY <1>1 DEF Heap!Ends, Ends
  <1>3. /\ end \in Ends(kept) /\ \A e \in Ends(kept) : e <= end
        /\ end \in Nat \ {0} /\ Ends(kept) \subseteq Nat \ {0}
        /\ \A e \in Ends(kept) : e < end => e \in DOMAIN size
        /\ \A b \in gaps : /\ Following(b, kept) \in kept /\ b < Following(b, kept)
                           /\ \A l \in kept : b < l => Following(b, kept) <= l
    BY SweepFacts
  <1>4. /\ \A b \in DOMAIN size : b \in Nat \ {0} /\ size[b] \in Nat \ {0}
        /\ \A b, c \in DOMAIN size : b < c => b + size[b] <= c
        /\ \A b \in gaps : b \in DOMAIN size /\ b \notin kept /\ b \in Ends(kept)
        /\ \A k \in kept : k \in DOMAIN size /\ k + size[k] \in Ends(kept)
    BY DEF Tiles, Ends
  <1>5. ASSUME NEW b \in gaps
        PROVE  Heap!Ranged(b, Following(b, kept) - b) \in Heap!Gaps(K)
    <2> DEFINE k == Following(b, kept)
               x == Heap!Ranged(b, k - b)
    <2>1. k \in kept /\ b < k /\ \A l \in kept : b < l => k <= l
      BY <1>3
    <2>2. b \in Nat \ {0} /\ k \in Nat \ {0}
      BY <1>4, <2>1
    <2> HIDE DEF k
    <2>3. x.at = b /\ x.size = k - b /\ Heap!End(x) = b + (k - b)
      BY RangedFields
    <2>4. x.size > 0 /\ Heap!End(x) = k
      BY <2>1, <2>2, <2>3
    <2>5. \A l \in kept : l + size[l] <= b \/ k <= l
      <3> SUFFICES ASSUME NEW l \in kept, ~ (k <= l)
                   PROVE  l + size[l] <= b
        OBVIOUS
      <3>1. l # b /\ l \in DOMAIN size /\ b \in DOMAIN size /\ l \in Nat
        BY <1>4
      <3>2. ~ (b < l)
        BY <2>1
      <3> QED
        BY <1>4, <2>2, <3>1, <3>2
    <2>6. x \in {Heap!Ranged(a, r.at - a) : a \in Heap!Ends(K), r \in K}
      <3>1. PICK r \in K : r.at = k
        BY <1>1, <2>1
      <3>2. b \in Heap!Ends(K)
        BY <1>2, <1>4
      <3> QED
        BY <3>1, <3>2
    <2> HIDE DEF x, K
    <2>7. \A r \in K : Heap!End(r) <= x.at \/ Heap!End(x) <= r.at
      <3> SUFFICES ASSUME NEW r \in K
                   PROVE  Heap!End(r) <= x.at \/ Heap!End(x) <= r.at
        OBVIOUS
      <3>1. PICK l \in kept : r.at = l /\ Heap!End(r) = l + size[l]
        BY <1>1
      <3> QED
        BY <2>3, <2>4, <2>5, <3>1
    <2>8. x \in Heap!Gaps(K)
      BY <2>4, <2>6, <2>7 DEF Heap!Gaps
    <2> QED
      BY <2>8 DEF x, k
  <1>6. ASSUME NEW x \in Heap!Gaps(K)
        PROVE  \E b \in gaps : x = Heap!Ranged(b, Following(b, kept) - b)
    <2>1. PICK a \in Heap!Ends(K), r \in K : x = Heap!Ranged(a, r.at - a)
      BY DEF Heap!Gaps
    <2>2. x.size > 0 /\ \A s \in K : Heap!End(s) <= x.at \/ Heap!End(x) <= s.at
      BY DEF Heap!Gaps
    <2>3. PICK k \in kept : r.at = k
      BY <1>1
    <2>4. a \in Ends(kept) /\ a \in Nat \ {0} /\ k \in Nat \ {0} /\ size[k] \in Nat \ {0}
      BY <1>2, <1>3, <1>4
    <2>5. x.at = a /\ x.size = k - a /\ Heap!End(x) = a + (k - a)
      BY <2>1, <2>3, RangedFields
    <2>6. a < k /\ Heap!End(x) = k
      BY <2>2, <2>4, <2>5
    <2> HIDE DEF K
    <2>7. \A l \in kept : l + size[l] <= a \/ k <= l
      <3> SUFFICES ASSUME NEW l \in kept
                   PROVE  l + size[l] <= a \/ k <= l
        OBVIOUS
      <3>1. PICK s \in K : s.at = l /\ Heap!End(s) = l + size[l]
        BY <1>1
      <3> QED
        BY <2>2, <2>5, <2>6, <3>1
    <2>8. a < end
      <3>1. k + size[k] <= end
        BY <1>3, <1>4
      <3> QED
        BY <1>3, <2>4, <2>6, <3>1
    <2>9. a \in DOMAIN size /\ a \notin kept
      <3>1. a \in DOMAIN size
        BY <1>3, <2>4, <2>8
      <3>2. size[a] \in Nat \ {0}
        BY <1>4, <3>1
      <3> QED
        BY <2>4, <2>6, <2>7, <3>1, <3>2
    <2>10. a \in gaps
      BY <2>4, <2>8, <2>9
    <2>11. Following(a, kept) = k
      <3> DEFINE f == Following(a, kept)
      <3>1. f \in kept /\ a < f /\ f <= k
        BY <1>3, <2>6, <2>10
      <3>2. f \in Nat \ {0} /\ size[f] \in Nat \ {0}
        BY <1>4, <3>1
      <3> HIDE DEF f
      <3>3. k <= f
        BY <2>4, <2>7, <3>1, <3>2
      <3>4. f = k
        BY <2>4, <3>1, <3>2, <3>3
      <3> QED
        BY <3>4 DEF f
    <2> QED
      BY <2>1, <2>3, <2>10, <2>11
  <1>8. Heap!Gaps(K) = {Heap!Ranged(b, Following(b, kept) - b) : b \in gaps}
    <2> HIDE DEF K
    <2> QED
      BY <1>5, <1>6
  <1> QED
    BY <1>2, <1>8

\* The sweep builds headers and list anew, and leaves what is kept in its place.
LEMMA Sweeps ==
  ASSUME HeapInv, NEW kept \in SUBSET (DOMAIN size \ free), SweepTo(kept)
  PROVE  /\ Tiles(size', top') /\ top' <= ReserveEnd /\ free' \in SUBSET DOMAIN size'
         /\ next' \in [Addresses -> Nat] /\ head' \in Nat /\ missSize' = 0 /\ searchSize' = 0
         /\ batch' \in [Threads -> BatchType] /\ \A t \in Threads : batch'[t].cursor = 0
         /\ Private(size', free', batch')
         /\ \E ord : IsList(Listed', head', next', ord)
         /\ AsRanges(size', DOMAIN size' \ Listed') \subseteq Held
         /\ AsRanges(size', Listed') = Heap!Gaps(AsRanges(size', DOMAIN size' \ Listed'))
         /\ top' \in Heap!Ends(AsRanges(size', DOMAIN size' \ Listed'))
         /\ \A e \in Heap!Ends(AsRanges(size', DOMAIN size' \ Listed')) : e <= top'
PROOF
  <1>1. PICK end, gaps :
          /\ end = Highest(Ends(kept))
          /\ gaps = {b \in Ends(kept) : b \in DOMAIN size \ kept /\ b < end}
          /\ top' = end
          /\ size' = [b \in kept \cup gaps |-> IF b \in kept THEN size[b] ELSE Following(b, kept) - b]
          /\ free' = gaps
          /\ next' = [a \in Addresses |-> IF a \in gaps THEN Highest({g \in gaps : g < a}) ELSE 0]
          /\ head' = Highest(gaps)
          /\ batch' = [t \in Threads |-> NoBatch]
          /\ missSize' = 0 /\ searchSize' = 0
    BY DEF SweepTo, ForgetSearches
  <1>2. Tiles(size, top) /\ kept \in SUBSET DOMAIN size /\ top \in Nat /\ top <= ReserveEnd /\ ReserveEnd \in Nat
    BY BlocksAre, SizesArePositive DEF HeapInv, HeapTypes
  <1>3. Tiles(size', top')
    BY <1>1, <1>2, SweepTiles
  <1>4. /\ end \in Ends(kept) /\ \A e \in Ends(kept) : e <= end
        /\ end \in Nat \ {0} /\ end <= top
    BY <1>1, <1>2, SweepFacts
  <1>5. top' <= ReserveEnd
    BY <1>1, <1>2, <1>4
  <1>6. /\ DOMAIN size' = kept \cup gaps /\ kept \cap gaps = {}
        /\ \A b \in kept : size'[b] = size[b]
        /\ \A b \in gaps : size'[b] = Following(b, kept) - b
    BY <1>1
  <1>7. batch' \in [Threads -> BatchType] /\ \A t \in Threads : batch'[t].cursor = 0 /\ ~ (batch'[t].cursor < batch'[t].end)
    BY <1>1 DEF NoBatch, BatchType
  <1>8. TailsOf(batch') = {} /\ Private(size', free', batch')
    BY <1>7 DEF TailsOf, Private
  <1>9. Listed' = gaps /\ DOMAIN size' \ Listed' = kept
    BY <1>1, <1>6, <1>8 DEF Listed, TailsOf
  <1>10. gaps \subseteq Nat \ {0} /\ gaps \subseteq Addresses /\ \A b \in gaps : b <= top
    <2>1. gaps \subseteq DOMAIN size
      BY <1>1
    <2>2. DOMAIN size \subseteq Addresses /\ Addresses \subseteq Nat \ {0}
      BY BlocksAre DEF HeapInv
    <2>3. \A b \in gaps : b <= top
      <3> SUFFICES ASSUME NEW b \in gaps
                   PROVE  b <= top
        OBVIOUS
      <3>1. b < end /\ b \in Nat
        BY <1>1, <2>1, <2>2
      <3> QED
        BY <1>2, <1>4, <3>1
    <2> QED
      BY <2>1, <2>2, <2>3
  <1>11. PICK ord : IsList(gaps, Highest(gaps), next', ord)
    <2>1. \A b \in gaps : next'[b] = Highest({c \in gaps : c < b})
      BY <1>1, <1>10
    <2> QED
      BY <1>2, <1>10, <2>1, Descending
  <1>12. head' \in Nat /\ next' \in [Addresses -> Nat]
    <2>1. head' \in Nat
      BY <1>1, <1>10, <1>11 DEF IsList, First
    <2>2. \A a \in gaps : Highest({g \in gaps : g < a}) \in Nat
      <3>1. \A a \in gaps : next'[a] \in Nat
        BY <1>10, <1>11 DEF IsList, First
      <3> QED
        BY <1>1, <1>10, <3>1
    <2> QED
      BY <1>1, <2>1, <2>2
  <1>13. AsRanges(size', kept) = AsRanges(size, kept)
    BY <1>6, RangesSame
  <1>14. AsRanges(size, kept) \subseteq Held
    <2>1. Held = AsRanges(size, DOMAIN size \ Listed)
      BY HeldIs DEF HeapInv
    <2>2. kept \subseteq DOMAIN size \ Listed
      BY DEF Listed
    <2> QED
      BY <2>1, <2>2 DEF AsRanges
  <1>15. /\ Heap!Ends(AsRanges(size, kept)) = Ends(kept)
         /\ Heap!Gaps(AsRanges(size, kept)) = {Heap!Ranged(b, Following(b, kept) - b) : b \in gaps}
    BY <1>1, <1>2, GapsAre
  <1>16. AsRanges(size', gaps) = {Heap!Ranged(b, Following(b, kept) - b) : b \in gaps}
    <2>1. AsRanges(size', gaps) = {Heap!Ranged(b, size'[b]) : b \in gaps}
      BY DEF AsRanges, Heap!Ranged
    <2> QED
      BY <1>6, <2>1
  <1>17. PICK K : K = AsRanges(size, kept)
    OBVIOUS
  <1>18. /\ AsRanges(size', DOMAIN size' \ Listed') = K
         /\ AsRanges(size', Listed') = AsRanges(size', gaps)
    BY <1>9, <1>13, <1>17
  <1>19. Heap!Ends(K) = Ends(kept) /\ Heap!Gaps(K) = AsRanges(size', gaps) /\ K \subseteq Held
    BY <1>14, <1>15, <1>16, <1>17
  <1>20. free' \in SUBSET DOMAIN size' /\ head' = Highest(gaps) /\ top' = end
    BY <1>1, <1>6
  <1>21. IsList(Listed', head', next', ord)
    BY <1>9, <1>11, <1>20
  <1>22. /\ K \subseteq Held
         /\ AsRanges(size', Listed') = Heap!Gaps(K)
         /\ top' \in Heap!Ends(K) /\ \A e \in Heap!Ends(K) : e <= top'
    BY <1>4, <1>18, <1>19, <1>20
  <1>23. missSize' = 0 /\ searchSize' = 0
    BY <1>1
  <1> QED
    BY <1>3, <1>5, <1>7, <1>8, <1>12, <1>18, <1>20, <1>21, <1>22, <1>23

\* A sweep is a collection of the ranges.
LEMMA SweepCollects ==
  ASSUME HeapInv, NEW kept \in SUBSET (DOMAIN size \ free), SweepTo(kept), HeapTypes'
  PROVE  Moves
PROOF
  <1>1. /\ Private(size', free', batch')
        /\ AsRanges(size', DOMAIN size' \ Listed') \subseteq Held
        /\ AsRanges(size', Listed') = Heap!Gaps(AsRanges(size', DOMAIN size' \ Listed'))
        /\ top' \in Heap!Ends(AsRanges(size', DOMAIN size' \ Listed'))
        /\ \A e \in Heap!Ends(AsRanges(size', DOMAIN size' \ Listed')) : e <= top'
    BY Sweeps
  <1>2. Held' = AsRanges(size', DOMAIN size' \ Listed') /\ Spare' = AsRanges(size', Listed')
    BY <1>1, HeldIsNext
  <1>3. Held' \subseteq Held /\ Spare' = Heap!Gaps(Held') /\ top' \in Heap!Ends(Held')
        /\ \A e \in Heap!Ends(Held') : e <= top'
    BY <1>1, <1>2
  <1>4. Heap!Collect
    BY <1>3 DEF Heap!Collect, Held, Spare
  <1> QED
    BY <1>4 DEF Moves, Heap!RangeNext

\* A collection leaves a list in order and no memory of searches.
LEMMA CollectStep ==
  ASSUME HeapInv, Collect
  PROVE  HeapInv' /\ Moves
PROOF
  <1>1. PICK kept \in SUBSET (DOMAIN size \ free) : SweepTo(kept)
    BY DEF Collect
  <1>2. call' = call /\ call.at = "idle" /\ searchPrev' = searchPrev
    BY DEF Collect
  <1>3. /\ Tiles(size', top') /\ top' <= ReserveEnd /\ free' \in SUBSET DOMAIN size'
        /\ next' \in [Addresses -> Nat] /\ head' \in Nat /\ missSize' = 0 /\ searchSize' = 0
        /\ batch' \in [Threads -> BatchType]
        /\ Private(size', free', batch')
        /\ \E ord : IsList(Listed', head', next', ord)
    BY <1>1, Sweeps
  <1>4. HeapTypes'
    BY <1>2, <1>3 DEF HeapInv, HeapTypes, CallType
  <1>5. PICK ord : IsList(Listed', head', next', ord)
    BY <1>3
  <1>6. ListOK(ord)'
    BY <1>2, <1>3, <1>5 DEF ListOK, Cached, IsList, First
  <1>7. MissOK'
    BY <1>3 DEF MissOK
  <1> QED
    BY <1>1, <1>3, <1>4, <1>6, <1>7, SweepCollects DEF HeapInv

\* The search after an emergency collection begins at the new head.
LEMMA EmergencyStep ==
  ASSUME HeapInv, Emergency
  PROVE  HeapInv' /\ Moves
PROOF
  <1>1. PICK ord : ListOK(ord)
    BY DEF HeapInv
  <1>2. /\ call \in SearchCall /\ call.at = "search" /\ call.block = 0 /\ searchPrev' = searchPrev
        /\ \A c \in Listed : size[c] < call.need
        /\ call.need \in Nat \ {0}
    <2>1. call \in SearchCall /\ call.at = "search" /\ call.block = 0 /\ searchPrev' = searchPrev
      BY DEF Emergency, HeapInv, HeapTypes, CallType
    <2>2. \A c \in Listed : size[c] < call.need
      BY <1>1, <2>1, BlocksAre DEF ListOK, Reached, HeapInv
    <2>3. call.need \in Nat \ {0}
      BY <2>1, SizesArePositive DEF SearchCall
    <2> QED
      BY <2>1, <2>2, <2>3
  <1>3. CASE call.tried
    <2>1. /\ call' = [at |-> "exit"] /\ missSize' = RememberMiss(call.need)
          /\ UNCHANGED <<top, size, free, next, head, searchSize, searchPrev, batch>>
      BY <1>3 DEF Emergency
    <2>2. Listed' = Listed
      BY <2>1 DEF Listed, TailsOf
    <2>3. ListOK(ord)'
      BY <1>1, <2>1, <2>2 DEF ListOK, Cached, IsList, First
    <2>4. MissOK'
      <3>1. \A c \in Listed : size[c] < RememberMiss(call.need)
        BY <1>2 DEF RememberMiss, MissOK, HeapInv
      <3> QED
        BY <2>1, <2>2, <3>1 DEF MissOK
    <2>5. HeapTypes'
      <3>1. missSize' \in Nat
        BY <1>2, <2>1 DEF RememberMiss, HeapInv, HeapTypes
      <3> QED
        BY <2>1, <3>1 DEF HeapInv, HeapTypes, CallType
    <2>6. Private(size', free', batch') /\ Moves
      BY <2>1, StutterMoves DEF HeapInv
    <2> QED
      BY <2>3, <2>4, <2>5, <2>6 DEF HeapInv
  <1>4. CASE ~ call.tried
    <2>1. PICK kept \in SUBSET (DOMAIN size \ free) : SweepTo(kept)
      BY <1>4 DEF Emergency
    <2>2. call' = Searching(call.by, call.need, call.object, TRUE, head')
      BY <1>4 DEF Emergency
    <2>3. /\ Tiles(size', top') /\ top' <= ReserveEnd /\ free' \in SUBSET DOMAIN size'
          /\ next' \in [Addresses -> Nat] /\ head' \in Nat /\ missSize' = 0 /\ searchSize' = 0
          /\ batch' \in [Threads -> BatchType] /\ \A t \in Threads : batch'[t].cursor = 0
          /\ Private(size', free', batch')
          /\ \E o : IsList(Listed', head', next', o)
      BY <2>1, Sweeps
    <2>4. CallType'
      <3>1. call' \in SearchCall /\ call'.by = call.by /\ call'.need = call.need /\ call'.object = call.object
            /\ call'.at = "search"
        BY <1>2, <2>2, <2>3 DEF SearchCall, Searching
      <3>2. call.by # Nobody => call.object \in Objects /\ call.need = BatchSize /\ call.by \in Threads
        BY <1>2 DEF HeapInv, HeapTypes, CallType, SearchCall
      <3> QED
        BY <2>3, <3>1, <3>2 DEF CallType
    <2>5. HeapTypes'
      BY <1>2, <2>3, <2>4 DEF HeapInv, HeapTypes
    <2>6. PICK o : IsList(Listed', head', next', o)
      BY <2>3
    <2>7. Reached(o)'
      <3>1. call'.block = head' /\ call'.prev = 0
        BY <2>2 DEF Searching
      <3>2. o \in [Nat -> Int] /\ Listed' \subseteq Nat /\ First(head', Listed', o)
        BY <2>6 DEF IsList
      <3>3. CASE head' = 0 /\ Listed' = {}
        BY <3>1, <3>3 DEF Reached
      <3>4. CASE head' \in Listed' /\ \A c \in Listed' : o[head'] <= o[c]
        <4>1. \A c \in Listed' : ~ (o[c] < o[head'])
          BY <3>2, <3>4
        <4> QED
          BY <3>1, <3>4, <4>1 DEF Reached
      <3> QED
        BY <3>2, <3>3, <3>4 DEF First
    <2>8. ListOK(o)'
      <3>1. IsList(Listed, head, next, o)' /\ Cached(o)'
        BY <2>3, <2>6 DEF Cached, IsList, First
      <3> QED
        BY <2>7, <3>1 DEF ListOK
    <2>9. MissOK'
      BY <2>3 DEF MissOK
    <2> QED
      BY <2>1, <2>3, <2>5, <2>8, <2>9, SweepCollects DEF HeapInv
  <1> QED
    BY <1>3, <1>4

\* Steps that leave the heap alone.
LEMMA StutterStep ==
  ASSUME HeapInv, UNCHANGED heapVars
  PROVE  HeapInv' /\ Moves
PROOF
  <1>1. UNCHANGED <<threaded, top, size, free, next, head, missSize, searchSize, searchPrev, batch, call>>
    BY DEF heapVars
  <1>2. Listed' = Listed
    BY <1>1 DEF Listed, TailsOf
  <1>3. MissOK' /\ \E o : ListOK(o)'
    BY <1>1, <1>2, ListFrame DEF HeapInv
  <1>4. CallType'
    BY <1>1 DEF HeapInv, HeapTypes, CallType
  <1>5. HeapTypes' /\ Private(size', free', batch')
    BY <1>1, <1>4 DEF HeapInv, HeapTypes
  <1> QED
    BY <1>1, <1>3, <1>5, StutterMoves DEF HeapInv

\* The heap is empty at first.
LEMMA HeapStarts ==
  ASSUME HeapInit
  PROVE  HeapInv /\ Heap!RangeInit
PROOF
  <1>1. /\ top = 1 /\ size = [b \in {} |-> 0] /\ free = {} /\ next = [a \in Addresses |-> 0] /\ head = 0
        /\ missSize = 0 /\ searchSize = 0 /\ searchPrev = 0
        /\ batch = [t \in Threads |-> NoBatch] /\ call = Idle
    BY DEF HeapInit
  <1>2. DOMAIN size = {} /\ Tiles(size, top)
    BY <1>1 DEF Tiles
  <1>3. batch \in [Threads -> BatchType] /\ \A t \in Threads : ~ (batch[t].cursor < batch[t].end)
    BY <1>1 DEF NoBatch, BatchType
  <1>4. Private(size, free, batch) /\ TailsOf(batch) = {}
    BY <1>3 DEF Private, TailsOf
  <1>5. Listed = {}
    BY <1>1 DEF Listed
  <1>6. next \in [Addresses -> Nat]
    BY <1>1
  <1>7. HeapTypes
    BY <1>1, <1>2, <1>3, <1>6, SizesArePositive DEF HeapTypes, CallType, Idle
  <1>8. MissOK
    BY <1>1 DEF MissOK
  <1>9. ListOK([a \in Nat |-> a])
    BY <1>1, <1>5 DEF ListOK, IsList, First, Cached, Idle
  <1>10. HeapInv
    BY <1>4, <1>7, <1>8, <1>9 DEF HeapInv
  <1>11. Held = AsRanges(size, {}) /\ Spare = AsRanges(size, {})
    BY <1>2, <1>4, <1>5, <1>7, HeldIs
  <1>12. Held = {} /\ Spare = {}
    BY <1>11 DEF AsRanges
  <1>13. Heap!RangeInit
    BY <1>1, <1>12 DEF Heap!RangeInit, Held, Spare
  <1> QED
    BY <1>10, <1>13

\* Every step of the allocator and the collector keeps the invariant and is a step of the ranges.
LEMMA HeapMoves ==
  ASSUME HeapInv, [HeapNext]_heapVars
  PROVE  HeapInv' /\ Moves
PROOF
  <1>1. CASE UNCHANGED heapVars
    BY <1>1, StutterStep
  <1>2. ASSUME NEW t \in Threads, RetireBatch(t)
        PROVE  HeapInv' /\ Moves
    BY <1>2, RetireTail, RetireNothing
  <1>3. ASSUME NEW t \in Threads, NEW n \in Objects, AllocFromBatch(t, n)
        PROVE  HeapInv' /\ Moves
    BY <1>3, AllocFromBatchStep
  <1>4. ASSUME NEW t \in Threads, NEW n \in Objects, RefillBatch(t, n)
        PROVE  HeapInv' /\ Moves
    BY <1>4, RefillBatchStep
  <1>5. ASSUME NEW n \in Sizes, AllocDirect(n)
        PROVE  HeapInv' /\ Moves
    BY <1>5, AllocDirectStep
  <1>6. ASSUME NEW n \in Objects, AllocSingle(n)
        PROVE  HeapInv' /\ Moves
    BY <1>6, AllocSingleStep
  <1>7. CASE Advance
    BY <1>7, AdvanceStep
  <1>8. CASE Found
    BY <1>8, FoundStep
  <1>9. CASE Bump
    BY <1>9, BumpStep
  <1>10. CASE Collect
    BY <1>10, CollectStep
  <1>11. CASE Emergency
    BY <1>11, EmergencyStep
  <1> QED
    BY <1>1, <1>2, <1>3, <1>4, <1>5, <1>6, <1>7, <1>8, <1>9, <1>10, <1>11 DEF HeapNext

\* In every reachable state the blocks tile the heap, the links make a list of the free ones,
\* each once, and the two caches of the first-fit search are about this list.
THEOREM HeapInvariance == HeapSpec => []HeapInv
PROOF
  <1>1. HeapInit => HeapInv
    BY HeapStarts
  <1>2. HeapInv /\ [HeapNext]_heapVars => HeapInv'
    BY HeapMoves
  <1> QED
    BY <1>1, <1>2, PTL DEF HeapSpec

\* Whatever the caches hold, the allocator hands out free blocks only, grows the heap only when
\* none is large enough, and the sweep gives back exactly the room between what is kept.
THEOREM RangesAreImplemented == HeapSpec => ImplementsRanges
PROOF
  <1>1. HeapInit => Heap!RangeInit
    BY HeapStarts
  <1>2. HeapInv /\ [HeapNext]_heapVars => [Heap!RangeNext]_(Heap!rangeVars)
    BY HeapMoves DEF Moves, Held, Spare, Heap!rangeVars
  <1> QED
    BY <1>1, <1>2, HeapInvariance, PTL DEF HeapSpec, ImplementsRanges, Heap!RangeSpec
=============================================================================
