----------------------------- MODULE SnapshotGC -----------------------------
(***************************************************************************)
(* One collection cycle after another of the concurrent collector          *)
(* (--gc-concurrent): fn_gc_concurrent_cycle, emitted by                   *)
(* emit_gc_collect_function in mlc/codegen/codegen_memory.ml, with the     *)
(* deletion log and the reuse bitmap of mlc/codegen/codegen_concurrent_gc  *)
(* .ml, the allocator they share the heap with, and the compiled programs' *)
(* loads and barriered stores.                                             *)
(*                                                                         *)
(* The heap is a set of blocks of one size: an address below heap_ptr or    *)
(* below the frontier is a member of the set of blocks below it.  What the  *)
(* worker does between fn_gc_world_stop and fn_gc_world_resume is one step, *)
(* taken when no mutator is between a barrier and its store (module         *)
(* Safepoint is about the stop itself); outside a pause the worker marks,   *)
(* scans and sweeps one slot or block at a time while the mutators run.     *)
(***************************************************************************)
EXTENDS Naturals, Sequences, FiniteSets

CONSTANTS
    Cells,          \* blocks of the reserved heap
    Nil,            \* a slot that holds no heap reference
    Slots,          \* reference slots of a block
    Mutators,
    Regs,           \* root slots: globals, frame slots and handoff roots
    MaxContexts,    \* bound: registered thread objects
    SatbCapacity,   \* satb_capacity
    TlabCells       \* blocks of a TLAB batch

ASSUME SizesAssumption == /\ Nil \notin Cells
                          /\ SatbCapacity \in Nat \ {0}
                          /\ TlabCells \in Nat

Values == Cells \cup {Nil}

VARIABLES
    store,     \* what the slots of a block hold
    used,      \* blocks whose header has the free bit clear
    heapPtr,   \* the blocks below heap_ptr: they have a header
    bins,      \* gc_free_bins: blocks the central allocator may hand out
    tlab,      \* per mutator: the rest of its private allocation range
    regs,      \* the root slots
    op,        \* per mutator: the store it has logged and not yet made
    contexts,  \* thread_contexts_head: the weak registry of thread objects
    running,   \* registered contexts whose OS thread has not ended
    pc,        \* the worker
    frontier,  \* the blocks below gc_concurrent_frontier
    reuse,     \* gc_reuse_bits: blocks that were free at the snapshot
    marks,     \* gc_mark_bits
    work,      \* the mark stack
    scan,      \* block being scanned and the slots of it still to read
    satb,      \* gc_satb_active
    log,       \* gc_satb_buffer
    overflow,  \* gc_satb_overflow
    unswept,   \* the blocks still to sweep
    detached,  \* gc_concurrent_free_head: swept, not yet published
    live       \* history: blocks reachable at the snapshot

heap == <<store, used, heapPtr, bins, tlab>>
roots == <<regs, op, contexts, running>>
marking == <<marks, work, scan>>
logging == <<satb, log, overflow>>
cycle == <<frontier, reuse, unswept, detached>>
vars == <<heap, roots, pc, marking, logging, cycle, live>>

NoOp == [obj |-> Nil, slot |-> Nil, val |-> Nil]
NoScan == [obj |-> Nil, left |-> {}]

\* S with everything the slots in f of its members lead to, for the least such set.
Closed(S, f) == \A c \in S, s \in Slots : f[c][s] # Nil => f[c][s] \in S
Closure(R, f) ==
    {c \in Cells : \A S \in SUBSET Cells : R \subseteq S /\ Closed(S, f) => c \in S}

\* What the collector takes for roots: root slots and running threads.
Roots == ({regs[r] : r \in Regs} \cup running) \ {Nil}

\* What the program can reach: a thread about to store still has both references.
Reachable == Closure((Roots \cup UNION {{op[m].obj, op[m].val} : m \in Mutators}) \ {Nil}, store)

Init ==
    /\ store = [c \in Cells |-> [s \in Slots |-> Nil]]
    /\ used = {} /\ heapPtr = {} /\ bins = {}
    /\ tlab = [m \in Mutators |-> {}]
    /\ regs = [r \in Regs |-> Nil]
    /\ op = [m \in Mutators |-> NoOp]
    /\ contexts = {} /\ running = {}
    /\ pc = "wait"
    /\ frontier = {} /\ reuse = {}
    /\ marks = {} /\ work = {} /\ scan = NoScan
    /\ satb = FALSE /\ log = <<>> /\ overflow = FALSE
    /\ unswept = {} /\ detached = {}
    /\ live = {}

-----------------------------------------------------------------------------
(* Compiled code                                                           *)

Managed(m) == op[m] = NoOp

\* Any mutator may use any root slot: a frame slot is one the others leave alone.
Load(m) ==
    /\ Managed(m)
    /\ \E r, q \in Regs, s \in Slots :
        /\ regs[r] # Nil
        /\ regs' = [regs EXCEPT ![q] = store[regs[r]][s]]
    /\ UNCHANGED <<heap, op, contexts, running, pc, marking, logging, cycle, live>>

Move(m) ==
    /\ Managed(m)
    /\ \E q \in Regs, v \in {Nil} \cup {regs[r] : r \in Regs} : regs' = [regs EXCEPT ![q] = v]
    /\ UNCHANGED <<heap, op, contexts, running, pc, marking, logging, cycle, live>>

\* fn_gc_satb_record.
ToLog(v) == satb /\ v \in frontier /\ v \notin reuse /\ v \notin marks

Record(v) ==
    IF ToLog(v)
    THEN IF Len(log) < SatbCapacity
         THEN log' = Append(log, v) /\ UNCHANGED <<satb, overflow>>
         ELSE overflow' = TRUE /\ UNCHANGED <<satb, log>>
    ELSE UNCHANGED logging

\* Mutant: the reference stored is logged in place of the one overwritten.
LogStored(m) ==
    /\ Managed(m)
    /\ \E r \in Regs, s \in Slots, v \in {Nil} \cup {regs[q] : q \in Regs} :
        /\ regs[r] # Nil
        /\ Record(v)
        /\ op' = [op EXCEPT ![m] = [obj |-> regs[r], slot |-> s, val |-> v]]
    /\ UNCHANGED <<heap, regs, contexts, running, pc, marking, cycle, live>>

\* emit_gc_write_barrier: the overwritten reference is logged, then, with no
\* safepoint between, the store is made.
LogStore(m) ==
    /\ Managed(m)
    /\ \E r \in Regs, s \in Slots, v \in {Nil} \cup {regs[q] : q \in Regs} :
        /\ regs[r] # Nil
        /\ Record(store[regs[r]][s])
        /\ op' = [op EXCEPT ![m] = [obj |-> regs[r], slot |-> s, val |-> v]]
    /\ UNCHANGED <<heap, regs, contexts, running, pc, marking, cycle, live>>

Store(m) ==
    /\ ~Managed(m)
    /\ store' = [store EXCEPT ![op[m].obj][op[m].slot] = op[m].val]
    /\ op' = [op EXCEPT ![m] = NoOp]
    /\ UNCHANGED <<used, heapPtr, bins, tlab, regs, contexts, running, pc,
                   marking, logging, cycle, live>>

-----------------------------------------------------------------------------
(* fn_alloc                                                                *)

\* Block c becomes an object held in a root of m, a thread object perhaps.
Create(m, c) ==
    /\ used' = used \cup {c}
    /\ store' = [store EXCEPT ![c] = [s \in Slots |-> Nil]]
    /\ \E q \in Regs : regs' = [regs EXCEPT ![q] = c]
    /\ \/ /\ Cardinality(contexts) < MaxContexts
          /\ contexts' = contexts \cup {c} /\ running' = running \cup {c}
       \/ UNCHANGED <<contexts, running>>
    /\ UNCHANGED <<op, pc, marking, logging, cycle, live>>

AllocPrivate(m) ==
    /\ Managed(m)
    /\ \E c \in tlab[m] : /\ tlab' = [tlab EXCEPT ![m] = @ \ {c}]
                          /\ Create(m, c)
    /\ UNCHANGED <<heapPtr, bins>>

AllocCentral(m) ==
    /\ Managed(m)
    /\ \/ \E c \in bins : bins' = bins \ {c} /\ UNCHANGED heapPtr /\ Create(m, c)
       \/ \E c \in Cells \ heapPtr :
            heapPtr' = heapPtr \cup {c} /\ UNCHANGED bins /\ Create(m, c)
    /\ UNCHANGED tlab

\* tlab_retire_internal: the rest of the TLAB goes back to the central bins.
Retire(m) ==
    /\ Managed(m) /\ tlab[m] # {}
    /\ bins' = bins \cup tlab[m]
    /\ tlab' = [tlab EXCEPT ![m] = {}]
    /\ UNCHANGED <<store, used, heapPtr, roots, pc, marking, logging, cycle, live>>

\* A batch from the bins or from above heap_ptr is the new TLAB.
Refill(m) ==
    /\ Managed(m) /\ tlab[m] = {}
    /\ \E b \in SUBSET Cells :
        /\ b # {} /\ Cardinality(b) <= TlabCells
        /\ \/ b \subseteq bins /\ bins' = bins \ b /\ UNCHANGED heapPtr
           \/ b \cap heapPtr = {} /\ heapPtr' = heapPtr \cup b /\ UNCHANGED bins
        /\ tlab' = [tlab EXCEPT ![m] = b]
    /\ UNCHANGED <<store, used, roots, pc, marking, logging, cycle, live>>

\* An OS thread ends: its context is weak from here on.
ThreadEnds ==
    /\ \E c \in running : running' = running \ {c}
    /\ UNCHANGED <<heap, regs, op, contexts, pc, marking, logging, cycle, live>>

-----------------------------------------------------------------------------
(* fn_gc_concurrent_cycle                                                   *)

Paused == \A m \in Mutators : Managed(m)

\* The blocks L_MARK_VALUE accepts: below the frontier, not excluded, not free.
Old == (used \cap frontier) \ reuse

Mark(vs) ==
    /\ marks' = marks \cup (vs \cap Old)
    /\ work' = work \cup ((vs \cap Old) \ marks)

\* Mutant: the marks of the last cycle are still there.
SnapshotStale ==
    /\ pc = "wait" /\ Paused
    /\ pc' = "mark"
    /\ frontier' = heapPtr
    /\ \/ reuse' = bins /\ UNCHANGED bins
       \/ reuse' = {} /\ bins' = {}
    /\ tlab' = [m \in Mutators |-> {}]
    /\ LET r == used \cap heapPtr \cap Roots IN marks' = marks \cup r /\ work' = r
    /\ satb' = TRUE /\ log' = <<>> /\ overflow' = FALSE
    /\ live' = Reachable
    /\ UNCHANGED <<store, used, heapPtr, roots, scan, unswept, detached>>

\* Mutant: the TLABs are left to their threads.
SnapshotKeepsTlabs ==
    /\ pc = "wait" /\ Paused
    /\ pc' = "mark"
    /\ frontier' = heapPtr
    /\ \/ reuse' = bins /\ UNCHANGED bins
       \/ reuse' = {} /\ bins' = {}
    /\ LET r == used \cap heapPtr \cap Roots IN marks' = r /\ work' = r
    /\ satb' = TRUE /\ log' = <<>> /\ overflow' = FALSE
    /\ live' = Reachable
    /\ UNCHANGED <<store, used, heapPtr, tlab, roots, scan, unswept, detached>>

\* First pause.  fn_gc_reuse_snapshot protects what is in the bins, or, without
\* memory for its bitmap, empties them; every TLAB is revoked.
Snapshot ==
    /\ pc = "wait" /\ Paused
    /\ pc' = "mark"
    /\ frontier' = heapPtr
    /\ \/ reuse' = bins /\ UNCHANGED bins
       \/ reuse' = {} /\ bins' = {}
    /\ tlab' = [m \in Mutators |-> {}]
    /\ LET r == used \cap heapPtr \cap Roots IN marks' = r /\ work' = r
    /\ satb' = TRUE /\ log' = <<>> /\ overflow' = FALSE
    /\ live' = Reachable
    /\ UNCHANGED <<store, used, heapPtr, roots, scan, unswept, detached>>

\* A logged reference is popped and marked.
Drain ==
    /\ pc = "mark" /\ ~overflow /\ scan = NoScan
    /\ log # <<>>
    /\ log' = SubSeq(log, 1, Len(log) - 1)
    /\ Mark({log[Len(log)]})
    /\ UNCHANGED <<heap, roots, pc, scan, satb, overflow, cycle, live>>

\* The log was empty when it was looked at; it may have grown since.
Pick ==
    /\ pc = "mark" /\ ~overflow /\ scan = NoScan
    /\ \E c \in work : work' = work \ {c} /\ scan' = [obj |-> c, left |-> Slots]
    /\ UNCHANGED <<heap, roots, pc, marks, logging, cycle, live>>

ScanSlot ==
    /\ pc = "mark" /\ scan # NoScan
    /\ \E s \in scan.left :
        /\ Mark({store[scan.obj][s]})
        /\ scan' = IF scan.left = {s} THEN NoScan ELSE [scan EXCEPT !.left = @ \ {s}]
    /\ UNCHANGED <<heap, roots, pc, logging, cycle, live>>

\* Mutant: the mark bit alone decides.
UnmarkedContexts == contexts \ marks

\* Registered contexts the sweep would free: a context made since the snapshot,
\* beyond the frontier or in a reused block, is alive whatever its mark bit says.
DeadContexts == (contexts \cap frontier) \ (reuse \cup marks)

\* The slots of what was garbage at the snapshot: nobody stores there.
Garbage == [c \in Cells |-> [s \in Slots |-> IF c \in live THEN Nil ELSE store[c][s]]]

\* The weak registry is reaped.  A native handle that cannot be closed keeps its
\* thread object: marking starts again from it.
Reap ==
    \/ /\ contexts' = contexts \ DeadContexts
       /\ pc' = "sweep" /\ unswept' = frontier /\ satb' = FALSE
       /\ UNCHANGED <<marks, work, live>>
    \/ \E S \in SUBSET DeadContexts : \E d \in DeadContexts \ S :
       /\ contexts' = contexts \ S
       /\ Mark({d})
       /\ satb' = TRUE
       /\ live' = live \cup Closure({d}, Garbage)
       /\ UNCHANGED <<pc, unswept>>

\* Mutant: marking ends when the worklist is empty, whatever the log holds.
RemarkUnlogged ==
    /\ pc = "mark" /\ ~overflow /\ scan = NoScan /\ work = {}
    /\ Paused
    /\ Reap
    /\ UNCHANGED <<heap, regs, op, running, scan, log, overflow, frontier,
                   reuse, detached>>

\* The pause that ends marking, with nothing logged; if something was, the worker
\* resumes the world and marks on.
Remark ==
    /\ pc = "mark" /\ ~overflow /\ scan = NoScan /\ work = {} /\ log = <<>>
    /\ Paused
    /\ Reap
    /\ UNCHANGED <<heap, regs, op, running, scan, log, overflow, frontier,
                   reuse, detached>>

\* The log has overflown: tracing is given up.
RemarkOverflow ==
    /\ pc = "mark" /\ overflow /\ scan = NoScan
    /\ Paused
    /\ pc' = "retain" /\ satb' = FALSE
    /\ UNCHANGED <<heap, roots, marking, log, overflow, cycle, live>>

\* Every allocated block of the snapshot is retained.
Retain ==
    /\ pc = "retain"
    /\ pc' = "reap"
    /\ marks' = marks \cup Old
    /\ UNCHANGED <<heap, roots, work, scan, logging, cycle, live>>

ReapRetained ==
    /\ pc = "reap" /\ Paused
    /\ contexts' = contexts \ DeadContexts
    /\ pc' = "sweep" /\ unswept' = frontier
    /\ UNCHANGED <<heap, regs, op, running, marking, logging, frontier,
                   reuse, detached, live>>

Sweep ==
    /\ pc = "sweep"
    /\ \E c \in unswept :
        /\ unswept' = unswept \ {c}
        /\ IF c \in reuse \cup marks
           THEN UNCHANGED <<store, used, detached>>
           ELSE /\ used' = used \ {c}
                /\ detached' = detached \cup {c}
                /\ store' = [store EXCEPT ![c] = [s \in Slots |-> Nil]]
    /\ UNCHANGED <<heapPtr, bins, tlab, roots, pc, marking, logging, frontier, reuse, live>>

\* The last pause: fn_gc_free_merge.
Publish ==
    /\ pc = "sweep" /\ unswept = {} /\ Paused
    /\ bins' = bins \cup detached
    /\ detached' = {}
    /\ pc' = "wait"
    /\ UNCHANGED <<store, used, heapPtr, tlab, roots, marking, logging, frontier, reuse,
                   unswept, live>>

Mutator(m) ==
    \/ Load(m) \/ Move(m) \/ LogStore(m) \/ Store(m)
    \/ AllocPrivate(m) \/ AllocCentral(m) \/ Retire(m) \/ Refill(m)

Worker ==
    \/ Snapshot \/ Drain \/ Pick \/ ScanSlot \/ Remark \/ RemarkOverflow
    \/ Retain \/ ReapRetained \/ Sweep \/ Publish

Next == Worker \/ ThreadEnds \/ \E m \in Mutators : Mutator(m)

Spec == Init /\ [][Next]_vars

-----------------------------------------------------------------------------
\* Types; the deletion log never grows past its buffer.
TypeOK ==
    /\ store \in [Cells -> [Slots -> Values]]
    /\ heapPtr \subseteq Cells /\ used \subseteq heapPtr /\ bins \subseteq heapPtr
    /\ tlab \in [Mutators -> SUBSET heapPtr]
    /\ regs \in [Regs -> Values]
    /\ op \in [Mutators -> [obj : Cells, slot : Slots, val : Values] \cup {NoOp}]
    /\ contexts \subseteq Cells /\ running \subseteq Cells
    /\ pc \in {"wait", "mark", "retain", "reap", "sweep"}
    /\ frontier \subseteq heapPtr
    /\ reuse \subseteq Cells /\ marks \subseteq Cells /\ work \subseteq Cells
    /\ scan \in [obj : Cells, left : SUBSET Slots] \cup {NoScan}
    /\ satb \in BOOLEAN /\ overflow \in BOOLEAN
    /\ log \in Seq(Cells) /\ Len(log) <= SatbCapacity
    /\ unswept \subseteq frontier
    /\ detached \subseteq Cells
    /\ live \subseteq Cells

\* A block the program can reach is never freed, however its stores raced with
\* the marking, with each other and with the end of the marking.
NothingLost == Reachable \subseteq used

\* No block is in two hands: an object, free in the bins, in one thread's TLAB, or
\* in the worker's private list.
BlocksHaveOneOwner ==
    /\ bins \cap (used \cup detached) = {} /\ used \cap detached = {}
    /\ \A m \in Mutators :
        /\ tlab[m] \cap (bins \cup used \cup detached) = {}
        /\ \A n \in Mutators \ {m} : tlab[m] \cap tlab[n] = {}

\* The weak registry names thread objects that exist, and every thread that runs.
RegistrySound == running \subseteq contexts /\ contexts \subseteq used

\* A cycle whose log did not overflow sweeps what was garbage at its snapshot, and
\* nothing else: what it retains is what was reachable then (with thread objects
\* whose handle could not be closed).
SnapshotExact ==
    pc = "sweep" /\ ~overflow => marks = live

=============================================================================
