------------------------------- MODULE MCHeaps -------------------------------
(* The heaps of the two kinds of programs for TLC: the one that is collected *)
(* concurrently, whose blocks, threads and roots are interchangeable, and    *)
(* the one that is not.  A program has one of them: they share no state.     *)
EXTENDS SnapshotGC, FreeList, TLC

VARIABLE part

HeapsInit ==
  /\ part \in {"concurrent", "synchronous"} /\ Init /\ HeapInit
  /\ part = "concurrent" => threaded

\* A program without memory left ends.
Ended == call.at = "exit" /\ UNCHANGED heapVars

HeapsNext ==
  /\ UNCHANGED part
  /\ \/ part = "concurrent" /\ Next /\ UNCHANGED heapVars
     \/ part = "synchronous" /\ (HeapNext \/ Ended) /\ UNCHANGED vars

HeapsSpec == HeapsInit /\ [][HeapsNext]_<<part, vars, heapVars>>

Symmetry == Permutations(Cells) \cup Permutations(Mutators) \cup Permutations(Regs)
=============================================================================
