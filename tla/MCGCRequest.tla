---------------------------- MODULE MCGCRequest -----------------------------
(* GCRequest for TLC: the threads are interchangeable.                       *)
EXTENDS GCRequest, TLC

Symmetry == Permutations(Threads)
=============================================================================
