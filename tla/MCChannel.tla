------------------------------ MODULE MCChannel ------------------------------
(* Channel for TLC: interchangeable threads.                                 *)
EXTENDS Channel, TLC

ThreadSymmetry == Permutations(Threads)
=============================================================================
