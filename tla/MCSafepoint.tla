----------------------------- MODULE MCSafepoint -----------------------------
(* Safepoint for TLC. Workers are interchangeable: nothing but Main is told  *)
(* apart, so the safety run uses their symmetry.                             *)
EXTENDS Safepoint, TLC

Workers == Threads \ {Main}
WorkerSymmetry == Permutations(Workers)
=============================================================================
