-------------------------- MODULE MCThreadLifecycle --------------------------
(* ThreadLifecycle for TLC: the callers are interchangeable.                 *)
EXTENDS ThreadLifecycle, TLC

CallerSymmetry == Permutations(Callers)
=============================================================================
