------------------------------ MODULE MCWhenAny ------------------------------
(* WhenAny for TLC: waiters and jobs are interchangeable.                    *)
EXTENDS WhenAny, TLC

Symmetry == Permutations(Waiters) \cup Permutations(Jobs)
=============================================================================
