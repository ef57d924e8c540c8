---------------------------- MODULE MCProfilePool -----------------------------
(* Instances of ProfilePool for TLC.                                       *)
EXTENDS ProfilePool, TLC

\* Goroutines are interchangeable.
Symmetry == Permutations(Goroutine)
===============================================================================
