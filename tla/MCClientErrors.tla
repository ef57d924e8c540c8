----------------------------- MODULE MCClientErrors -----------------------------
(* ClientErrors for TLC: reports are alike, so one order of them stands for   *)
(* all; the run checks invariants only.                                       *)
EXTENDS ClientErrors, TLC

Alike == Permutations(Reporter)
=============================================================================
