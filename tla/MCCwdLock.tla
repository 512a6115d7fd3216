----------------------------- MODULE MCCwdLock -----------------------------
(* Instances of CwdLock for TLC: three Pi processes started in one folder. *)
EXTENDS CwdLock, TLC

CONSTANTS p1, p2, p3

MCProcs == {p1, p2, p3}

\* The processes are interchangeable in the safety-only run.
Symmetry == Permutations(MCProcs)
============================================================================
