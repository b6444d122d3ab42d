----------------------------- MODULE MCRunLock -----------------------------
(* RunLock for a few commands, which are interchangeable.                   *)
EXTENDS RunLock, TLC

ProcessSymmetry == Permutations(Process)
=============================================================================
