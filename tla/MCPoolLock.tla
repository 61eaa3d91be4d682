------------------------------ MODULE MCPoolLock ------------------------------
(* Model-checking instances of PoolLock. *)
EXTENDS PoolLock, TLC

ProcSymmetry == Permutations(Procs \ Running) \cup Permutations(Running)
=============================================================================
