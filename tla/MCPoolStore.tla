----------------------------- MODULE MCPoolStore -----------------------------
(* Instances of PoolStore for TLC. *)
EXTENDS PoolStore, TLC

TwoDirs == <<"pending", "active">>
ThreeDirs == <<"pending", "active", "review">>
LaterSymmetry == Permutations(Procs \ Running)
=============================================================================
