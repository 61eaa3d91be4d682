----------------------------- MODULE MCTaskPool -----------------------------
(* Instances of TaskPool for TLC. *)
EXTENDS TaskPool, TLC

CONSTANTS t1, t2

NoDeps == [t \in Tasks |-> {}]
Chain == [t \in Tasks |-> IF t = t1 THEN Tasks \ {t1} ELSE {}]  \* t1 depends on the others

WorkerMoves == {"pending", "review", "blocked"}  \* _TRANSITION_TARGETS of worker_capsule.py

Clients2 == Permutations(Clients)
=============================================================================
