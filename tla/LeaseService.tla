---------------------------- MODULE LeaseService ----------------------------
(***************************************************************************)
(* What a task pool promises about who may work on a task: a lease is      *)
(* granted to a claim nobody has ever had, and only while the task is free *)
(* or the lease before it has run out; until it ends it stays with that    *)
(* claim, whoever writes the task; and a lease that has ended is not       *)
(* brought back.  A holder may move the expiry of its lease, either way.   *)
(***************************************************************************)
EXTENDS Integers

CONSTANTS Tasks, NoClaim

VARIABLES
    lease,   \* lease[t]: the claim that holds t, or NoClaim, and until when
    clock,
    issued   \* number of claims granted so far

leaseVars == <<lease, clock, issued>>

Free == [holder |-> NoClaim, until |-> 0]
Held(t) == lease[t].holder # NoClaim
RunOut(t) == Held(t) /\ lease[t].until <= clock

LeaseInit == lease = [t \in Tasks |-> Free] /\ clock = 0 /\ issued = 0

Grant(t) ==
    /\ ~Held(t) \/ RunOut(t)
    /\ issued' = issued + 1
    /\ lease' = [lease EXCEPT ![t] = [holder |-> issued + 1, until |-> lease'[t].until]]
    /\ lease'[t].until > clock
    /\ UNCHANGED clock

Extend(t) ==
    /\ Held(t)
    /\ lease' = [lease EXCEPT ![t].until = lease'[t].until]
    /\ UNCHANGED <<clock, issued>>

Release(t) ==
    /\ lease' = [lease EXCEPT ![t] = Free]
    /\ UNCHANGED <<clock, issued>>

\* Leases nobody renewed end together.
Recover(T) ==
    /\ \A t \in T : RunOut(t)
    /\ lease' = [t \in Tasks |-> IF t \in T THEN Free ELSE lease[t]]
    /\ UNCHANGED <<clock, issued>>

Pass == clock' = clock + 1 /\ UNCHANGED <<lease, issued>>

LeaseNext ==
    \/ Pass
    \/ \E T \in SUBSET Tasks : Recover(T)
    \/ \E t \in Tasks : Grant(t) \/ Extend(t) \/ Release(t)

LeaseSpec == LeaseInit /\ [][LeaseNext]_leaseVars
=============================================================================
