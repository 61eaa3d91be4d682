------------------------------ MODULE TaskPool ------------------------------
(***************************************************************************)
(* The task lifecycle of core/task.py.  A task is one JSON record; every   *)
(* public operation of TaskPool runs under the pool's lock file, so it is  *)
(* one atomic step here (PoolStore models what happens below that lock).   *)
(* What is NOT under the lock is the caller's Task object: load_task and   *)
(* list_tasks read without it, and update_task and move_task write back a  *)
(* whole object that may be arbitrarily old.  copy[c][t] is that object.   *)
(*                                                                         *)
(* Claims are uuid4 values in the code.  Only equality and issue order     *)
(* matter, so a claim is its issue number and 0 is the empty string.       *)
(* lease_owner is set and cleared together with claim_id everywhere, so a  *)
(* claim stands for its owner as well.  execution_gate (a verdict on the   *)
(* task's envelope) may refuse any step to "active": a refused operation   *)
(* leaves the record alone, so it is the step not taken.                   *)
(***************************************************************************)
EXTENDS Integers, FiniteSets

CONSTANTS
    Tasks,        \* task ids
    Clients,      \* callers of the pool that hold Task objects
    Deps,         \* Deps[t] = depends_on of t
    Idle,         \* tasks nobody referenced for 30 days (days_since_reference)
    MoveTargets,  \* statuses callers pass to move_task
    EditTargets,  \* statuses callers write into a Task object before update_task
    BlockTypes,   \* block types callers pass to block_task
    FailTypes,    \* failure types callers pass to fail_task
    Terms,        \* lease lengths, in ticks
    RetryLimit,   \* attempts before a retryable failure is final (3)
    MaxTime,      \* bound on the clock
    MaxClaims,    \* bound on claims issued
    MaxRetries    \* bound on retry_count

Statuses == {"pending", "active", "blocked", "review", "approved",
             "archived", "rejected", "graveyard"}

AllowedTransitions ==
    [ pending   |-> {"active", "blocked", "rejected", "graveyard"},
      active    |-> {"pending", "blocked", "review", "rejected", "graveyard"},
      blocked   |-> {"pending", "rejected", "graveyard"},
      review    |-> {"pending", "active", "approved", "blocked", "rejected", "graveyard"},
      approved  |-> {"archived", "rejected"},
      rejected  |-> {"graveyard"},
      archived  |-> {},
      graveyard |-> {} ]

AllBlockTypes == {"dependency_blocked", "external_condition_blocked", "manual_gate_blocked"}
AllFailTypes == {"retryable", "permanent", "manual_gate", "external_condition"}

ASSUME TermsAssumption == Terms \subseteq Nat \ {0}
ASSUME TargetsAssumption == MoveTargets \subseteq Statuses /\ EditTargets \subseteq Statuses
ASSUME TypesAssumption == BlockTypes \subseteq AllBlockTypes /\ FailTypes \subseteq AllFailTypes
ASSUME DepsAssumption == Deps \in [Tasks -> SUBSET Tasks]
ASSUME BoundsAssumption == RetryLimit \in Nat /\ MaxRetries \in Nat /\ MaxTime \in Nat /\ MaxClaims \in Nat

VARIABLES
    store,   \* store[t]: the record load_task(t) returns, or Absent
    copy,    \* copy[c][t]: the Task object of t that client c holds, or Absent
    sweep,   \* sweep[t]: what the daemon's housekeeping decided about t and has not done yet
    now,     \* the wall clock
    issued,  \* number of claim ids generated so far
    newest   \* newest[t]: the claim issued last for t (history; nothing reads it)

vars == <<store, copy, sweep, now, issued, newest>>

NoClaim == 0
Absent == [status |-> "absent"]

Record ==
    [ status : Statuses, claim : Nat, token : Nat, lease : Nat,
      retry : Nat, retryAt : Nat, block : AllBlockTypes \cup {"none"},
      final : BOOLEAN,   \* outputs["terminal_non_convergent"]
      result : Nat ]     \* the claim under which the stored result was produced

NewTask ==
    [ status |-> "pending", claim |-> NoClaim, token |-> 0, lease |-> 0, retry |-> 0,
      retryAt |-> 0, block |-> "none", final |-> FALSE, result |-> NoClaim ]

Known(t) == store[t] # Absent
Holds(c, t) == copy[c][t] # Absent

Live(r) == r.status = "active" /\ r.claim # NoClaim /\ r.lease > now
ExpiredAnyActive(r) == r.status = "active"  \* mutant: the expiry is not compared
Expired(r) == r.status = "active" /\ r.lease <= now

FenceOnToken(stored, claim, token) == stored.claim = NoClaim \/ token = stored.token  \* mutant: claim ignored
FenceOpen(stored, claim, token) == TRUE                                           \* mutant: no fence

\* The fence of update_task and move_task: it binds only while the record is claimed.
FencePasses(stored, claim, token) ==
    stored.claim = NoClaim \/ (claim = stored.claim /\ token = stored.token)

Reachable(from, to) == from = to \/ to \in AllowedTransitions[from]

ClearLease(r) == [r EXCEPT !.claim = NoClaim, !.lease = 0]

NewLease(r, term) ==
    [r EXCEPT !.status = "active", !.claim = issued + 1, !.token = r.token + 1, !.lease = now + term]

Save(t, r) == store' = [store EXCEPT ![t] = r]
Keep(c, t, r) == copy' = [copy EXCEPT ![c][t] = r]
Issue(t) == issued' = issued + 1 /\ newest' = [newest EXCEPT ![t] = issued + 1]
NoIssue == UNCHANGED <<issued, newest>>
-----------------------------------------------------------------------------
Init ==
    /\ store = [t \in Tasks |-> Absent]
    /\ copy = [c \in Clients |-> [t \in Tasks |-> Absent]]
    /\ sweep = [t \in Tasks |-> "none"]
    /\ now = 0
    /\ issued = 0
    /\ newest = [t \in Tasks |-> NoClaim]

Tick ==
    /\ now < MaxTime
    /\ now' = now + 1
    /\ UNCHANGED <<store, copy, sweep, issued, newest>>

Create(t) ==
    /\ ~Known(t)
    /\ Save(t, NewTask)
    /\ UNCHANGED <<copy, sweep, now, issued, newest>>

\* load_task and list_tasks: no lock, the object is the caller's from here on.
Read(c, t) ==
    /\ Known(t)
    /\ Keep(c, t, store[t])
    /\ UNCHANGED <<store, sweep, now, issued, newest>>

\* A pending task past its backoff, or an active one whose lease ran out.  A
\* takeover of an expired claim is the same write: no release in between.
Claim(c, t, term) ==
    /\ Known(t)
    /\ \/ store[t].status = "pending" /\ store[t].retryAt <= now
       \/ Expired(store[t])
    /\ issued < MaxClaims
    /\ Save(t, NewLease(store[t], term))
    /\ Keep(c, t, NewLease(store[t], term))
    /\ Issue(t)
    /\ UNCHANGED <<sweep, now>>

\* Owner and claim must match; neither the token nor the expiry is looked at.
Renew(c, t, term) ==
    /\ Known(t) /\ Holds(c, t)
    /\ store[t].status = "active"
    /\ copy[c][t].claim # NoClaim
    /\ copy[c][t].claim = store[t].claim
    /\ LET r == [store[t] EXCEPT !.lease = now + term]
       IN Save(t, r) /\ Keep(c, t, r)
    /\ NoIssue
    /\ UNCHANGED <<sweep, now>>

\* update_task: the caller's object replaces the record.  A holder stamps its own
\* work on it; status s is what the caller left in the object, and only the
\* Validator (a review object) sets the non-convergence flag.
Update(c, t, s, flag) ==
    /\ Known(t) /\ Holds(c, t)
    /\ LET stored == store[t]
           mine == copy[c][t]
           r == [mine EXCEPT !.status = s,
                             !.final = mine.final \/ flag,
                             !.result = IF mine.claim # NoClaim THEN mine.claim ELSE mine.result]
       IN /\ s = mine.status \/ s \in EditTargets
          /\ flag => mine.status = "review"
          /\ FencePasses(stored, mine.claim, mine.token)
          /\ s # stored.status /\ "active" \in {s, stored.status} => stored.claim # NoClaim
          /\ Reachable(stored.status, s)
          /\ Save(t, r) /\ Keep(c, t, r)
    /\ NoIssue
    /\ UNCHANGED <<sweep, now>>

\* What move_task checks, for the object obj it was handed (or loaded itself) and
\* the claim the caller presented: its argument, else the object's.
MoveUnchecked(t, s, obj, claim) ==  \* mutant: the transition table is not consulted
    /\ FencePasses(store[t], claim, obj.token)
    /\ store[t].status = "active" /\ s # "active" => store[t].claim # NoClaim

MoveAllowed(t, s, obj, claim) ==
    LET stored == store[t]
    IN /\ FencePasses(stored, claim, obj.token)
       /\ stored.status = "active" /\ s # "active" => stored.claim # NoClaim
       /\ Reachable(stored.status, s)

\* pending -> active without a claim takes the lease itself, on the stored record.
Materialises(t, s, claim) == store[t].status = "pending" /\ s = "active" /\ claim = NoClaim

Moved(t, s, obj) ==
    LET r == [obj EXCEPT !.status = s]
    IN IF s = "active" THEN r ELSE ClearLease(r)

MoveWithLease(t) ==
    /\ store[t].retryAt <= now
    /\ issued < MaxClaims
    /\ \E term \in Terms : Save(t, NewLease(store[t], term))
    /\ Issue(t)

\* The one caller that archives, Archivist.archive_task, passes approved objects only.
ArchivableCopy(c, t) == copy[c][t].status = "approved"

\* move_task(t, s, task=obj): the caller's object is written, status changed, lease cleared.
MoveCopy(c, t, s) ==
    /\ Known(t) /\ Holds(c, t)
    /\ s = "archived" => ArchivableCopy(c, t)
    /\ LET mine == copy[c][t]
       IN /\ MoveAllowed(t, s, mine, mine.claim)
          /\ IF Materialises(t, s, mine.claim)
               THEN MoveWithLease(t)
               ELSE Save(t, Moved(t, s, mine)) /\ NoIssue
    /\ Keep(c, t, store'[t])
    /\ UNCHANGED <<sweep, now>>

\* move_task(t, s, claim_id=k): the stored record is moved, the claim is the only credential.
MoveByClaim(c, t, s) ==
    /\ Known(t) /\ Holds(c, t)
    /\ copy[c][t].claim # NoClaim /\ s # "archived"
    /\ MoveAllowed(t, s, store[t], copy[c][t].claim)
    /\ Save(t, Moved(t, s, store[t]))
    /\ Keep(c, t, store'[t])
    /\ NoIssue
    /\ UNCHANGED <<sweep, now>>

\* Archiving a task whose delivery is declared but has no verified receipt is
\* refused, but the caller's object is written back with the refusal recorded.
ArchiveRefused(c, t) ==
    /\ "archived" \in MoveTargets
    /\ Known(t) /\ Holds(c, t) /\ ArchivableCopy(c, t)
    /\ FencePasses(store[t], copy[c][t].claim, copy[c][t].token)
    /\ store[t].status = "active" => store[t].claim # NoClaim
    /\ Save(t, copy[c][t])
    /\ NoIssue
    /\ UNCHANGED <<copy, sweep, now>>

\* block_task, unblock_task, reopen_task and fail_task load the record themselves
\* and check neither the caller's claim nor AllowedTransitions.
Block(t, b) ==
    /\ Known(t)
    /\ Save(t, ClearLease([store[t] EXCEPT !.status = "blocked", !.block = b]))
    /\ NoIssue
    /\ UNCHANGED <<copy, sweep, now>>

Reopen(t) ==
    /\ Known(t) /\ store[t].status = "blocked"
    /\ Save(t, [store[t] EXCEPT !.status = "pending", !.block = "none", !.final = FALSE])
    /\ NoIssue
    /\ UNCHANGED <<copy, sweep, now>>

Exhausted(r) == r.retry >= RetryLimit

ManualGateName == "manual_gate"           \* mutant: the failure type stored as block type
ManualGate == "manual_gate_blocked"

\* Exponential backoff in the code (min(300, 2^retry)); one tick here.
Failed(r, f) ==
    LET tried == ClearLease([r EXCEPT !.retry = r.retry + 1])
    IN CASE f = "manual_gate" -> [tried EXCEPT !.status = "blocked", !.block = ManualGate]
         [] f = "external_condition" -> [tried EXCEPT !.status = "blocked", !.block = "external_condition_blocked"]
         [] f = "permanent" \/ (f = "retryable" /\ Exhausted(tried)) -> [tried EXCEPT !.status = "graveyard"]
         [] OTHER -> [tried EXCEPT !.status = "pending", !.retryAt = now + 1]

Fail(t, f) ==
    /\ Known(t)
    /\ store[t].retry < MaxRetries
    /\ Save(t, Failed(store[t], f))
    /\ NoIssue
    /\ UNCHANGED <<copy, sweep, now>>

\* One lock acquisition returns every expired (or never leased) active task to the queue.
ReclaimedInPlace(r) == ClearLease(r)  \* mutant: the lease is cleared, the task not moved
Reclaimed(r) == ClearLease([r EXCEPT !.status = "pending"])

ReclaimAtStartup ==  \* mutant: recovery runs once, not every iteration
    /\ now = 0 /\ \E t \in Tasks : Known(t) /\ Expired(store[t])
    /\ store' = [t \in Tasks |-> IF Known(t) /\ Expired(store[t]) THEN Reclaimed(store[t]) ELSE store[t]]
    /\ UNCHANGED <<copy, sweep, now, issued, newest>>

ReclaimStale ==
    /\ \E t \in Tasks : Known(t) /\ Expired(store[t])
    /\ store' = [t \in Tasks |-> IF Known(t) /\ Expired(store[t]) THEN Reclaimed(store[t]) ELSE store[t]]
    /\ NoIssue
    /\ UNCHANGED <<copy, sweep, now>>

\* The daemon's two sweeps decide on records they list without the lock ...
DependsSatisfied(t) ==
    \A d \in Deps[t] : Known(d) /\ store[d].status \in {"approved", "archived"}

PlanUnblockArchived(t) ==  \* mutant: an approved dependency does not count
    /\ sweep[t] = "none" /\ Known(t)
    /\ store[t].status = "blocked" /\ store[t].block = "dependency_blocked"
    /\ \A d \in Deps[t] : Known(d) /\ store[d].status = "archived"
    /\ sweep' = [sweep EXCEPT ![t] = "unblock"]
    /\ UNCHANGED <<store, copy, now, issued, newest>>

PlanUnblock(t) ==
    /\ sweep[t] = "none" /\ Known(t)
    /\ store[t].status = "blocked" /\ store[t].block = "dependency_blocked"
    /\ DependsSatisfied(t)
    /\ sweep' = [sweep EXCEPT ![t] = "unblock"]
    /\ UNCHANGED <<store, copy, now, issued, newest>>

PlanBury(t) ==
    /\ sweep[t] = "none" /\ Known(t) /\ t \in Idle
    /\ store[t].status \in {"pending", "review", "rejected"} \/ Expired(store[t])
    /\ sweep' = [sweep EXCEPT ![t] = "bury"]
    /\ UNCHANGED <<store, copy, now, issued, newest>>

\* ... and act on the record as it is when they get the lock.
Unblockable(t) == store[t].status = "blocked" /\ ~store[t].final

DoUnblock(t) ==
    /\ sweep[t] = "unblock"
    /\ IF Unblockable(t)
         THEN Save(t, [store[t] EXCEPT !.status = "pending", !.block = "none"])
         ELSE UNCHANGED store
    /\ sweep' = [sweep EXCEPT ![t] = "none"]
    /\ UNCHANGED <<copy, now, issued, newest>>

DoBury(t) ==
    /\ sweep[t] = "bury"
    /\ IF MoveAllowed(t, "graveyard", store[t], store[t].claim)
         THEN Save(t, Moved(t, "graveyard", store[t]))
         ELSE UNCHANGED store
    /\ sweep' = [sweep EXCEPT ![t] = "none"]
    /\ UNCHANGED <<copy, now, issued, newest>>

Next ==
    \/ Tick
    \/ ReclaimStale
    \/ \E t \in Tasks :
         \/ Create(t)
         \/ Reopen(t)
         \/ PlanUnblock(t)
         \/ DoUnblock(t)
         \/ PlanBury(t)
         \/ DoBury(t)
         \/ \E b \in BlockTypes : Block(t, b)
         \/ \E f \in FailTypes : Fail(t, f)
         \/ \E c \in Clients :
              \/ Read(c, t)
              \/ ArchiveRefused(c, t)
              \/ \E term \in Terms : Claim(c, t, term) \/ Renew(c, t, term)
              \/ \E s \in Statuses, flag \in BOOLEAN : Update(c, t, s, flag)
              \/ \E s \in MoveTargets : MoveCopy(c, t, s) \/ MoveByClaim(c, t, s)

Spec == Init /\ [][Next]_vars

\* The daemon runs recovery and both sweeps in every lifecycle iteration; nothing
\* makes a client, an operator or a creator act.
FairSpec ==
    /\ Spec
    /\ WF_vars(Tick) /\ WF_vars(ReclaimStale)
    /\ \A t \in Tasks : WF_vars(PlanUnblock(t)) /\ WF_vars(DoUnblock(t)) /\ WF_vars(DoBury(t))
-----------------------------------------------------------------------------
(* Properties. *)

\* A claim, token or result number that has been generated by now.
UpTo(r, n) == r.claim <= n /\ r.token <= n /\ r.result <= n
CredentialsIssued ==
    /\ \A t \in Tasks : newest[t] <= issued /\ (Known(t) => UpTo(store[t], issued))
    /\ \A c \in Clients, t \in Tasks : Holds(c, t) => UpTo(copy[c][t], issued)

\* Every record and every Task object is well formed, and no claim, token or result
\* in them is from the future: each is at most the number of claims issued.
TypeOK ==
    /\ store \in [Tasks -> Record \cup {Absent}]
    /\ copy \in [Clients -> [Tasks -> Record \cup {Absent}]]
    /\ sweep \in [Tasks -> {"none", "unblock", "bury"}]
    /\ \A t \in Tasks : sweep[t] # "none" => Known(t)
    /\ now \in Nat /\ issued \in Nat
    /\ newest \in [Tasks -> Nat]
    /\ CredentialsIssued

\* "Never persist an unowned active task" (move_task): an active record carries a
\* claim and an expiry, whatever stale objects callers write back.
ActiveIsLeased ==
    \A t \in Tasks :
        Known(t) /\ store[t].status = "active" => store[t].claim # NoClaim /\ store[t].lease # 0

\* When no caller edits the status in an object, claims and the active status go
\* together, and the claim is the newest one issued for the task: no write of a
\* stale object brings an older claim back to life.
NewestClaimHoldsTask ==
    \A t \in Tasks :
        Known(t) => IF store[t].status = "active" THEN store[t].claim = newest[t] /\ newest[t] # NoClaim
                                                 ELSE store[t].claim = NoClaim

\* Who holds a task, as a lease service would have it: every lease is granted once, to a new
\* claim, on a free or run-out task, and no stale write moves one or brings one back.
Holding(t) ==
    IF Known(t) /\ store[t].claim # NoClaim
      THEN [holder |-> store[t].claim, until |-> store[t].lease]
      ELSE [holder |-> NoClaim, until |-> 0]
Leases == INSTANCE LeaseService WITH lease <- [t \in Tasks |-> Holding(t)], clock <- now
ImplementsLeaseService == Leases!LeaseSpec

\* Two holders at once: while a lease is live no step hands the task to another
\* claim.  It can only be given up first (a move, a block, a failure).
LiveLeaseNotTaken ==
    [][\A t \in Tasks :
         Known(t) /\ Live(store[t]) => store'[t].claim \in {store[t].claim, NoClaim}]_vars

\* A token is what orders two claims of one task; while a task stays claimed it
\* never goes back, whoever writes.
TokenMonotoneWhileClaimed ==
    [][\A t \in Tasks :
         Known(t) /\ store[t].claim # NoClaim => store'[t].token >= store[t].token]_vars

\* Status changes follow the published transition table, except that a block or a
\* recorded failure (retry + 1) may pull a task out of any status.
TransitionsAreAllowed ==
    [][\A t \in Tasks :
         Known(t) /\ store'[t].status # "blocked" /\ store'[t].retry # store[t].retry + 1
             => Reachable(store[t].status, store'[t].status)]_vars

\* The 30-day sweep keeps an active task whose lease has not expired
\* (test_graveyard_sweep_keeps_active_task_with_unexpired_lease).
SweepSparesLiveLease ==
    [][\A t \in Tasks :
         sweep[t] = "bury" /\ sweep'[t] = "none" /\ Live(store[t]) => store'[t].status # "graveyard"]_vars

\* "stale claim must not overwrite the new owner" (runtime_authority_audit.v1.md): once
\* the newest holder has handed its result in, an older claim's result never replaces it.
LateResultRefused ==
    [][\A t \in Tasks :
         Known(t) /\ store[t].claim = NoClaim => store'[t].result \notin 1 .. (store[t].result - 1)]_vars

\* A dead holder blocks nobody for good: an expired lease is taken over, renewed or
\* returned to the queue.
ExpiredLeaseRecovered ==
    \A t \in Tasks : (Known(t) /\ Expired(store[t])) ~> ~(Known(t) /\ Expired(store[t]))

\* A dependency-blocked task whose dependencies are satisfied does not stay blocked,
\* whatever the burial sweep or a non-convergence flag set meanwhile leaves undone.
Releasable(t) ==
    /\ Known(t) /\ Unblockable(t)
    /\ store[t].block = "dependency_blocked" /\ DependsSatisfied(t)
ReadyDependentReleased == \A t \in Tasks : Releasable(t) ~> ~Releasable(t)
=============================================================================
