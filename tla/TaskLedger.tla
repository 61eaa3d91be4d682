----------------------------- MODULE TaskLedger -----------------------------
(***************************************************************************)
(* The value ledger of a task (core/task_ledger.py) as core/task.py keeps  *)
(* it.  Rows live inside the task record: whoever writes a task back       *)
(* writes the ledger of the object it holds, however old that is.  One     *)
(* task; the pool's operations are atomic (see TaskPool), and a claim is   *)
(* its issue number.                                                       *)
(*                                                                         *)
(* Counters that only callers change (references, reviews, starvation ...) *)
(* are one counter here, "caller".  A row keeps its kind, the claim its    *)
(* reference names and the counters after it; deltas, actors, reasons,     *)
(* entry ids and times are left out, and the drift rows of one write are   *)
(* one row.                                                                *)
(***************************************************************************)
EXTENDS Integers, Sequences, FiniteSets

CONSTANTS
    Users,        \* processes that use the pool
    Holders,      \* those among them that keep Task objects
    Modes,        \* values of ACE_TASK_LEDGER_MODE that processes run with
    MaxHolds,     \* bound on claims
    MaxFailures,  \* bound on recorded failures
    MaxBumps      \* bound on a counter changed by callers

ASSUME HoldersAssumption == Holders \subseteq Users
ASSUME ModesAssumption == Modes \subseteq {"off", "shadow", "enforce"}
ASSUME LedgerBounds == MaxHolds \in Nat /\ MaxFailures \in Nat /\ MaxBumps \in Nat

VARIABLES
    disk,     \* the task's record
    object,   \* object[h]: the Task object process h holds
    mode,     \* mode[u]: the ledger mode of process u
    issued,   \* number of claims issued
    lapsed,   \* TRUE when the lease on disk has expired
    legacy,   \* TRUE when the record is older than the ledger (history)
    overtaken \* the claims that were taken over after their lease expired (history)

ledgerVars == <<disk, object, mode, issued, lapsed, legacy, overtaken>>

Counters == {"fencing_token", "retry_count", "caller"}
Row(kind, c, after) == [kind |-> kind, claim |-> c, after |-> after]
NoCounters == [n \in {} |-> 0]

\* What the rows say of counter n: the latest row that names it.
Baselined(rows) == UNION {DOMAIN rows[i].after : i \in DOMAIN rows}
Replay(rows, n) ==
    rows[CHOOSE i \in DOMAIN rows :
             /\ n \in DOMAIN rows[i].after
             /\ \A j \in DOMAIN rows : n \in DOMAIN rows[j].after => j <= i].after[n]

Drift(task) == {n \in Baselined(task.rows) : task.count[n] # Replay(task.rows, n)}

Register(task, kind, c, names) ==
    [task EXCEPT !.rows = Append(@, Row(kind, c, [n \in names |-> task.count[n]]))]

\* ensure_baseline: counters the ledger does not know enter with their value on disk.
EnsureBaseline(task) ==
    LET missing == Counters \ Baselined(task.rows)
    IN IF missing = {} THEN task
       ELSE [task EXCEPT !.rows = Append(@, Row("baseline", 0, [n \in missing |-> disk.count[n]]))]

\* _ledger_close: the differences in names become one row.
Close(task, kind, c, names) ==
    IF Drift(task) \cap names = {} THEN task ELSE Register(task, kind, c, Drift(task) \cap names)

RowsOf(task, kinds, c) == {i \in DOMAIN task.rows : task.rows[i].kind \in kinds /\ task.rows[i].claim = c}

NoRelease(task) == [task EXCEPT !.claim = 0]  \* mutant: the lease is cleared without a release row
ClearLeaseOf(task) ==
    LET held == task.claim # 0 /\ Cardinality(RowsOf(task, {"release"}, task.claim))
                                    < Cardinality(RowsOf(task, {"hold"}, task.claim))
    IN [(IF held THEN Register(task, "release", task.claim, {}) ELSE task) EXCEPT !.claim = 0]

TransitionCounters == {}
Transition(task, s) == Close(EnsureBaseline([task EXCEPT !.status = s]), "consume", 0, TransitionCounters)

\* write_port_gate: what the object is after it, and the write.
WarnOnly(u, task) == task  \* mutant: drift is seen, but not recorded
Gated(u, task) == IF mode[u] = "shadow" THEN Close(task, "drift", 0, Counters) ELSE task

PoolWrites(u, task) ==
    disk' = IF mode[u] = "enforce" /\ Drift(task) # {} THEN disk ELSE Gated(u, task)

\* An object in memory has been changed also when its write is refused.
WritesObject(h, task) ==
    /\ PoolWrites(h, task)
    /\ object' = [g \in Holders |-> IF g = h THEN Gated(h, task) ELSE object[g]]

Moves ==
    [pending |-> {"pending"}, active |-> {"pending", "review", "active"},
     review |-> {"pending", "review"}, blocked |-> {"pending", "blocked"}]
-----------------------------------------------------------------------------
Fresh == [status |-> "pending", claim |-> 0, count |-> [n \in Counters |-> 0], rows |-> <<>>]

LedgerInit ==
    /\ legacy \in BOOLEAN
    /\ disk = IF legacy THEN Fresh
              ELSE [Fresh EXCEPT !.rows = <<Row("baseline", 0, Fresh.count)>>]
    /\ object = [h \in Holders |-> disk]
    /\ mode \in [Users -> Modes]
    /\ issued = 0
    /\ lapsed = FALSE
    /\ overtaken = {}

Load(h) ==
    /\ object' = [object EXCEPT ![h] = disk]
    /\ UNCHANGED <<disk, mode, issued, lapsed, legacy, overtaken>>

\* A caller changes a counter of its object, without a row.
BumpCounter(h) ==
    /\ object[h].count["caller"] < MaxBumps
    /\ object' = [object EXCEPT ![h].count["caller"] = @ + 1]
    /\ UNCHANGED <<disk, mode, issued, lapsed, legacy, overtaken>>

Lapse ==
    /\ disk.status = "active" /\ ~lapsed
    /\ lapsed' = TRUE
    /\ UNCHANGED <<disk, object, mode, issued, legacy, overtaken>>

\* claim_task; a takeover of an expired claim releases nothing.
TakeClaim(u) ==
    /\ disk.status = "pending" \/ (disk.status = "active" /\ lapsed)
    /\ issued < MaxHolds
    /\ LET opened == EnsureBaseline(disk)
           leased == [opened EXCEPT !.claim = issued + 1, !.count["fencing_token"] = @ + 1]
       IN WritesObject(u, Transition(Close(leased, "hold", issued + 1, Counters), "active"))
    /\ issued' = issued + 1 /\ lapsed' = FALSE
    /\ overtaken' = overtaken \cup ({disk.claim} \ {0})
    /\ UNCHANGED <<mode, legacy>>

\* fail_task: the failure is counted, the lease released, then the ledger closed.
CountedLate(u, s) ==  \* mutant: the ledger is closed before the failure is counted
    /\ disk.count["retry_count"] < MaxFailures
    /\ LET opened == EnsureBaseline(disk)
           failed == [Close(ClearLeaseOf(opened), "consume", 0, Counters) EXCEPT !.count["retry_count"] = @ + 1]
       IN PoolWrites(u, Transition(failed, s))
    /\ UNCHANGED <<object, mode, issued, lapsed, legacy, overtaken>>

RecordFailure(u, s) ==
    /\ disk.count["retry_count"] < MaxFailures
    /\ LET opened == EnsureBaseline(disk)
           failed == ClearLeaseOf([opened EXCEPT !.count["retry_count"] = @ + 1])
       IN PoolWrites(u, Transition(Close(failed, "consume", 0, Counters), s))
    /\ UNCHANGED <<object, mode, issued, lapsed, legacy, overtaken>>

BlockIt(u) ==
    /\ disk.status # "blocked"
    /\ PoolWrites(u, Transition(ClearLeaseOf(disk), "blocked"))
    /\ UNCHANGED <<object, mode, issued, lapsed, legacy, overtaken>>

UnblockIt(u) ==
    /\ disk.status = "blocked"
    /\ PoolWrites(u, Transition(disk, "pending"))
    /\ UNCHANGED <<object, mode, issued, lapsed, legacy, overtaken>>

ReclaimIt(u) ==
    /\ disk.status = "active" /\ lapsed
    /\ PoolWrites(u, Transition(ClearLeaseOf(disk), "pending"))
    /\ UNCHANGED <<object, mode, issued, lapsed, legacy, overtaken>>

\* The fence and the transition table, for an object written back under status s.
Admits(task, s) ==
    /\ disk.claim = 0 \/ (task.claim = disk.claim /\ task.count["fencing_token"] = disk.count["fencing_token"])
    /\ s # disk.status /\ "active" \in {s, disk.status} => disk.claim # 0
    /\ s \in Moves[disk.status]

WriteBack(h) ==
    /\ Admits(object[h], object[h].status)
    /\ WritesObject(h, Transition(object[h], object[h].status))
    /\ UNCHANGED <<mode, issued, lapsed, legacy, overtaken>>

MoveIt(h, s) ==
    /\ s # "active" /\ Admits(object[h], s)
    /\ WritesObject(h, Transition(ClearLeaseOf(object[h]), s))
    /\ UNCHANGED <<mode, issued, lapsed, legacy, overtaken>>

LedgerNext ==
    \/ Lapse
    \/ \E u \in Users :
         \/ TakeClaim(u)
         \/ BlockIt(u)
         \/ UnblockIt(u)
         \/ ReclaimIt(u)
         \/ \E s \in {"pending", "blocked"} : RecordFailure(u, s)
    \/ \E h \in Holders :
         \/ Load(h)
         \/ BumpCounter(h)
         \/ WriteBack(h)
         \/ \E s \in {"pending", "review"} : MoveIt(h, s)

LedgerSpec == LedgerInit /\ [][LedgerNext]_ledgerVars
-----------------------------------------------------------------------------
(* Properties. *)

Rows == {disk.rows[i] : i \in DOMAIN disk.rows}

\* "The counters on disk must be reproducible by a replay of the ledger" (rule 3 of
\* task_ledger.py): whichever process writes whichever stale object, every counter of a
\* record that has a ledger is what the rows say, as long as no process runs with mode off.
LedgerReconciles ==
    disk.rows # <<>> => Baselined(disk.rows) = Counters /\ Drift(disk) = {}

\* Every value has its rows ("explains why the current value is this number"): a record as
\* old as the ledger has one hold row per fencing token and one consume row per retry, also
\* when a stale object has replaced rows and counters.
ValuesAreExplained ==
    ~legacy =>
        /\ disk.count["fencing_token"] = Cardinality({i \in DOMAIN disk.rows : disk.rows[i].kind = "hold"})
        /\ disk.count["retry_count"] = Cardinality({i \in DOMAIN disk.rows : disk.rows[i].kind = "consume"})

\* "hold: paired with release/refund" (task_ledger.py): a hold row whose claim gave the task
\* up, failed, was blocked or was reclaimed has its release row.  Only the
\* current claim's hold is open, and those of claims that were taken over.
OpenHoldsAreOvertaken ==
    \A row \in Rows :
        row.kind = "hold" /\ RowsOf(disk, {"release"}, row.claim) = {} => row.claim \in overtaken \cup {disk.claim}
=============================================================================
