------------------------------ MODULE Selection ------------------------------
(***************************************************************************)
(* Which task the Researcher claims next (Researcher.pick_up_task,         *)
(* core/task_roles.py): one whose lease is over, else by priority and age, *)
(* except that a task reworked again and again yields to tasks nobody has  *)
(* touched, and a medium task that high tasks have pushed aside often      *)
(* enough goes before them.  A cycle of the daemon takes back the leases   *)
(* that are over, makes a few picks, researches each, and reviews.         *)
(*                                                                         *)
(* One daemon: the lifecycle lock keeps others out.  Other processes claim *)
(* tasks between two picks; the tasks listed do not change during one.     *)
(* What research and review find is open.  A rework streak is counted up   *)
(* to its limit, which is all the code compares it with.  Every task       *)
(* claimed by this Researcher is researched or returned before its next    *)
(* pick.                                                                   *)
(***************************************************************************)
EXTENDS Integers, Sequences, FiniteSets

CONSTANTS
    Critical, High, Medium, Low,  \* the tasks of each priority
    Admitted,     \* tasks admitted to models (_is_admitted_model_task)
    Delivering,   \* tasks that declare a deliverable
    Migrated,     \* tasks whose first review may end in rework without a hard objection
    Recurring,    \* tasks that, once settled, stand for new tasks of their kind
    Shared,       \* tasks that other processes claim too
    Unready,      \* tasks that the execution gate refuses
    Filed,        \* those filed before the first cycle, in that order
    PicksPerCycle,
    RetryLimit,   \* the failure that sends a task to the graveyard
    ReworkLimit,  \* FAIRNESS_REWORK_LIMIT
    AgeLimit      \* FAIRNESS_MEDIUM_AGE_LIMIT

Wanted == Critical \cup High \cup Medium \cup Low

ASSUME SelectionAssumption ==
    /\ Admitted \cup Delivering \cup Migrated \cup Recurring \cup Shared \cup Unready \subseteq Wanted
    /\ Critical \cap (High \cup Medium \cup Low) = {} /\ High \cap (Medium \cup Low) = {} /\ Medium \cap Low = {}
    /\ Cardinality(Migrated) <= 1
    /\ Filed \in Seq(Wanted) /\ \A j, k \in DOMAIN Filed : Filed[j] = Filed[k] => j = k
    /\ PicksPerCycle \in Nat /\ RetryLimit \in Nat \ {0} /\ ReworkLimit \in Nat /\ AgeLimit \in Nat

VARIABLES
    pool,      \* pool[t]: what selection reads of task t
    order,     \* the tasks in the order of their creation
    picks,     \* picks left in this cycle
    bypassed   \* ordinary high claims, made while an untouched medium task waited, since a
               \* medium one was last claimed, up to one more than AgeLimit (history)

selectionVars == <<pool, order, picks, bypassed>>

New == [status |-> "pending", waiting |-> FALSE, touched |-> FALSE, retries |-> 0,
        streak |-> 0, outcome |-> "none", age |-> 0]
Gone == [New EXCEPT !.status = "settled"]

Pending == {t \in Wanted : pool[t].status = "pending"}
Eligible == {t \in Pending : ~pool[t].waiting}
\* claim_task takes no other: of the active ones those whose lease is over.
Claimable == (Eligible \cup {t \in Wanted : pool[t].status = "lapsed"}) \ Unready
Reworked(t) == pool[t].outcome # "none"

Oldest(S) == order[CHOOSE k \in DOMAIN order : order[k] \in S /\ \A j \in 1 .. k - 1 : order[j] \notin S]
FirstOf(options) == options[CHOOSE k \in DOMAIN options : options[k] # {} /\ \A j \in 1 .. k - 1 : options[j] = {}]

Nobody == {}
Only(t) == {t}

IsReworkCandidate(t) == Reworked(t) /\ pool[t].streak >= ReworkLimit
IsCompletionCandidate(t) == pool[t].outcome = "soft" /\ pool[t].streak < ReworkLimit

\* _untouched_candidate: eligible tasks nobody has claimed, then other rework; admitted ones first.
UntouchedCandidate(t) ==
    LET others == Eligible \ {t}
        untouched == {u \in others : ~pool[u].touched}
        rework == {u \in others : pool[u].touched /\ (IsReworkCandidate(u) \/ (u \in Admitted /\ Reworked(u)))}
        classes == <<untouched \cap Admitted, untouched, rework \cap Admitted, rework>>
    IN IF untouched \cup rework = {} THEN Nobody ELSE Only(Oldest(FirstOf(classes)))

\* _aging_medium_candidate: the medium task that ages while high ones are claimed.
AgingMedium ==
    LET eligible == Medium \cap Eligible
        qualified == {t \in eligible : IsCompletionCandidate(t)}
        untouched == {t \in eligible : ~pool[t].touched}
        longest == {t \in untouched : \A u \in untouched : pool[u].age <= pool[t].age}
    IN IF Critical \cap Eligible # {} \/ High \cap Eligible = {} \/ eligible = {} THEN Nobody
       ELSE Only(Oldest(FirstOf(<<qualified, longest, eligible>>)))

YieldsLate(medium) ==  \* mutant: off by one
    \E m \in medium : pool[m].age > AgeLimit \/ IsCompletionCandidate(m)

Yields(medium) ==
    \E m \in medium : pool[m].age >= AgeLimit \/ IsCompletionCandidate(m)

\* pick_up_task goes through the active tasks first, which are now all claimed by others, then
\* through the pending ones.  Only before pending high tasks does a medium one count.
Passes == {"active", "pending"}
InPass(pass) == {t \in Wanted : pool[t].status \in IF pass = "active" THEN {"leased", "lapsed"} ELSE {"pending"}}
MediumAt(pass, group) == IF pass = "pending" /\ group = High THEN AgingMedium ELSE Nobody

\* Whom pick_up_task tries to claim at task t of the list of one pass and priority.
Candidate(t, pass, group) ==
    LET medium == MediumAt(pass, group)
        untouched == IF IsReworkCandidate(t) THEN UntouchedCandidate(t) ELSE Nobody
        admitted == {u \in group \cap Admitted \cap Eligible : ~pool[u].touched \/ Reworked(u)}
    IN IF IsReworkCandidate(t) /\ admitted # {} THEN Oldest(admitted)
       ELSE IF Yields(medium) THEN CHOOSE m \in medium : TRUE
       ELSE IF untouched # Nobody THEN CHOOSE u \in untouched : TRUE
       ELSE t

\* The list of one priority: tasks with a deliverable first, then by creation.
Before(t, u) ==
    \/ t \in Delivering /\ u \notin Delivering
    \/ (t \in Delivering <=> u \in Delivering) /\ Oldest({t, u}) = t /\ t # u

\* The first task of the list whose candidate can be claimed.
Turn(pass, group) ==
    LET able == {t \in group \cap InPass(pass) : Candidate(t, pass, group) \in Claimable}
    IN {t \in able : \A u \in able \ {t} : Before(t, u)}
Groups == <<Critical, High, Medium, Low>>
Chosen(pass) == {Groups[k] : k \in {j \in 1 .. 4 : Turn(pass, Groups[j]) # {} /\ \A i \in 1 .. j - 1 : Turn(pass, Groups[i]) = {}}}
-----------------------------------------------------------------------------
SelectionInit ==
    /\ pool = [t \in Wanted |-> IF \E k \in DOMAIN Filed : Filed[k] = t THEN New ELSE Gone]
    /\ order = Filed
    /\ picks = PicksPerCycle
    /\ bypassed = 0

\* claim_task, as selection sees it.
Claimed(c) ==
    [pool[c] EXCEPT !.status = "claimed", !.touched = TRUE,
                    !.streak = IF ~Reworked(c) THEN 0 ELSE IF @ < ReworkLimit THEN @ + 1 ELSE @]

Suppressible == Critical \cap Eligible = {} /\ \E m \in Medium \cap Eligible : ~pool[m].touched

AgesNever(group, c, t, medium) == {}  \* mutant: competition is not recorded
\* _record_high_competition: which task has been pushed aside by the claim of c.
Ages(group, c, t, medium) ==
    IF group # High \/ Yields(medium) \/ (c \notin High /\ IsReworkCandidate(t) /\ UntouchedCandidate(t) # Nobody)
      THEN {} ELSE medium

AtPick == picks > 0 /\ \A t \in Wanted : pool[t].status # "claimed"

\* An ordinary high claim: from the list of pending high tasks, and not of one admitted to models.
Ordinary(pass, group, c) == pass = "pending" /\ group = High /\ c \in High \ Admitted

PickUp ==
    /\ AtPick
    /\ \E pass \in Passes : \E group \in Chosen(pass) : \E t \in Turn(pass, group) :
            LET medium == MediumAt(pass, group)
                c == Candidate(t, pass, group)
            IN /\ pass = "active" \/ Chosen("active") = {}
               /\ pool' = [u \in Wanted |->
                     IF u = c THEN [Claimed(c) EXCEPT !.age = IF Yields(medium) THEN 0 ELSE @]
                     ELSE IF u \in Ages(group, c, t, medium) THEN [pool[u] EXCEPT !.age = @ + 1]
                     ELSE pool[u]]
               /\ bypassed' = IF c \in Medium THEN 0
                              ELSE IF Ordinary(pass, group, c) /\ Suppressible /\ bypassed <= AgeLimit
                                THEN bypassed + 1 ELSE bypassed
    /\ picks' = picks - 1
    /\ UNCHANGED order

NothingToPick ==
    /\ AtPick /\ \A pass \in Passes : Chosen(pass) = {}
    /\ picks' = 0
    /\ UNCHANGED <<pool, order, bypassed>>

Update(t, r) == pool' = [pool EXCEPT ![t] = r]
Without(t) ==
    LET k == CHOOSE k \in DOMAIN order : order[k] = t
    IN [j \in 1 .. Len(order) - 1 |-> order[IF j < k THEN j ELSE j + 1]]
Leaves(t) == Update(t, Gone) /\ order' = Without(t)

\* What becomes of a claimed task: on to review, a failure with a retry after a while, or the end.
Settles(t) ==
    \/ Update(t, [pool[t] EXCEPT !.status = "review"]) /\ UNCHANGED order
    \/ /\ pool[t].retries + 1 < RetryLimit /\ UNCHANGED order
       /\ Update(t, [pool[t] EXCEPT !.status = "pending", !.waiting = TRUE, !.retries = @ + 1])

\* research_task; the last failure sends a task to the graveyard.
ResearchEnds(t) ==
    /\ pool[t].status = "claimed"
    /\ Settles(t) \/ (pool[t].retries + 1 = RetryLimit /\ Leaves(t))
    /\ UNCHANGED <<picks, bypassed>>

\* Another process claims a task (ace_start.py, daily_learning.py, mission_runner.py, the daemon's
\* own evidence lane) ...
TakenByOther(t) ==
    /\ AtPick
    /\ t \in Shared \cap Claimable
    /\ Update(t, [Claimed(t) EXCEPT !.status = "leased"])
    /\ bypassed' = IF t \in Medium THEN 0 ELSE bypassed
    /\ UNCHANGED <<order, picks>>

\* ... and is done with it, in any way, in time or not, or its lease runs out.
OtherEnds(t) ==
    /\ AtPick
    /\ pool[t].status \in {"leased", "lapsed"}
    /\ \/ pool[t].status = "leased" /\ Update(t, [pool[t] EXCEPT !.status = "lapsed"]) /\ UNCHANGED order
       \/ Settles(t)
       \/ Leaves(t)
    /\ UNCHANGED <<picks, bypassed>>

\* validate_task, of a few tasks a cycle: approved or not convergent, or back for rework in five
\* minutes.
Review(t) ==
    /\ picks = 0 /\ pool[t].status = "review"
    /\ \/ Leaves(t)
       \/ /\ \E o \in {"rework"} \cup (IF t \in Migrated /\ ~Reworked(t) THEN {"soft"} ELSE {}) :
               Update(t, [pool[t] EXCEPT !.status = "pending", !.waiting = TRUE, !.outcome = o])
          /\ UNCHANGED order
    /\ UNCHANGED <<picks, bypassed>>

\* A cycle begins with recover_task_pool: the leases that are over are taken back.
NextCycle ==
    /\ picks = 0 /\ \A t \in Wanted : pool[t].status # "claimed"
    /\ pool' = [t \in Wanted |-> IF pool[t].status = "lapsed" THEN [pool[t] EXCEPT !.status = "pending"] ELSE pool[t]]
    /\ picks' = PicksPerCycle
    /\ UNCHANGED <<order, bypassed>>

\* Retries fall due and tasks are filed at any time; the next pick is the first to see it.
RetryDue(t) ==
    /\ AtPick
    /\ pool[t].status = "pending" /\ pool[t].waiting
    /\ Update(t, [pool[t] EXCEPT !.waiting = FALSE])
    /\ UNCHANGED <<order, picks, bypassed>>

Arrive(t) ==
    /\ AtPick
    /\ t \in Recurring /\ pool[t].status = "settled"
    /\ Update(t, New) /\ order' = Append(order, t)
    /\ UNCHANGED <<picks, bypassed>>

SelectionNext ==
    \/ PickUp
    \/ NothingToPick
    \/ NextCycle
    \/ \E t \in Wanted :
         \/ ResearchEnds(t)
         \/ TakenByOther(t)
         \/ OtherEnds(t)
         \/ Review(t)
         \/ RetryDue(t)
         \/ Arrive(t)

SelectionSpec == SelectionInit /\ [][SelectionNext]_selectionVars

\* The daemon goes on with its cycles: there is always a next pick, or none is left, or a
\* next cycle, so weak fairness of these steps says that one comes again and again.
CyclesGoOn == []<><<picks' # picks>>_selectionVars
-----------------------------------------------------------------------------
(* Properties. *)

\* What selection reads is well formed; no medium task ages past the limit.
SelectionTypeOK ==
    /\ pool \in [Wanted -> [status : {"pending", "claimed", "leased", "lapsed", "review", "settled"}, waiting : BOOLEAN,
                            touched : BOOLEAN, retries : 0 .. RetryLimit - 1, streak : 0 .. ReworkLimit, outcome : {"none", "rework", "soft"},
                            age : 0 .. AgeLimit]]
    /\ {order[k] : k \in DOMAIN order} = {t \in Wanted : pool[t].status # "settled"}
    /\ picks \in 0 .. PicksPerCycle

\* "Give an eligible pending medium task one bounded Researcher claim after three actual
\* ordinary high claims have suppressed it" (2026-08-24-fairness-002.md): whatever comes back
\* from review, is filed, refused, or claimed by others.  Ordinary are the claims from the
\* pending high list of tasks that are not admitted to models; no critical task may be waiting.
MediumSuppressedBriefly == bypassed <= AgeLimit

\* What goes before a waiting medium task m without being counted: a task whose lease is over,
\* and one admitted to models.
Favoured(m) ==
    \E t \in Wanted \ {m} : pool[t].status = "lapsed" \/ (t \in Admitted /\ pool[t].status = "claimed")

\* A medium task nobody has touched, and that can be claimed, is claimed in the end, or critical
\* tasks turn up, or tasks whose lease is over or that are admitted to models come again and again.
UntouchedMediumServed ==
    \A m \in Medium \ Unready :
        \/ pool[m].status = "pending" /\ ~pool[m].touched ~> pool[m].touched \/ Critical \cap Eligible # {}
        \/ []<>Favoured(m)
=============================================================================
