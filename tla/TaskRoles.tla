------------------------------ MODULE TaskRoles ------------------------------
(***************************************************************************)
(* One lifecycle of the daemon (_run_task_lifecycle_unlocked, ace_daemon)  *)
(* and the roles it calls (core/task_roles.py): research, the check of     *)
(* declared deliveries, Validator, Guardian, Archivist, and the deposit of *)
(* the experience.  Each stage lists a few tasks and works them off; every *)
(* save of a record is a step, and the daemon may die between any two.     *)
(*                                                                         *)
(* The lifecycle lock keeps other daemons out, so what a stage listed is   *)
(* what it finds.  Which pending task is researched when is Selection's    *)
(* matter; failed research, leases and dependencies are TaskPool's.        *)
(* Evidence is only ever appended, so its signature differs from that of   *)
(* the last review exactly when something new was appended since: the      *)
(* record says so, and how much there is, up to MaxEvidence.  A model's    *)
(* answer stands for the objections it causes.  Records from before        *)
(* evidence_signature_version, inquiries, which annotate a record, and the *)
(* tools of operators but the disposal of the backlog are left out.        *)
(***************************************************************************)
EXTENDS Integers, Sequences, FiniteSets

CONSTANTS
    Queue,         \* the tasks, in the order of list_tasks: priority, then creation
    Fickle,        \* tasks on which the model changes its mind
    Declared,      \* tasks that declare a deliverable ...
    HasWorker,     \* TRUE: a worker may be called to produce a deliverable
    External,      \* ... and those among them that only an external receipt decides
    Unreceipted,   \* tasks that must not be archived without a release receipt
    Outdated,      \* tasks in review whose execution envelope has an earlier protocol version
    Hopeless,      \* tasks tagged permanent_dead_end
    Quota,         \* tasks researched in a cycle
    ReviewLimit,   \* tasks the review stage lists
    StageLimit,    \* tasks the delivery, judgement and archive stages list
    Enough,        \* distinct evidence that approval needs
    MaxUnchanged,  \* MAX_UNCHANGED_REVIEWS
    MaxEvidence,   \* evidence is counted up to here
    Indexed,       \* TRUE: the Archivist has a memory index
    MaxCrashes,    \* bound on deaths of the daemon
    MaxReopens     \* bound on reopened tasks

Known == {Queue[k] : k \in DOMAIN Queue}
Answers == {"advice", "hard"}  \* advisory objections only, or hard ones among them

ASSUME RolesAssumption ==
    /\ Queue \in Seq(Known) /\ \A j, k \in DOMAIN Queue : Queue[j] = Queue[k] => j = k
    /\ Fickle \cup Declared \cup Unreceipted \cup Outdated \cup Hopeless \subseteq Known
    /\ External \subseteq Declared /\ HasWorker \in BOOLEAN /\ Quota \in Nat /\ MaxEvidence \in Nat \ {0}
    /\ Enough <= MaxEvidence /\ Indexed \in BOOLEAN
    /\ ReviewLimit \in Nat \ {0} /\ StageLimit \in Nat \ {0} /\ Enough \in Nat \ {0} /\ MaxUnchanged \in Nat \ {0}
    /\ MaxCrashes \in Nat /\ MaxReopens \in Nat

VARIABLES
    task,      \* task[t]: the record of t
    opinion,   \* opinion[t]: what the model answers on t, unless it is fickle
    stage,     \* what the daemon is doing
    todo,      \* the tasks its stage has listed and not yet worked off
    doing,     \* how far it is with the first of them
    quota,     \* tasks it may still research in this cycle
    receipts,  \* the tasks with a verified release receipt
    memory,    \* memory[t]: archive notes and experiences of t, and whether a call that
               \* was to remember t has failed (history)
    crashes,
    reopens,
    repeats    \* repeats[t]: rework verdicts in a row on the same grounds, up to
               \* MaxUnchanged (history)

rolesVars == <<task, opinion, stage, todo, doing, quota, receipts, memory, crashes, reopens, repeats>>

Ungrounded == [answer |-> "none", thin |-> TRUE]
Fresh == [status |-> "pending", evidence |-> 0, fresh |-> FALSE, recorded |-> FALSE, delivered |-> FALSE,
          grounds |-> Ungrounded, unchanged |-> 0, verdict |-> "none", terminal |-> FALSE, decision |-> "none"]

\* A list of tasks is always in the order of the queue: it is the set of them here.
Before(u, t) == \E j, k \in DOMAIN Queue : j < k /\ Queue[j] = u /\ Queue[k] = t
Current(t) == t \in todo /\ \A u \in todo : ~Before(u, t)

\* list_tasks(status, limit)
List(status, limit) ==
    LET all == {t \in Known : task[t].status = status}
    IN {t \in all : Cardinality({u \in all : Before(u, t)}) < limit}

\* A record with n more pieces of evidence.
Capped(n) == IF n < MaxEvidence THEN n ELSE MaxEvidence
Gathered(r, n) == [r EXCEPT !.evidence = Capped(@ + n), !.fresh = @ \/ n > 0]

Save(t, r) == task' = [task EXCEPT ![t] = r]
Keep == UNCHANGED <<opinion, receipts, crashes, reopens>>
Begin(s, list) == stage' = s /\ todo' = list /\ doing' = "next" /\ quota' = Quota
Go(list, step) == todo' = list /\ doing' = step /\ UNCHANGED <<stage, quota>>
Onward(t) == Go(todo \ {t}, "next")
StageEnds == Go({}, "next")
Checked(t) == IF HasWorker THEN StageEnds ELSE Onward(t)
At(t, s, step) == stage = s /\ Current(t) /\ doing = step
Step(step) == Go(todo, step)
-----------------------------------------------------------------------------
RolesInit ==
    /\ task = [t \in Known |-> IF t \in Outdated THEN [Fresh EXCEPT !.status = "review"] ELSE Fresh]
    /\ opinion \in [Known -> Answers]
    /\ stage = "research" /\ todo = {} /\ doing = "next" /\ quota = Quota
    /\ receipts = {}
    /\ memory = [t \in Known |-> [notes |-> 0, lessons |-> 0, lost |-> FALSE]]
    /\ crashes = 0 /\ reopens = 0
    /\ repeats = [t \in Known |-> 0]

\* research_task saves what it found; what the record holds already is not found again ...
Research(t) ==
    /\ stage = "research" /\ todo = {} /\ quota > 0 /\ task[t].status = "pending"
    /\ \E n \in 0 .. MaxEvidence : Save(t, Gathered(task[t], n))
    /\ todo' = {t} /\ doing' = "found" /\ quota' = quota - 1 /\ UNCHANGED stage
    /\ Keep /\ UNCHANGED <<memory, repeats>>

\* ... then moves the task.
HandIn(t) ==
    /\ At(t, "research", "found")
    /\ Save(t, [task[t] EXCEPT !.status = "review"])
    /\ Onward(t)
    /\ Keep /\ UNCHANGED <<memory, repeats>>

\* The stages follow one another; each lists its tasks when it begins.
NextStage ==
    /\ todo = {}
    /\ CASE stage = "research" -> Begin("deliver", List("review", StageLimit) \cap Declared)
         [] stage = "deliver" -> Begin("review", List("review", ReviewLimit))
         [] stage = "review" -> Begin("judge", List("approved", StageLimit))
         [] stage = "judge" -> Begin("archive", List("approved", StageLimit))
         [] stage = "archive" -> Begin("research", {})
    /\ UNCHANGED task /\ Keep /\ UNCHANGED <<memory, repeats>>

\* _run_declared_deliveries checks the artifacts, one per cycle when a worker may be called,
\* and saves the receipts.  An artifact that is there becomes evidence, once more when it was
\* edited.
Deliver(t) ==
    /\ At(t, "deliver", "next")
    /\ \/ /\ t \in External
          /\ UNCHANGED task /\ Checked(t)
       \/ /\ t \notin External
          /\ \E n \in {0, 1} :
               /\ n = 0 => task[t].recorded
               /\ Save(t, [Gathered(task[t], n) EXCEPT !.delivered = TRUE, !.recorded = TRUE])
          /\ Checked(t)
       \/ /\ t \notin External
          /\ Save(t, [task[t] EXCEPT !.delivered = FALSE])
          /\ Step("missing")
    /\ Keep /\ UNCHANGED <<memory, repeats>>

\* What was promised and is not there blocks the task.
BlockUndelivered(t) ==
    /\ At(t, "deliver", "missing")
    /\ Save(t, [task[t] EXCEPT !.status = "blocked"])
    /\ Checked(t)
    /\ Keep /\ UNCHANGED <<memory, repeats>>

\* validate_task: the verdict on the evidence and the answer of the model.
Grounds(t, a) ==
    [answer |-> a, thin |-> task[t].evidence < Enough /\ ~task[t].delivered]
Same(t, g) == ~task[t].fresh /\ task[t].grounds = g
HardByModelOnly(g) == g.answer = "hard"  \* mutant: thin evidence is no objection
Hard(g) == g.answer = "hard" \/ g.thin

NeverTheSame(t, g) == 1  \* mutant: a review is always taken for a new one
Unchanged(t, g) == IF Same(t, g) THEN task[t].unchanged + 1 ELSE 1

VerdictLate(t, g) ==  \* mutant: off by one
    IF Unchanged(t, g) > MaxUnchanged THEN "terminal" ELSE IF Hard(g) THEN "rework" ELSE "approved"
Verdict(t, g) ==
    IF Unchanged(t, g) >= MaxUnchanged THEN "terminal" ELSE IF Hard(g) THEN "rework" ELSE "approved"

Validate(t) ==
    /\ At(t, "review", "next") /\ t \notin Outdated
    /\ \E a \in IF t \in Fickle THEN Answers ELSE {opinion[t]} :
         LET g == Grounds(t, a)
         IN /\ Save(t, [task[t] EXCEPT !.fresh = FALSE, !.grounds = g, !.unchanged = Unchanged(t, g),
                                       !.verdict = Verdict(t, g), !.terminal = @ \/ Verdict(t, g) = "terminal"])
            /\ repeats' = [repeats EXCEPT ![t] = IF Verdict(t, g) # "rework" THEN 0
                                                 ELSE IF ~Same(t, g) THEN 1
                                                 ELSE IF @ < MaxUnchanged THEN @ + 1 ELSE @]
    /\ Step("judged")
    /\ Keep /\ UNCHANGED memory

\* A refused envelope raises, and the stage ends with it.
ValidateRaises(t) ==
    /\ At(t, "review", "next") /\ t \in Outdated
    /\ StageEnds /\ UNCHANGED task
    /\ Keep /\ UNCHANGED <<memory, repeats>>

StatusOf(t) ==
    CASE task[t].verdict = "approved" -> "approved"
      [] task[t].verdict = "rework" -> "pending"
      [] task[t].verdict = "terminal" -> IF t \in Hopeless THEN "graveyard" ELSE "blocked"

Conclude(t) ==
    /\ At(t, "review", "judged")
    /\ Save(t, [task[t] EXCEPT !.status = StatusOf(t)])
    /\ Onward(t)
    /\ Keep /\ UNCHANGED <<memory, repeats>>

\* Guardian.judge; without evidence the decision would be to discard.
Judge(t) ==
    /\ At(t, "judge", "next")
    /\ Save(t, [task[t] EXCEPT !.decision = IF @ # "none" THEN @ ELSE IF task[t].evidence = 0 THEN "discard" ELSE "keep"])
    /\ Onward(t)
    /\ Keep /\ UNCHANGED <<memory, repeats>>

NoteFirst(t) ==  \* mutant: the note is written before the task is saved as archived
    /\ At(t, "archive", "next")
    /\ task[t].decision = "keep" /\ (t \in Unreceipted => t \in receipts)
    /\ Step("archived") /\ UNCHANGED task
    /\ Keep /\ UNCHANGED <<memory, repeats>>

\* archive_task, unless the pool's receipt gate refuses.
Archive(t) ==
    /\ At(t, "archive", "next")
    /\ task[t].decision = "keep" /\ (t \in Unreceipted => t \in receipts)
    /\ Save(t, [task[t] EXCEPT !.status = "archived"])
    /\ Step("archived")
    /\ Keep /\ UNCHANGED <<memory, repeats>>

RefusalEndsStage(t) ==  \* mutant: a refused archive ends the stage
    /\ At(t, "archive", "next")
    /\ task[t].decision # "keep" \/ (t \in Unreceipted /\ t \notin receipts)
    /\ StageEnds /\ UNCHANGED task
    /\ Keep /\ UNCHANGED <<memory, repeats>>

ArchiveRefused(t) ==
    /\ At(t, "archive", "next")
    /\ task[t].decision # "keep" \/ (t \in Unreceipted /\ t \notin receipts)
    /\ Onward(t) /\ UNCHANGED task
    /\ Keep /\ UNCHANGED <<memory, repeats>>

\* The archive note, if there is an index to write it to, then the outcome receipt.  Either
\* may raise and ends the stage; the task is archived by then and not looked at again.
AddNote(t) ==
    /\ At(t, "archive", "archived")
    /\ \/ memory' = [memory EXCEPT ![t].notes = @ + (IF Indexed THEN 1 ELSE 0)] /\ Step("noted")
       \/ /\ \E n \in IF Indexed THEN {0, 1} ELSE {0} :
               memory' = [memory EXCEPT ![t].notes = @ + n, ![t].lost = TRUE]
          /\ StageEnds
    /\ UNCHANGED <<task, repeats>> /\ Keep

\* The experience; a deposit that fails is counted and logged.
Deposit(t) ==
    /\ At(t, "archive", "noted")
    /\ \/ memory' = [memory EXCEPT ![t].lessons = @ + 1]
       \/ memory' = [memory EXCEPT ![t].lost = TRUE]
    /\ Onward(t)
    /\ UNCHANGED <<task, repeats>> /\ Keep

\* process_blocked_backlog buries a task whose evidence outside readers found insufficient,
\* and deposits that as a lesson unless it dies or raises before.
Dispose(t) ==
    /\ task[t].status = "blocked" /\ task[t].unchanged >= MaxUnchanged /\ task[t].evidence > 0
    /\ Save(t, [task[t] EXCEPT !.status = "graveyard", !.decision = "discard"])
    /\ \E n \in {0, 1} : memory' = [memory EXCEPT ![t].lessons = @ + n]
    /\ UNCHANGED <<stage, todo, doing, quota, repeats>> /\ Keep

\* The daemon dies and starts again; what it was doing is forgotten.
Crash ==
    /\ crashes < MaxCrashes /\ todo # {}
    /\ crashes' = crashes + 1
    /\ Begin("research", {})
    /\ UNCHANGED <<task, opinion, receipts, memory, reopens, repeats>>

\* reopen_task, with or without new evidence, and unblock_task.
Reopen(t) ==
    /\ task[t].status = "blocked" /\ reopens < MaxReopens
    /\ reopens' = reopens + 1
    /\ \E n \in 0 .. MaxEvidence :
         Save(t, [Gathered(task[t], n) EXCEPT !.status = "pending", !.terminal = FALSE])
    /\ UNCHANGED <<opinion, stage, todo, doing, quota, receipts, memory, crashes, repeats>>

UnblockAny(t) ==  \* mutant: the terminal flag is not looked at
    /\ task[t].status = "blocked" /\ reopens < MaxReopens
    /\ reopens' = reopens + 1
    /\ Save(t, [task[t] EXCEPT !.status = "pending"])
    /\ UNCHANGED <<opinion, stage, todo, doing, quota, receipts, memory, crashes, repeats>>

Unblock(t) ==
    /\ task[t].status = "blocked" /\ ~task[t].terminal /\ reopens < MaxReopens
    /\ reopens' = reopens + 1
    /\ Save(t, [task[t] EXCEPT !.status = "pending"])
    /\ UNCHANGED <<opinion, stage, todo, doing, quota, receipts, memory, crashes, repeats>>

Receipt(t) ==
    /\ t \in Unreceipted \ receipts
    /\ receipts' = receipts \cup {t}
    /\ UNCHANGED <<task, opinion, stage, todo, doing, quota, memory, crashes, reopens, repeats>>

Stage ==
    \/ NextStage
    \/ \E t \in Known :
         \/ HandIn(t)
         \/ Deliver(t)
         \/ BlockUndelivered(t)
         \/ Validate(t)
         \/ ValidateRaises(t)
         \/ Conclude(t)
         \/ Judge(t)
         \/ Archive(t)
         \/ ArchiveRefused(t)
         \/ AddNote(t)
         \/ Deposit(t)

RolesNext ==
    \/ Stage
    \/ Crash
    \/ \E t \in Known : Research(t) \/ Dispose(t) \/ Reopen(t) \/ Unblock(t) \/ Receipt(t)

RolesSpec == RolesInit /\ [][RolesNext]_rolesVars

\* The daemon goes on: it can always take a step of its stage or begin the next, so weak
\* fairness of these steps says that stages follow one another for ever.  Nothing promises a
\* pending task its turn to be researched.
RolesFairness == []<><<stage' # stage>>_rolesVars
-----------------------------------------------------------------------------
(* Properties. *)

\* Records, stages and memory are well formed.
RolesTypeOK ==
    /\ task \in [Known -> [status : {"pending", "review", "approved", "archived", "blocked", "graveyard"},
                           evidence : 0 .. MaxEvidence, fresh : BOOLEAN, recorded : BOOLEAN, delivered : BOOLEAN,
                           grounds : [answer : Answers \cup {"none"}, thin : BOOLEAN],
                           unchanged : 0 .. MaxUnchanged + MaxCrashes + MaxReopens,
                           verdict : {"none", "rework", "approved", "terminal"}, terminal : BOOLEAN,
                           decision : {"none", "keep", "discard"}]]
    /\ \A t \in Known : task[t].decision = "discard" => task[t].status = "graveyard"
    /\ stage \in {"research", "deliver", "review", "judge", "archive"}
    /\ doing \in {"next", "found", "missing", "judged", "archived", "noted"}
    /\ todo \subseteq Known
    /\ quota \in 0 .. Quota

\* A task is not sent back to research for ever on the same evidence and the same
\* objections: the fourth such review ends it, whatever deaths and reopenings come between.
ReworkIsBounded == \A t \in Known : repeats[t] < MaxUnchanged

\* "unblock_task deliberately refuses anything flagged terminal_non_convergent": a task so
\* flagged is worked on again only after reopen_task, also when the daemon died between the
\* flag and the block - for tasks on which neither the model nor a deliverable changes sides.
TerminalStaysOut ==
    \A t \in Known \ (Fickle \cup Declared) :
        task[t].terminal => task[t].status \in {"review", "blocked", "graveyard"}

\* What the daemon archives is remembered once, as a note and as an experience, unless a
\* call that was to remember it failed or the daemon died over it; and nothing else is
\* remembered, but the lesson of a buried task.
ArchivedIsRemembered ==
    \A t \in Known :
        /\ memory[t].notes <= 1 /\ memory[t].lessons <= 1
        /\ memory[t].notes = 1 => task[t].status = "archived"
        /\ memory[t].lessons = 1 => task[t].status \in {"archived", "graveyard"}
        /\ task[t].status = "archived" /\ crashes = 0 /\ ~Current(t) /\ ~memory[t].lost =>
             memory[t].lessons = 1 /\ (Indexed => memory[t].notes = 1)

\* A task does not stay between research and review: it is decided, or it waits for ever for
\* the researcher, or each time new evidence is found - unless the model keeps changing its
\* mind or a task whose review raises is listed before it.
Undisturbed(t) ==
    \E k \in DOMAIN Queue : Queue[k] = t /\ \A j \in 1 .. k : Queue[j] \notin Outdated
Decided(t) == task[t].status \in {"approved", "archived", "blocked", "graveyard"}
Waiting(t) == task[t].status = "pending" /\ ~Current(t)
FindsNews(t) == ~task[t].fresh /\ task'[t].fresh
TasksAreDecided ==
    \A t \in Known \ Fickle :
        Undisturbed(t) => []<>Decided(t) \/ <>[]Waiting(t) \/ []<><<FindsNews(t)>>_rolesVars

\* An approved task is archived, although tasks before it wait for their receipts - fewer
\* of them than a stage lists.
ApprovedIsArchived ==
    \A t \in Known \ Unreceipted : task[t].status = "approved" ~> task[t].status = "archived"
=============================================================================
