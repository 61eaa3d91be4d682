---------------------------- MODULE RuntimeClaim ----------------------------
(***************************************************************************)
(* At-most-once claims for scheduled attempts (core/runtime_claim.py), as  *)
(* DailyLearning.run uses them: several daemon processes may reach the     *)
(* same date, one of them works, and whatever becomes of it nobody works   *)
(* on that date again.  One key, hence one claim file: keys share nothing. *)
(*                                                                         *)
(* A process is one incarnation; the random claim token stands for the     *)
(* process that drew it, and the result is named after the worker.         *)
(***************************************************************************)
EXTENDS Integers

CONSTANT Procs    \* process incarnations

VARIABLES
    claim,   \* the claim file
    at,      \* at[p]: how far process p is in its attempt
    seen,    \* seen[p]: the record p read in acquire
    answer,  \* answer[p]: what p's last acquire said
    begun    \* how often the work was begun (history)

claimVars == <<claim, at, seen, answer, begun>>

NoClaim == [state |-> "absent"]
Blank(p) == [state |-> "blank", by |-> p]          \* created, not yet readable
Running(p) == [state |-> "running", by |-> p]
Completed(p) == [state |-> "completed", by |-> p]

Alive(p) == at[p] # "dead"
Go(p, place) == at' = [at EXCEPT ![p] = place]
Answer(p, outcome) == answer' = [answer EXCEPT ![p] = outcome] /\ Go(p, "idle")

ClaimInit ==
    /\ claim = NoClaim
    /\ at = [p \in Procs |-> "idle"]
    /\ seen = [p \in Procs |-> NoClaim]
    /\ answer = [p \in Procs |-> "none"]
    /\ begun = 0

AcquireTruncates(p) ==  \* mutant: the file is opened for writing without O_EXCL
    /\ at[p] = "idle"
    /\ claim' = Blank(p) /\ Go(p, "created")
    /\ UNCHANGED <<seen, answer, begun>>

Acquire(p) ==
    /\ at[p] = "idle"
    /\ IF claim = NoClaim
         THEN claim' = Blank(p) /\ Go(p, "created")
         ELSE Go(p, "reading") /\ UNCHANGED claim
    /\ UNCHANGED <<seen, answer, begun>>

\* The record is on disk: acquire returns "acquired" and the caller starts to work.
WriteRecord(p) ==
    /\ at[p] = "created"
    /\ claim' = Running(p)
    /\ answer' = [answer EXCEPT ![p] = "acquired"] /\ Go(p, "working")
    /\ begun' = begun + 1
    /\ UNCHANGED seen

\* Write or fsync raises; the incomplete file stays.
WriteFails(p) ==
    /\ at[p] = "created"
    /\ Go(p, "idle")
    /\ UNCHANGED <<claim, seen, answer, begun>>

\* _read_settled: a record is there ...
ReadRecord(p) ==
    /\ at[p] = "reading" /\ claim.state # "blank"
    /\ seen' = [seen EXCEPT ![p] = claim] /\ Go(p, "read")
    /\ UNCHANGED <<claim, answer, begun>>

\* ... or none has come up in ten readings: the creator may be dead, may have failed, or
\* may still be writing, since nothing bounds its write and fsync by 50 ms.
GiveUp(p) ==
    /\ at[p] = "reading" /\ claim.state = "blank"
    /\ Answer(p, "recovery_required")
    /\ UNCHANGED <<claim, seen, begun>>

JudgeAndSteal(p) ==  \* mutant: the claim of a dead owner is taken over
    /\ at[p] = "read"
    /\ \/ /\ seen[p].state = "running" /\ ~Alive(seen[p].by)
          /\ claim' = Running(p) /\ Go(p, "working") /\ begun' = begun + 1 /\ UNCHANGED answer
       \/ seen[p].state = "completed" /\ Answer(p, "completed") /\ UNCHANGED <<claim, begun>>
       \/ seen[p].state = "running" /\ Alive(seen[p].by) /\ Answer(p, "busy") /\ UNCHANGED <<claim, begun>>
    /\ UNCHANGED seen

JudgeAllDead(p) ==  \* mutant: an owner whose pid cannot be queried counts as dead
    /\ at[p] = "read"
    /\ \/ seen[p].state = "completed" /\ Answer(p, "completed")
       \/ seen[p].state = "running" /\ Answer(p, "recovery_required")
    /\ UNCHANGED <<claim, seen, begun>>

\* An owner whose pid cannot be queried counts as alive, so the dead may pass for busy.
Judge(p) ==
    /\ at[p] = "read"
    /\ \/ seen[p].state = "completed" /\ Answer(p, "completed")
       \/ seen[p].state = "running" /\ Answer(p, "busy")
       \/ seen[p].state = "running" /\ ~Alive(seen[p].by) /\ Answer(p, "recovery_required")
    /\ UNCHANGED <<claim, seen, begun>>

\* _run_unclaimed comes to an end or raises; the claim stays as it is.
Work(p) ==
    /\ at[p] = "working"
    /\ Go(p, "worked") \/ Go(p, "idle")
    /\ UNCHANGED <<claim, seen, answer, begun>>

\* complete reads the record and compares the token, ...
CheckToken(p) ==
    /\ at[p] = "worked"
    /\ IF claim = Running(p) THEN Go(p, "completing") ELSE Go(p, "idle")
    /\ UNCHANGED <<claim, seen, answer, begun>>

\* ... writes a temporary file of its own and renames it, which a reader may make fail.
Replace(p) ==
    /\ at[p] = "completing"
    /\ \/ claim' = Completed(p)
       \/ (\E q \in Procs \ {p} : at[q] = "reading") /\ UNCHANGED claim
    /\ Go(p, "idle")
    /\ UNCHANGED <<seen, answer, begun>>

Perish(p) ==
    /\ Alive(p)
    /\ Go(p, "dead")
    /\ UNCHANGED <<claim, seen, answer, begun>>

ClaimStep ==
    \E p \in Procs :
        \/ Acquire(p)
        \/ WriteRecord(p)
        \/ WriteFails(p)
        \/ ReadRecord(p)
        \/ GiveUp(p)
        \/ Judge(p)
        \/ Work(p)
        \/ CheckToken(p)
        \/ Replace(p)
        \/ Perish(p)

ClaimSpec == ClaimInit /\ [][ClaimStep]_claimVars
-----------------------------------------------------------------------------
(* Properties. *)

AtWork == {"working", "worked", "completing"}
AtIt == AtWork \cup {"created"}
Record == {NoClaim} \cup {Blank(p) : p \in Procs} \cup {Running(p) : p \in Procs} \cup {Completed(p) : p \in Procs}

\* The claim file, the readings and the places of the processes are well formed.
ClaimTypeOK ==
    /\ claim \in Record
    /\ at \in [Procs -> AtIt \cup {"idle", "reading", "read", "dead"}]
    /\ seen \in [Procs -> Record]
    /\ answer \in [Procs -> {"none", "acquired", "completed", "busy", "recovery_required"}]
    /\ begun \in Nat

\* "Protects a scheduled attempt from being run twice by two daemon processes"
\* (runtime_claim.py): whatever is written, fails, raises or dies, the work begins once.
AtMostOneRun == begun <= 1

\* "Make the result immutable" (complete): a completed record is there for good, and
\* everybody who was told "completed" was given its result.
CompletedIsFinal ==
    /\ [][claim.state = "completed" => claim' = claim]_claimVars
    /\ [](\A p \in Procs : answer[p] = "completed" => claim.state = "completed" /\ seen[p] = claim)

\* "Incorrectly classifying a healthy owner as a malformed crash record" (_read_settled) is
\* confined to the creator's write: an owner that has begun to work and lives is never
\* reported as one that needs recovery, however old the record is that the asker has read.
OwnerAtWorkNotAlarmed ==
    [][\A p \in Procs :
         /\ at[p] \in {"reading", "read"} /\ at'[p] = "idle" /\ answer'[p] = "recovery_required"
         => at[claim.by] \notin AtWork]_claimVars
=============================================================================
