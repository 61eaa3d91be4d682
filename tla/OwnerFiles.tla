----------------------------- MODULE OwnerFiles -----------------------------
(***************************************************************************)
(* The three lock files by which ACE processes exclude one another:        *)
(*   workspace  .workspace.write.lock (core/workspace_write_lock.py),      *)
(*   daemon     the lock of the resident daemon (ace_daemon.py),           *)
(*   lifecycle  the lock around one task lifecycle (ace_daemon.py).        *)
(* run_daemon takes the first two for its whole life and the third in each *)
(* iteration; run_once, started by hand, takes the third alone.  All three *)
(* name their owner and are taken over from a dead one, each in its own    *)
(* way: a lock is created and filled, or linked when filled; an unreadable *)
(* record is respected, or removed.  Every file operation is a step.       *)
(*                                                                         *)
(* What a call has seen of a file may be out of date when it acts on it:   *)
(* nothing in the code keeps two calls on one file apart.  The history     *)
(* crossed says that this has happened.                                    *)
(*                                                                         *)
(* A token names its process: a process draws one token per acquisition    *)
(* and never holds two of one lock.  Files can be removed while open       *)
(* (POSIX), and pids are not reused.                                       *)
(***************************************************************************)
EXTENDS Integers

CONSTANTS
    Daemons,     \* processes that call run_daemon
    Onces,       \* processes that call run_once
    Mortal       \* processes that may be killed

Starters == Daemons \cup Onces
Locks == {"workspace", "daemon", "lifecycle"}

ASSUME StartersAssumption == Daemons \cap Onces = {} /\ Mortal \subseteq Starters

VARIABLES
    file,    \* file[f]: the lock file f
    run,     \* run[p]: what process p is doing, on which lock, in which attempt
    judged,  \* judged[p]: the owner whose record p read last
    tokens,     \* tokens[p]: the locks p holds a token of
    overtaken,  \* the processes whose lock file another has changed since they looked (history)
    crossed     \* one of them has written or removed its lock file all the same (history)

ownerVars == <<file, run, judged, tokens, overtaken, crossed>>

None == "none"
Missing == [state |-> "missing", owner |-> None]
Unwritten(p) == [state |-> "unwritten", owner |-> p]   \* created, its record not complete
Named(p) == [state |-> "named", owner |-> p]

Attempt(step, lock, try) == [step |-> step, lock |-> lock, try |-> try]
Outside(step) == Attempt(step, None, 0)

On(p, f, step) == run[p].lock = f /\ run[p].step = step
Exists(p) == run[p].step \notin {"off", "dead"}
Become(p, r) == run' = [run EXCEPT ![p] = r]
To(p, step) == Become(p, [run[p] EXCEPT !.step = step])

\* Where a process goes on with the lock, without it, and after its release.
Home(p) == IF p \in Daemons THEN Outside("loop") ELSE Outside("off")
Got(f) ==
    CASE f = "workspace" -> Attempt("try", "daemon", 1)
      [] f = "daemon" -> Outside("loop")
      [] f = "lifecycle" -> Outside("stages")
TurnedAway(p, f) ==
    CASE f = "workspace" -> Outside("off")
      [] f = "daemon" -> Attempt("check", "workspace", 0)
      [] f = "lifecycle" -> Home(p)
Freed(p, f) ==
    CASE f = "workspace" -> Outside("off")
      [] f = "daemon" -> Attempt("check", "workspace", 0)
      [] f = "lifecycle" -> Home(p)

AlwaysAgain(p) == Attempt("try", run[p].lock, run[p].try + 1)  \* mutant: no end of attempts
Again(p) == IF run[p].try = 1 THEN Attempt("try", run[p].lock, 2) ELSE TurnedAway(p, run[p].lock)

\* What a step of p does to the histories.  A write that finds its file gone is lost; to remove
\* what is gone changes nothing.
HasLooked(p, f) == run[p].lock = f /\ run[p].step \in {"write", "judge", "unlink", "remove"}
Acts(p) == run[p].step = "write" \/ (run[p].step \in {"unlink", "remove"} /\ file[run[p].lock] # Missing)
Remembers(p) ==
    /\ overtaken' = {q \in Starters :
                        IF q = p THEN q \in overtaken /\ run[q].step = "judge" /\ run'[q].step = "unlink"
                        ELSE q \in overtaken \/ \E f \in Locks : HasLooked(q, f) /\ file'[f] # file[f]}
    /\ crossed' = (crossed \/ (p \in overtaken /\ Acts(p)))
-----------------------------------------------------------------------------
OwnersInit ==
    /\ file = [f \in Locks |-> Missing]
    /\ run = [p \in Starters |-> Outside("off")]
    /\ judged = [p \in Starters |-> p]
    /\ tokens = [p \in Starters |-> {}]
    /\ overtaken = {} /\ crossed = FALSE

Launch(p) ==
    /\ run[p].step = "off"
    /\ Become(p, Attempt("try", IF p \in Daemons THEN "workspace" ELSE "lifecycle", 1))
    /\ UNCHANGED <<file, judged, tokens, overtaken, crossed>>

\* workspace and lifecycle: O_CREAT | O_EXCL, then the record is written.
Create(p, f) ==
    /\ f # "daemon" /\ On(p, f, "try")
    /\ IF file[f] = Missing
         THEN file' = [file EXCEPT ![f] = Unwritten(p)] /\ To(p, "write")
         ELSE UNCHANGED file /\ To(p, "read")
    /\ UNCHANGED <<judged, tokens>>

\* The write reaches the file p created; it may have been removed, and another be there.
WriteOwner(p, f) ==
    /\ On(p, f, "write")
    /\ file' = [file EXCEPT ![f] = IF @ = Unwritten(p) THEN Named(p) ELSE @]
    /\ tokens' = [tokens EXCEPT ![p] = @ \cup {f}]
    /\ Become(p, Got(f))
    /\ UNCHANGED judged

\* daemon: the record is read first.
Reads(p, f) == On(p, f, "read") \/ (f = "daemon" /\ On(p, f, "try"))

ReadOwner(p, f) ==
    /\ Reads(p, f) /\ file[f].state = "named"
    /\ judged' = [judged EXCEPT ![p] = file[f].owner]
    /\ To(p, "judge")
    /\ UNCHANGED <<file, tokens>>

\* No record: the workspace lock is respected, a lifecycle lock removed, a daemon lock published.
TornIsRespected(p, f) ==  \* mutant: a lifecycle lock without a record is respected
    /\ Reads(p, f) /\ file[f].state # "named"
    /\ IF f = "daemon" THEN To(p, "link") ELSE Become(p, TurnedAway(p, f))
    /\ UNCHANGED <<file, judged, tokens>>

TornIsStale(p, f) ==  \* mutant: a workspace lock without a record is taken over
    /\ Reads(p, f) /\ file[f].state # "named"
    /\ To(p, IF f = "daemon" THEN "link" ELSE "unlink")
    /\ UNCHANGED <<file, judged, tokens>>

ReadNothing(p, f) ==
    /\ Reads(p, f) /\ file[f].state # "named"
    /\ CASE f = "workspace" -> Become(p, TurnedAway(p, f))
         [] f = "lifecycle" -> To(p, "unlink")
         [] f = "daemon" -> To(p, "link")
    /\ UNCHANGED <<file, judged, tokens>>

\* _publish_lock: a finished file is linked to the name of the lock, unless there is one.
Publish(p) ==
    /\ On(p, "daemon", "link")
    /\ IF file["daemon"] = Missing
         THEN /\ file' = [file EXCEPT !["daemon"] = Named(p)]
              /\ tokens' = [tokens EXCEPT ![p] = @ \cup {"daemon"}]
              /\ Become(p, Got("daemon"))
         ELSE Become(p, Again(p)) /\ UNCHANGED <<file, tokens>>
    /\ UNCHANGED judged

AgeIsEnough(p, f) ==  \* mutant: nobody looks whether the owner is alive
    /\ On(p, f, "judge")
    /\ To(p, "unlink")
    /\ UNCHANGED <<file, judged, tokens>>

JudgeOwner(p, f) ==
    /\ On(p, f, "judge")
    /\ IF Exists(judged[p]) THEN Become(p, TurnedAway(p, f)) ELSE To(p, "unlink")
    /\ UNCHANGED <<file, judged, tokens>>

Unlink(p, f) ==
    /\ On(p, f, "unlink")
    /\ file' = [file EXCEPT ![f] = Missing]
    /\ Become(p, Again(p))
    /\ UNCHANGED <<judged, tokens>>

\* An iteration of the daemon, the end of its stages, and its shutdown.
Iterate(p) ==
    /\ run[p].step = "loop"
    /\ Become(p, Attempt("try", "lifecycle", 1))
    /\ UNCHANGED <<file, judged, tokens, overtaken, crossed>>

EndStages(p) ==
    /\ run[p].step = "stages"
    /\ Become(p, Attempt("check", "lifecycle", 0))
    /\ UNCHANGED <<file, judged, tokens>>

Shutdown(p) ==
    /\ run[p].step = "loop"
    /\ Become(p, Attempt("check", "daemon", 0))
    /\ UNCHANGED <<file, judged, tokens, overtaken, crossed>>

\* Every release reads the record, compares the token, and removes the file.
ReleaseCheck(p, f) ==
    /\ On(p, f, "check")
    /\ IF file[f] = Named(p)
         THEN To(p, "remove") /\ UNCHANGED tokens
         ELSE Become(p, Freed(p, f)) /\ tokens' = [tokens EXCEPT ![p] = @ \ {f}]
    /\ UNCHANGED <<file, judged>>

Remove(p, f) ==
    /\ On(p, f, "remove")
    /\ file' = [file EXCEPT ![f] = Missing]
    /\ tokens' = [tokens EXCEPT ![p] = @ \ {f}]
    /\ Become(p, Freed(p, f))
    /\ UNCHANGED judged

Kill(p) ==
    /\ p \in Mortal /\ Exists(p)
    /\ Become(p, Outside("dead"))
    /\ tokens' = [tokens EXCEPT ![p] = {}]
    /\ UNCHANGED <<file, judged, overtaken, crossed>>

\* One file operation of a call.
Operates(p) ==
    \/ EndStages(p)
    \/ Publish(p)
    \/ \E f \in Locks :
         \/ Create(p, f)
         \/ WriteOwner(p, f)
         \/ ReadOwner(p, f)
         \/ ReadNothing(p, f)
         \/ JudgeOwner(p, f)
         \/ Unlink(p, f)
         \/ ReleaseCheck(p, f)
         \/ Remove(p, f)

Proceed(p) == Operates(p) /\ Remembers(p)

\* What a process does of itself: one of these is always to come, until it is killed.
GoesOn(p) == Launch(p) \/ Iterate(p) \/ Shutdown(p) \/ Proceed(p)

OwnersNext ==
    \E p \in Starters : Launch(p) \/ Iterate(p) \/ Shutdown(p) \/ Kill(p) \/ Proceed(p)

OwnersSpec == OwnersInit /\ [][OwnersNext]_ownerVars

\* A process that is not killed goes on; a daemon that is not shut down iterates; operators
\* and the daily shift start processes again and again.
OwnersFairness == \A p \in Starters : WF_ownerVars(GoesOn(p))
-----------------------------------------------------------------------------
(* Properties. *)

\* The lock files, the steps of the processes and their tokens are well formed.
OwnersTypeOK ==
    /\ file \in [Locks -> {Missing} \cup {Unwritten(p) : p \in Starters} \cup {Named(p) : p \in Starters}]
    /\ run \in [Starters -> [step : {"off", "dead", "loop", "stages", "try", "write", "read", "judge", "link",
                                     "unlink", "check", "remove"},
                             lock : Locks \cup {None}, try : 0 .. 2]]
    /\ judged \in [Starters -> Starters]
    /\ tokens \in [Starters -> SUBSET Locks]
    /\ overtaken \subseteq Starters /\ crossed \in BOOLEAN

\* "Reclaims only a dead owner" (test_workspace_write_lock.py) and "release is token fenced":
\* until a call acts on a file that another has changed since it looked, the file of every lock
\* a process holds a token of names that process, through calls that overlap, deaths at any
\* point, takeovers and refused starts.
HolderIsNamed ==
    ~crossed => \A p \in Starters : \A f \in tokens[p] : file[f] = Named(p)

\* "Keeps malformed record fail closed" (test_workspace_write_lock.py): a workspace lock
\* whose creator died before its record was complete stays for good, unless such a call
\* removes it.
TornLockStays ==
    [][\A p \in Starters :
         file["workspace"] = Unwritten(p) /\ ~Exists(p)
           => file'["workspace"] = file["workspace"] \/ crossed']_ownerVars

\* "test_daemon_process_lock_excludes_second_daemon": no two daemons hold the daemon lock.
OneDaemon ==
    \A p, q \in Starters : "daemon" \in tokens[p] /\ "daemon" \in tokens[q] => p = q

\* A dead process blocks nobody for good, as long as one process lives that needs the lock,
\* and unless it died while it created the workspace lock: its files are taken over.  (After a
\* crossing a daemon may run without its file and never look at another's again.)
Orphan(f) == file[f] # Missing /\ ~Exists(file[f].owner)
Needed(f) == \E p \in Starters : run[p].step # "dead" /\ (p \in Onces => f = "lifecycle")
OrphansReplaced ==
    \A f \in Locks :
        Orphan(f) /\ Needed(f) ~> ~Orphan(f) \/ ~Needed(f) \/ file["workspace"].state = "unwritten" \/ crossed
=============================================================================
