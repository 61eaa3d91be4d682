------------------------------ MODULE PoolLock ------------------------------
(***************************************************************************)
(* The lock file of a task pool (TaskPool._locked and _remove_stale_lock   *)
(* in core/task.py): created with O_EXCL, then the pid is written into it; *)
(* a waiter that finds the pid dead unlinks the file by its path.  A       *)
(* process is one incarnation: one that crashes never comes back, and a    *)
(* restart is another member of Procs.  Reuse of a dead pid by the         *)
(* operating system, which only delays a takeover, is left out.            *)
(*                                                                         *)
(* PinsOpenFiles is the platform: Windows refuses to unlink a file that    *)
(* somebody has open, POSIX does not.                                      *)
(***************************************************************************)
EXTENDS Integers, FiniteSets

CONSTANTS
    Procs,          \* process incarnations
    Running,        \* those that already hold a TaskPool when the model starts
    MaxAlive,       \* bound on the processes running at the same time
    PinsOpenFiles   \* TRUE: unlink of an open file fails

ASSUME LockAssumption ==
    Running \subseteq Procs /\ MaxAlive \in Nat /\ PinsOpenFiles \in BOOLEAN

VARIABLES
    lockFile,  \* the file at the lock path: who created it, and is the pid in it yet
    at         \* at[p]: how far process p is

lockVars == <<lockFile, at>>

NoFile == [by |-> "none"]
LockFile(p, hasPid) == [by |-> p, pid |-> hasPid]

Outside == {"out"}
Waiting == {"try", "check", "remove"}
Owning == {"opened", "held"}     \* between O_EXCL and the end of the with block
Gone == {"new", "dead"}

Alive(p) == at[p] \notin Gone
Go(p, place) == at' = [at EXCEPT ![p] = place]

LockInit ==
    /\ lockFile = NoFile
    /\ at = [p \in Procs |-> IF p \in Running THEN "out" ELSE "new"]

Boot(p) ==
    /\ at[p] = "new"
    /\ Cardinality({q \in Procs : Alive(q)}) < MaxAlive
    /\ Go(p, "out")
    /\ UNCHANGED lockFile

Enter(p) ==
    /\ at[p] = "out"
    /\ Go(p, "try")
    /\ UNCHANGED lockFile

CreateExclusive(p) ==
    /\ at[p] = "try"
    /\ IF lockFile = NoFile
         THEN lockFile' = LockFile(p, FALSE) /\ Go(p, "opened")
         ELSE Go(p, "check") /\ UNCHANGED lockFile

WritePidRaises(p) ==  \* mutant: an error of the write leaves a place no code handles
    /\ at[p] = "opened"
    /\ Go(p, "failed")
    /\ UNCHANGED lockFile

\* os.write goes to the descriptor: it reaches the path only if the file is still there.
WritePid(p) ==
    /\ at[p] = "opened"
    /\ lockFile' = IF lockFile.by = p THEN LockFile(p, TRUE) ELSE lockFile
    /\ Go(p, "held")

\* A file without a pid is stale after 60 s; a live creator writes its pid well before that.
Stale(f) == f # NoFile /\ ~Alive(f.by)

\* Read the pid, ask whether it runs.  A young empty file, or a live pid, is waited
\* for until the 10 s deadline.
CheckOwner(p) ==
    /\ at[p] = "check"
    /\ \/ lockFile = NoFile /\ Go(p, "try")
       \/ Stale(lockFile) /\ Go(p, "remove")
       \/ lockFile # NoFile /\ (Alive(lockFile.by) \/ ~lockFile.pid) /\ (Go(p, "try") \/ Go(p, "out"))
    /\ UNCHANGED lockFile

\* Can p's unlink of the lock path succeed, can it fail?  The owner keeps its
\* descriptor open, a waiter at "check" may be reading the file.
OwnerHadItOpen == lockFile # NoFile /\ at[lockFile.by] = "opened"  \* mutant: closed once the pid is written
OwnerHasItOpen == lockFile # NoFile /\ at[lockFile.by] \in Owning
UnlinksAnything == TRUE  \* mutant: the owner's open descriptor does not protect the file
MayUnlink == ~(PinsOpenFiles /\ OwnerHasItOpen)
MayFail(p) == PinsOpenFiles /\ lockFile # NoFile /\ (OwnerHasItOpen \/ \E q \in Procs \ {p} : at[q] = "check")

\* What the path holds by now is unlinked, whatever was read; PermissionError ends the attempt.
RemoveStale(p) ==
    /\ at[p] = "remove"
    /\ \/ MayUnlink /\ lockFile' = NoFile /\ Go(p, "try")
       \/ MayFail(p) /\ UNCHANGED lockFile /\ Go(p, "out")

\* The finally block: close the descriptor, then unlink the path without a look at it.
CloseLock(p) ==
    /\ at[p] = "held"
    /\ Go(p, "closed")
    /\ UNCHANGED lockFile

UnlinkLock(p) ==
    /\ at[p] = "closed"
    /\ \/ MayUnlink /\ lockFile' = NoFile
       \/ MayFail(p) /\ UNCHANGED lockFile
    /\ Go(p, "out")

Crash(p) ==
    /\ Alive(p)
    /\ Go(p, "dead")
    /\ UNCHANGED lockFile

LockNext ==
    \E p \in Procs :
        \/ Boot(p)
        \/ Enter(p)
        \/ CreateExclusive(p)
        \/ WritePid(p)
        \/ CheckOwner(p)
        \/ RemoveStale(p)
        \/ CloseLock(p)
        \/ UnlinkLock(p)
        \/ Crash(p)

LockSpec == LockInit /\ [][LockNext]_lockVars
-----------------------------------------------------------------------------
(* Properties. *)

\* The lock file and the places of the processes are well formed.
LockTypeOK ==
    /\ lockFile \in [by : Procs, pid : BOOLEAN] \cup {NoFile}
    /\ at \in [Procs -> Outside \cup Waiting \cup Owning \cup Gone \cup {"closed"}]

\* "A TaskPool lock protects create, claim, transition ..."
\* (24h-runtime-mainline-design.md): two processes are never inside the pool's with block.
MutualExclusion == \A p, q \in Procs : at[p] = "held" /\ at[q] = "held" => p = q

\* The file on disk tells the waiters who is inside: nobody takes a held lock for a dead one.
HolderOwnsFile == \A p \in Procs : at[p] = "held" => lockFile = LockFile(p, TRUE)

\* "Stale lock file does not block task claim" (test_24h_runtime_mainline.py): the lock
\* file of a process that has left the with block and lives on is gone, for no waiter
\* would ever take it for stale.
ReleasedLockIsGone ==
    lockFile # NoFile /\ Alive(lockFile.by) => at[lockFile.by] \in Owning \cup {"closed"}
=============================================================================
