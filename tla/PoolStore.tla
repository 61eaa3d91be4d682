------------------------------ MODULE PoolStore ------------------------------
(***************************************************************************)
(* The files under a task pool (core/task.py): one directory per status, a *)
(* task is <id>.json in the directory of its status, task_index.json maps  *)
(* ids to statuses.  A lock-held operation writes a temporary file,        *)
(* renames it into place, unlinks the other copies and rewrites the index; *)
(* a process may die between any two of these.  Every TaskPool constructor *)
(* first runs recover_incomplete_transitions, WITHOUT the pool's lock, and *)
(* some twenty command-line tools construct one next to the daemon, which  *)
(* runs the same recovery again in every lifecycle iteration.              *)
(*                                                                         *)
(* The clock counts the writes: it is taken to be monotone and fine enough *)
(* to tell two of them apart.  A copy carries updated_at (stamp), the time *)
(* at which it was written (wrote, the file's mtime) and its own status.   *)
(* Every write refreshes updated_at but one: the archive that move_task    *)
(* refuses for want of a delivery receipt writes the caller's object, of   *)
(* whatever age, into the directory of the stored record's status.         *)
(* A task's identity is the stamp of the write that created it.  All ids   *)
(* are ids of one day, numbered from 1.                                    *)
(***************************************************************************)
EXTENDS PoolLock, Sequences

CONSTANTS
    Daemons,       \* processes that run recovery again while they live
    DirOrder,      \* the status directories, in the order of TASK_STATUSES
    Ids,           \* task ids, 1 .. n
    Preloaded,     \* how many tasks the pool holds to begin with
    MaxTasks,      \* bound on the tasks ever created
    MaxStamp,      \* bound on the writes
    MaxRefused,    \* bound on the refused archives
    SharingFaults  \* TRUE: a reader that has the file open makes a rename or unlink fail

ASSUME StoreAssumption ==
    /\ Ids \subseteq Nat \ {0} /\ Preloaded \in Nat /\ 1 .. Preloaded \subseteq Ids
    /\ MaxTasks \in Nat /\ MaxStamp \in Nat /\ MaxRefused \in Nat
    /\ SharingFaults \in BOOLEAN /\ Len(DirOrder) \in Nat \ {0} /\ Daemons \subseteq Procs

Dirs == {DirOrder[k] : k \in 1 .. Len(DirOrder)}

VARIABLES
    files,  \* files[i][d]: the copy of task i in directory d, or NoCopy
    index,  \* index[i]: the directory task_index.json names; a torn or missing file names none
    tmp,    \* tmp[p]: p's temporary file is on disk
    op,     \* op[p]: what p is in the middle of
    stamp,  \* the clock
    made,   \* the tasks created so far (history)
    refused \* how many refused archives have been written (history)

storeVars == <<lockFile, at, files, index, tmp, op, stamp, made, refused>>

NoDir == "none"
NoCopy == [task |-> 0, stamp |-> 0, wrote |-> 0, status |-> NoDir]

ASSUME NoDirIsNoStatus == NoDir \notin Dirs

NotTouched == stamp  \* mutant: updated_at is not refreshed
Touched == stamp + 1
EmptyIndex == [i \in Ids |-> NoDir]
Idle == [step |-> "none"]

Copies(i) == {d \in Dirs : files[i][d] # NoCopy}

Untouched(c) == c.stamp < c.wrote   \* written by a refused archive

\* The order of _find_task_file: updated_at, then mtime.
NoLater(c, e) == c.stamp < e.stamp \/ (c.stamp = e.stamp /\ c.wrote <= e.wrote)

ChosenByRank(i) ==  \* mutant: the directory furthest along the lifecycle wins
    LET k == CHOOSE k \in 1 .. Len(DirOrder) :
                 DirOrder[k] \in Copies(i) /\ \A l \in k + 1 .. Len(DirOrder) : DirOrder[l] \notin Copies(i)
    IN DirOrder[k]
Chosen(i) == CHOOSE d \in Copies(i) : \A e \in Copies(i) : NoLater(files[i][e], files[i][d])

\* list_tasks without a status: what the index names and the disk has; with an empty
\* index, every file.
Listed ==
    IF index = EmptyIndex THEN {i \in Ids : Copies(i) # {}}
    ELSE {i \in Ids : index[i] # NoDir /\ index[i] \in Copies(i)}

Step(p, o) == op' = [op EXCEPT ![p] = o]
At(p, step) == Alive(p) /\ op[p].step = step
FilesAlone == UNCHANGED <<files, stamp, made, refused>>
LockAlone == UNCHANGED lockVars

StoreInit ==
    /\ LockInit
    /\ files = [i \in Ids |-> [d \in Dirs |->
                  IF i <= Preloaded /\ d = DirOrder[1]
                    THEN [task |-> i, stamp |-> i, wrote |-> i, status |-> d] ELSE NoCopy]]
    /\ index = [i \in Ids |-> IF i <= Preloaded THEN DirOrder[1] ELSE NoDir]
    /\ tmp = [p \in Procs |-> FALSE]
    /\ op = [p \in Procs |-> Idle]
    /\ stamp = Preloaded
    /\ made = 1 .. Preloaded
    /\ refused = 0
-----------------------------------------------------------------------------
(* Lock-held operations. *)

\* A write of task i (0: a new one): seen is the updated_at it carries (0: it is refreshed).
Write(i, dir, task, seen, status) ==
    [step |-> "write", id |-> i, to |-> dir, task |-> task, seen |-> seen, status |-> status]

\* move_task, update_task, claim_task ...: the record is loaded and rewritten under
\* its old or a new status.
BeginMove(p) ==
    /\ at[p] = "held" /\ op[p].step = "none" /\ stamp < MaxStamp
    /\ \E i \in Ids, d \in Dirs :
         /\ Copies(i) # {}
         /\ Step(p, Write(i, d, files[i][Chosen(i)].task, 0, d))
    /\ LockAlone /\ FilesAlone /\ UNCHANGED <<index, tmp>>

\* move_task to archived, refused: the caller's object may be of any age and status, and goes
\* where the status of the stored record says.
BeginRefused(p) ==
    /\ at[p] = "held" /\ op[p].step = "none" /\ stamp < MaxStamp /\ refused < MaxRefused
    /\ \E i \in Ids, status \in Dirs :
         /\ Copies(i) # {}
         /\ LET stored == files[i][Chosen(i)]
            IN \E seen \in stored.task .. stamp :
                 Step(p, Write(i, stored.status, stored.task, seen, status))
    /\ LockAlone /\ FilesAlone /\ UNCHANGED <<index, tmp>>

\* create_task: the new id is one more than the number of tasks listed.
BeginCreate(p) ==
    /\ at[p] = "held" /\ op[p].step = "none" /\ stamp < MaxStamp
    /\ Cardinality(made) < MaxTasks
    /\ LET i == Cardinality(Listed) + 1
       IN i \in Ids /\ Step(p, Write(i, DirOrder[1], 0, 0, DirOrder[1]))
    /\ LockAlone /\ FilesAlone /\ UNCHANGED <<index, tmp>>

UnlinkFirst(p) ==  \* mutant: the old representation is removed before the new one is durable
    /\ At(p, "write")
    /\ tmp' = [tmp EXCEPT ![p] = TRUE]
    /\ Step(p, [op[p] EXCEPT !.step = "rename"])
    /\ files' = [files EXCEPT ![op[p].id] = [d \in Dirs |-> NoCopy]]
    /\ LockAlone /\ UNCHANGED <<index, stamp, made, refused>>

WriteTemporary(p) ==
    /\ At(p, "write")
    /\ tmp' = [tmp EXCEPT ![p] = TRUE]
    /\ Step(p, [op[p] EXCEPT !.step = "rename"])
    /\ LockAlone /\ FilesAlone /\ UNCHANGED index

\* os.replace, the moment the new version is the task.  If a starting process has
\* deleted the temporary file, or a reader has the target open, it raises.  A refused
\* archive ends here.
Rename(p) ==
    /\ At(p, "rename")
    /\ LET o == op[p]
           new == [task |-> IF o.task = 0 THEN Touched ELSE o.task,
                   stamp |-> IF o.seen = 0 THEN Touched ELSE o.seen, wrote |-> Touched, status |-> o.status]
       IN \/ /\ tmp[p]
             /\ files' = [files EXCEPT ![o.id][o.to] = new]
             /\ stamp' = Touched
             /\ made' = made \cup {new.task}
             /\ refused' = IF o.seen = 0 THEN refused ELSE refused + 1
             /\ Step(p, IF o.seen # 0 THEN Idle
                        ELSE [step |-> IF o.task = 0 THEN "index" ELSE "unlink", id |-> o.id, to |-> o.to,
                              others |-> Copies(o.id) \ {o.to}])
          \/ /\ ~tmp[p] \/ (SharingFaults /\ files[o.id][o.to] # NoCopy)
             /\ Step(p, Idle) /\ FilesAlone
    /\ tmp' = [tmp EXCEPT ![p] = FALSE]
    /\ LockAlone /\ UNCHANGED index

\* _transition unlinks the copies in the other directories, one by one; only a missing
\* file is forgiven.
Unlink(p) ==
    /\ At(p, "unlink")
    /\ LET o == op[p]
       IN IF o.others = {}
            THEN Step(p, [o EXCEPT !.step = "index"]) /\ UNCHANGED files
            ELSE \E d \in o.others :
                   \/ /\ files' = [files EXCEPT ![o.id][d] = NoCopy]
                      /\ Step(p, [o EXCEPT !.others = @ \ {d}])
                   \/ /\ SharingFaults /\ files[o.id][d] # NoCopy
                      /\ Step(p, Idle) /\ UNCHANGED files
    /\ LockAlone /\ UNCHANGED <<index, tmp, stamp, made, refused>>

\* _update_index reads the index and opens it for writing, which truncates it, ...
UpdateIndex(p) ==
    /\ At(p, "index")
    /\ index' = EmptyIndex
    /\ Step(p, [step |-> "save", idx |-> [index EXCEPT ![op[p].id] = op[p].to]])
    /\ LockAlone /\ FilesAlone /\ UNCHANGED tmp

\* ... then the new content arrives.
SaveIndex(p) ==
    /\ At(p, "save")
    /\ index' = op[p].idx
    /\ Step(p, Idle)
    /\ LockAlone /\ FilesAlone /\ UNCHANGED tmp
-----------------------------------------------------------------------------
(* recover_incomplete_transitions, without the lock. *)

Construct(p) ==
    /\ Boot(p)
    /\ Step(p, [step |-> "sweep"])
    /\ FilesAlone /\ UNCHANGED <<index, tmp>>

\* recover_task_pool of the daemon.
Recover(p) ==
    /\ p \in Daemons
    /\ at[p] = "out" /\ op[p].step = "none"
    /\ Step(p, [step |-> "sweep"])
    /\ LockAlone /\ FilesAlone /\ UNCHANGED <<index, tmp>>

\* Every temporary file goes, whoever is writing it.
SweepTemporaries(p) ==
    /\ At(p, "sweep")
    /\ tmp' = [q \in Procs |-> FALSE]
    /\ Step(p, [step |-> "look", ids |-> {i \in Ids : Copies(i) # {}}])
    /\ LockAlone /\ FilesAlone /\ UNCHANGED index

LookForDuplicates(p) ==
    /\ At(p, "look")
    /\ IF op[p].ids = {}
         THEN Step(p, [step |-> "scan", dir |-> 1, idx |-> EmptyIndex])
         ELSE \E i \in op[p].ids :
                Step(p, IF Cardinality(Copies(i)) <= 1
                          THEN [op[p] EXCEPT !.ids = @ \ {i}]
                          ELSE [step |-> "choose", ids |-> op[p].ids \ {i}, id |-> i, seen |-> Copies(i)])
    /\ LockAlone /\ FilesAlone /\ UNCHANGED <<index, tmp>>

\* The copy to keep is chosen from a second listing.
Choose(p) ==
    /\ At(p, "choose")
    /\ LET o == op[p]
           keep == IF Copies(o.id) = {} THEN {} ELSE {Chosen(o.id)}
       IN Step(p, [step |-> "prune", ids |-> o.ids, id |-> o.id, others |-> o.seen \ keep])
    /\ LockAlone /\ FilesAlone /\ UNCHANGED <<index, tmp>>

Prune(p) ==
    /\ At(p, "prune")
    /\ LET o == op[p]
       IN /\ files' = [files EXCEPT ![o.id] = [d \in Dirs |-> IF d \in o.others THEN NoCopy ELSE files[o.id][d]]]
          /\ Step(p, [step |-> "look", ids |-> o.ids])
    /\ LockAlone /\ UNCHANGED <<index, tmp, stamp, made, refused>>

\* _rebuild_index reads one directory after the other.
ScanDirectory(p) ==
    /\ At(p, "scan") /\ op[p].dir <= Len(DirOrder)
    /\ LET d == DirOrder[op[p].dir]
       IN Step(p, [op[p] EXCEPT !.dir = @ + 1,
                                !.idx = [i \in Ids |-> IF d \in Copies(i) THEN d ELSE op[p].idx[i]]])
    /\ LockAlone /\ FilesAlone /\ UNCHANGED <<index, tmp>>

IndexKept(p) ==  \* mutant: recovery does not rebuild the index
    /\ At(p, "scan") /\ op[p].dir > Len(DirOrder)
    /\ Step(p, Idle)
    /\ LockAlone /\ FilesAlone /\ UNCHANGED <<index, tmp>>

RebuildIndex(p) ==
    /\ At(p, "scan") /\ op[p].dir > Len(DirOrder)
    /\ index' = EmptyIndex
    /\ Step(p, [step |-> "save", idx |-> op[p].idx])
    /\ LockAlone /\ FilesAlone /\ UNCHANGED tmp
-----------------------------------------------------------------------------
\* A process takes the lock when it is not in its constructor, and gives it up when its
\* operation is over or has raised.
LockStep(p) ==
    /\ op[p].step = "none"
    /\ Enter(p) \/ CreateExclusive(p) \/ WritePid(p) \/ CheckOwner(p) \/ RemoveStale(p)
          \/ CloseLock(p) \/ UnlinkLock(p)
    /\ FilesAlone /\ UNCHANGED <<index, tmp, op>>

\* The temporary file of a dead process is litter nobody reads.
Die(p) ==
    /\ Crash(p)
    /\ Step(p, Idle)
    /\ tmp' = [tmp EXCEPT ![p] = FALSE]
    /\ FilesAlone /\ UNCHANGED index

StoreNext ==
    \E p \in Procs :
        \/ BeginMove(p) \/ BeginRefused(p) \/ BeginCreate(p)
        \/ WriteTemporary(p) \/ Rename(p) \/ Unlink(p) \/ UpdateIndex(p) \/ SaveIndex(p)
        \/ Construct(p) \/ Recover(p)
        \/ SweepTemporaries(p) \/ LookForDuplicates(p) \/ Choose(p) \/ Prune(p)
        \/ ScanDirectory(p) \/ RebuildIndex(p)
        \/ LockStep(p) \/ Die(p)

StoreSpec == StoreInit /\ [][StoreNext]_storeVars
-----------------------------------------------------------------------------
(* Properties. *)

\* Every copy, the index and the operations in progress are well formed.
StoreTypeOK ==
    /\ LockTypeOK
    /\ files \in [Ids -> [Dirs -> [task : 0 .. stamp, stamp : 0 .. stamp, wrote : 0 .. stamp,
                                   status : Dirs \cup {NoDir}]]]
    /\ index \in [Ids -> Dirs \cup {NoDir}]
    /\ tmp \in [Procs -> BOOLEAN]
    /\ \A p \in Procs : op[p].step \in {"none", "write", "rename", "unlink", "index", "save", "sweep",
                                        "look", "choose", "prune", "scan"}
    /\ made \subseteq 1 .. stamp /\ refused \in 0 .. stamp

\* What load_task returns: the latest copy.
Latest(i) == CHOOSE c \in {files[i][d] : d \in Copies(i)} : \A d \in Copies(i) : NoLater(files[i][d], c)
Loaded(i) == IF Copies(i) = {} THEN NoCopy ELSE Latest(i)

\* "Interruption cannot make a task disappear" (24h-runtime-mainline-design.md): every task
\* ever created is what load_task returns for some id.
TaskNeverDisappears == \A k \in made : \E i \in Ids : Loaded(i).task = k

\* The directory is an atomic store: whatever is interrupted, a load returns the last
\* version renamed into place, and nothing but a refused archive takes a version back.
Durable == INSTANCE DurableStore WITH Missing <- NoCopy, rec <- [i \in Ids |-> Loaded(i)], refusals <- refused
ImplementsDurableStore == Durable!DurableSpec

\* After its constructor a lone process finds that the index names a copy of every task that
\* has any, so list_tasks and the numbering of new tasks see every task.  A copy that the index
\* does not name is one that a refused archive has written beside it.
ReadyPoolIsClean ==
    \A p \in Procs :
        at[p] = "out" /\ op[p].step = "none" =>
            \A i \in Ids :
                /\ IF index[i] = NoDir THEN Copies(i) = {} ELSE index[i] \in Copies(i)
                /\ \A d \in Copies(i) \ {index[i]} : Untouched(files[i][d])
=============================================================================
