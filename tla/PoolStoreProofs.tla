--------------------------- MODULE PoolStoreProofs ---------------------------
(* What the lock file and the files under a pool guarantee, for any number of processes,    *)
(* tasks and writes.                                                                         *)
EXTENDS MCPoolFaults, TLAPS, FiniteSetTheorems

LOCAL Ordered == INSTANCE WellFoundedInduction

-----------------------------------------------------------------------------
(* The lock file alone, for any number of processes, and on which platform. *)

\* The absence of the file is not mistaken for a file.
LEMMA NoFileIsNoLockFile == \A p \in Procs, b \in BOOLEAN : LockFile(p, b) # NoFile
<1> SUFFICES ASSUME NEW p \in Procs, NEW b \in BOOLEAN PROVE LockFile(p, b) # NoFile
  OBVIOUS
<1>1. "pid" \in DOMAIN LockFile(p, b)
  BY DEF LockFile
<1>2. "pid" \notin DOMAIN NoFile
  BY DEF NoFile
<1> QED BY <1>1, <1>2

LEMMA LockTypeInitial == LockInit => LockTypeOK
  BY LockAssumption DEF LockInit, LockTypeOK, NoFile, Outside, Gone

LEMMA LockTypeStep == LockTypeOK /\ [LockNext]_lockVars => LockTypeOK'
<1> SUFFICES ASSUME LockTypeOK, [LockNext]_lockVars PROVE LockTypeOK'
    OBVIOUS
<1> USE DEF LockTypeOK, Outside, Waiting, Owning, Gone, Go, LockFile
<1>1. ASSUME NEW p \in Procs, Boot(p) \/ Enter(p) \/ Crash(p) \/ CloseLock(p) \/ CheckOwner(p) PROVE LockTypeOK'
    BY <1>1 DEF Boot, Enter, Crash, CloseLock, CheckOwner
<1>2. ASSUME NEW p \in Procs, CreateExclusive(p) PROVE LockTypeOK'
  <2>1. LockFile(p, FALSE) \in [by : Procs, pid : BOOLEAN]
      OBVIOUS
  <2>2. lockFile' \in {lockFile, LockFile(p, FALSE)}
      BY <1>2 DEF CreateExclusive
  <2>3. at' = [at EXCEPT ![p] = "opened"] \/ at' = [at EXCEPT ![p] = "check"]
      BY <1>2 DEF CreateExclusive
  <2>4. QED BY <2>1, <2>2, <2>3
<1>3. ASSUME NEW p \in Procs, WritePid(p) PROVE LockTypeOK'
    BY <1>3 DEF WritePid
<1>4. ASSUME NEW p \in Procs, RemoveStale(p) \/ UnlinkLock(p) PROVE LockTypeOK'
    BY <1>4 DEF RemoveStale, UnlinkLock
<1>5. CASE UNCHANGED lockVars
    BY <1>5 DEF lockVars
<1>6. QED BY <1>1, <1>2, <1>3, <1>4, <1>5 DEF LockNext

\* The lock file and the places of the processes stay well formed.
THEOREM LockTypeCorrect == LockSpec => []LockTypeOK
BY LockTypeInitial, LockTypeStep, PTL DEF LockSpec

\* What makes the mutual exclusion inductive on a platform that pins open files: from
\* O_EXCL to the end of the with block the file at the path is the owner's.
OwnersFile ==
    \A p \in Procs :
        /\ at[p] = "opened" => lockFile \in {LockFile(p, FALSE), LockFile(p, TRUE)}
        /\ at[p] = "held" => lockFile = LockFile(p, TRUE)

\* A step of one process does not touch the file another one has open.
LEMMA OwnersFileKept ==
    ASSUME PinsOpenFiles, LockTypeOK, OwnersFile, [LockNext]_lockVars
    PROVE  OwnersFile'
<1> USE DEF LockTypeOK, OwnersFile, Go, Outside, Waiting, Owning, Gone
<1>0. \A q \in Procs, b \in BOOLEAN : LockFile(q, b).by = q
  BY DEF LockFile
<1>1. ASSUME NEW p \in Procs, Boot(p) \/ Enter(p) \/ Crash(p) \/ CloseLock(p) \/ CheckOwner(p) PROVE OwnersFile'
  BY <1>1 DEF Boot, Enter, Crash, CloseLock, CheckOwner
<1>2. ASSUME NEW p \in Procs, CreateExclusive(p) PROVE OwnersFile'
  <2>1. CASE lockFile = NoFile
    <3>1. \A q \in Procs : at[q] \notin Owning
      BY <2>1, NoFileIsNoLockFile
    <3> QED
      BY <1>2, <2>1, <3>1 DEF CreateExclusive
  <2>2. CASE lockFile # NoFile
    BY <1>2, <2>2 DEF CreateExclusive
  <2> QED
    BY <2>1, <2>2
<1>3. ASSUME NEW p \in Procs, WritePid(p) PROVE OwnersFile'
  <2>1. lockFile.by = p
    BY <1>3, <1>0 DEF WritePid
  <2>2. \A q \in Procs : at[q] \in Owning => q = p
    BY <2>1, <1>0
  <2>3. lockFile' = LockFile(p, TRUE) /\ at' = [at EXCEPT ![p] = "held"]
    BY <1>3, <2>1 DEF WritePid
  <2> QED
    BY <2>2, <2>3
<1>4. ASSUME NEW p \in Procs, RemoveStale(p) \/ UnlinkLock(p) PROVE OwnersFile'
  <2>1. at[p] \notin Owning /\ (at' = [at EXCEPT ![p] = "try"] \/ at' = [at EXCEPT ![p] = "out"])
    BY <1>4 DEF RemoveStale, UnlinkLock
  <2>2. CASE lockFile' = lockFile
    BY <2>1, <2>2
  <2>3. CASE ~OwnerHasItOpen
    <3>1. \A q \in Procs : at[q] \notin Owning
      BY <2>3, <1>0, NoFileIsNoLockFile DEF OwnerHasItOpen
    <3> QED
      BY <2>1, <3>1
  <2>4. lockFile' = lockFile \/ ~OwnerHasItOpen
    BY <1>4 DEF RemoveStale, UnlinkLock, MayUnlink
  <2> QED
    BY <2>2, <2>3, <2>4
<1>5. CASE UNCHANGED lockVars
  BY <1>5 DEF lockVars
<1> QED
  BY <1>1, <1>2, <1>3, <1>4, <1>5 DEF LockNext

LEMMA OwnersExclude == OwnersFile => MutualExclusion /\ HolderOwnsFile
<1> SUFFICES ASSUME OwnersFile PROVE MutualExclusion /\ HolderOwnsFile
  OBVIOUS
<1>1. HolderOwnsFile
  BY DEF OwnersFile, HolderOwnsFile
<1>2. \A q \in Procs : LockFile(q, TRUE).by = q
  BY DEF LockFile
<1>3. MutualExclusion
  BY <1>1, <1>2 DEF HolderOwnsFile, MutualExclusion
<1> QED
  BY <1>1, <1>3

LEMMA OwnersFileInitial == LockInit => OwnersFile
  BY DEF LockInit, OwnersFile

\* On Windows, where the owner's open descriptor protects the file, two processes are
\* never in the with block at once, however many die and however stale the waiters' views.
THEOREM PinnedLockExcludes ==
    ASSUME PinsOpenFiles PROVE LockSpec => []MutualExclusion
<1>1. LockTypeOK /\ OwnersFile /\ [LockNext]_lockVars => OwnersFile'
  BY OwnersFileKept
<1> QED
  BY <1>1, OwnersFileInitial, OwnersExclude, LockTypeCorrect, PTL DEF LockSpec

\* There, too, the file at the path is the holder's and holds its pid as long as it is inside.
THEOREM PinnedLockIsTheHolders ==
    ASSUME PinsOpenFiles PROVE LockSpec => []HolderOwnsFile
<1>1. LockTypeOK /\ OwnersFile /\ [LockNext]_lockVars => OwnersFile'
  BY OwnersFileKept
<1> QED
  BY <1>1, OwnersFileInitial, OwnersExclude, LockTypeCorrect, PTL DEF LockSpec

\* Without a death there is nothing to take over: whatever unlink permits, nobody is about to
\* remove a file, and the one that is there is that of the process in the with block.
NobodyDied == \A p \in Procs : at[p] # "dead"

KeptInv ==
    /\ lockFile # NoFile => at[lockFile.by] # "new"
    /\ NobodyDied => \A p \in Procs :
           /\ at[p] # "remove"
           /\ at[p] = "opened" => lockFile = LockFile(p, FALSE)
           /\ at[p] \in {"held", "closed"} => lockFile = LockFile(p, TRUE)

LEMMA KeptStep ==
    ASSUME LockTypeOK, KeptInv, [LockNext]_lockVars
    PROVE  KeptInv'
<1> DEFINE Mine(f, place, q) == /\ place # "remove"
                                /\ place = "opened" => f = LockFile(q, FALSE)
                                /\ place \in {"held", "closed"} => f = LockFile(q, TRUE)
           Named == lockFile # NoFile => lockFile.by \in Procs /\ at[lockFile.by] # "new"
           Goal == Named' /\ (NobodyDied' => \A q \in Procs : Mine(lockFile', at'[q], q))
<1>0. (\A q \in Procs, b \in BOOLEAN : LockFile(q, b).by = q) /\ Named
  BY DEF LockFile, NoFile, KeptInv, LockTypeOK
<1>s. at \in [Procs -> {"out", "try", "check", "remove", "opened", "held", "new", "dead", "closed"}]
  BY DEF LockTypeOK, Outside, Waiting, Owning, Gone
<1>k. NobodyDied => \A q \in Procs : Mine(lockFile, at[q], q)
  BY DEF KeptInv
<1> SUFFICES Goal
  BY DEF KeptInv
<1>o. ASSUME NobodyDied, NEW p \in Procs, at[p] \in {"opened", "held", "closed"}
      PROVE  lockFile.by = p /\ \A q \in Procs \ {p} : at[q] \notin {"opened", "held", "closed", "remove"}
  <2>1. \A q \in Procs : at[q] # "remove" /\ (at[q] \in {"opened", "held", "closed"} => lockFile.by = q)
    <3> SUFFICES ASSUME NEW q \in Procs PROVE at[q] # "remove" /\ (at[q] \in {"opened", "held", "closed"} => lockFile.by = q)
      OBVIOUS
    <3>1. Mine(lockFile, at[q], q)
      BY <1>k, <1>o
    <3>2. LockFile(q, FALSE).by = q /\ LockFile(q, TRUE).by = q
      BY <1>0
    <3> QED
      BY ONLY <3>1, <3>2
  <2> QED
    BY <1>o, <2>1
<1> USE DEF NobodyDied, Go
\* A process that goes somewhere with the file as it is.
<1>m. ASSUME NEW p \in Procs, NEW place \in {"out", "try", "check", "closed", "dead"},
             at' = [at EXCEPT ![p] = place], lockFile' = lockFile,
             at[p] # "dead", place = "closed" => at[p] = "held"
      PROVE  Goal
  <2>1. \A q \in Procs \ {p} : at'[q] = at[q]
    BY <1>s, <1>m
  <2>2. at'[p] = place
    BY <1>s, <1>m
  <2>3. NobodyDied' => NobodyDied
    BY <1>m, <2>1
  <2>4. Mine(lockFile, at[p], p) => Mine(lockFile, place, p)
    BY <1>m
  <2> HIDE DEF Mine
  <2>5. Named'
    BY <1>0, <1>m, <2>1, <2>2
  <2> QED
    BY <1>k, <1>m, <2>1, <2>2, <2>3, <2>4, <2>5
<1>1. ASSUME NEW p \in Procs, Boot(p) \/ Enter(p) \/ CloseLock(p) \/ Crash(p) PROVE Goal
  <2>1. PICK place \in {"out", "try", "closed", "dead"} :
            /\ at' = [at EXCEPT ![p] = place] /\ lockFile' = lockFile /\ at[p] # "dead"
            /\ place = "closed" => at[p] = "held"
    BY <1>1 DEF Boot, Enter, CloseLock, Crash, Alive, Gone
  <2> QED
    BY <1>m, <2>1
<1>2. ASSUME NEW p \in Procs, CheckOwner(p) PROVE Goal
  <2>1. lockFile' = lockFile /\ at[p] = "check"
    BY <1>2 DEF CheckOwner
  <2>2. CASE at' = [at EXCEPT ![p] = "try"] \/ at' = [at EXCEPT ![p] = "out"]
    BY <1>m, <2>1, <2>2
  <2>3. CASE at' = [at EXCEPT ![p] = "remove"] /\ Stale(lockFile)
    <3>1. lockFile # NoFile /\ lockFile.by \in Procs /\ at[lockFile.by] = "dead"
      BY <1>0, <2>3 DEF Stale, Alive, Gone
    <3>2. at'[lockFile.by] = "dead"
      BY <1>s, <2>1, <2>3, <3>1
    <3> QED
      BY <2>1, <3>1, <3>2
  <2> QED
    BY <1>2, <2>2, <2>3 DEF CheckOwner
<1>3. ASSUME NEW p \in Procs, CreateExclusive(p) PROVE Goal
  <2>1. CASE lockFile = NoFile
    <3>1. lockFile' = LockFile(p, FALSE) /\ at'[p] = "opened" /\ (\A q \in Procs \ {p} : at'[q] = at[q])
          /\ at[p] = "try"
      BY <1>3, <1>s, <2>1 DEF CreateExclusive
    <3>2. NobodyDied' => NobodyDied
      BY <3>1
    <3>3. NobodyDied => \A q \in Procs : at[q] \notin {"opened", "held", "closed", "remove"}
      BY <1>k, <2>1, NoFileIsNoLockFile
    <3>4. lockFile'.by = p
      BY <1>0, <3>1
    <3>5. NobodyDied' => \A q \in Procs : Mine(lockFile', at'[q], q)
      BY <3>1, <3>2, <3>3
    <3> QED
      BY <3>1, <3>4, <3>5
  <2>2. CASE lockFile # NoFile
    BY <1>3, <1>m, <2>2 DEF CreateExclusive
  <2> QED
    BY <2>1, <2>2
<1>4. ASSUME NEW p \in Procs, WritePid(p) PROVE Goal
  <2>1. /\ at[p] = "opened" /\ at'[p] = "held" /\ (\A q \in Procs \ {p} : at'[q] = at[q])
        /\ lockFile' = IF lockFile.by = p THEN LockFile(p, TRUE) ELSE lockFile
    BY <1>4, <1>s DEF WritePid
  <2>2. NobodyDied' => NobodyDied
    BY <2>1
  <2>3. NobodyDied => lockFile.by = p /\ \A q \in Procs \ {p} : at[q] \notin {"opened", "held", "closed", "remove"}
    BY <1>o, <2>1
  <2>4. ASSUME NobodyDied', NEW q \in Procs
        PROVE  Mine(lockFile', at'[q], q)
    <3>1. CASE q = p
      BY <2>1, <2>2, <2>3, <2>4, <3>1
    <3>2. CASE q # p
      <4>1. at'[q] = at[q] /\ at[q] \notin {"opened", "held", "closed", "remove"}
        BY <2>1, <2>2, <2>3, <2>4, <3>2
      <4> QED
        BY ONLY <4>1
    <3> QED
      BY <3>1, <3>2
  <2>5. Named'
    BY <1>0, <2>1
  <2> QED
    BY <2>4, <2>5
<1>5. ASSUME NEW p \in Procs, RemoveStale(p) PROVE Goal
  <2>1. /\ at[p] = "remove" /\ lockFile' \in {lockFile, NoFile} /\ (\A q \in Procs \ {p} : at'[q] = at[q])
        /\ at'[p] \in {"try", "out"}
    BY <1>5, <1>s DEF RemoveStale
  <2>2. ~NobodyDied'
    BY <1>k, <2>1
  <2>3. Named'
    BY <1>0, <2>1
  <2> QED
    BY <2>2, <2>3
<1>6. ASSUME NEW p \in Procs, UnlinkLock(p) PROVE Goal
  <2>1. /\ at[p] = "closed" /\ lockFile' \in {lockFile, NoFile} /\ (\A q \in Procs \ {p} : at'[q] = at[q])
        /\ at'[p] = "out"
    BY <1>6, <1>s DEF UnlinkLock
  <2>2. NobodyDied' => NobodyDied
    BY <2>1
  <2>3. NobodyDied => \A q \in Procs \ {p} : at[q] \notin {"opened", "held", "closed", "remove"}
    BY <1>o, <2>1
  <2>4. ASSUME NobodyDied', NEW q \in Procs
        PROVE  Mine(lockFile', at'[q], q)
    <3>1. CASE q = p
      BY <2>1, <2>2, <2>3, <2>4, <3>1
    <3>2. CASE q # p
      <4>1. at'[q] = at[q] /\ at[q] \notin {"opened", "held", "closed", "remove"}
        BY <2>1, <2>2, <2>3, <2>4, <3>2
      <4> QED
        BY ONLY <4>1
    <3> QED
      BY <3>1, <3>2
  <2>5. Named'
    BY <1>0, <2>1
  <2> QED
    BY <2>4, <2>5
<1>7. CASE UNCHANGED lockVars
  BY <1>0, <1>k, <1>7 DEF lockVars
<1> QED
  BY <1>1, <1>2, <1>3, <1>4, <1>5, <1>6, <1>7 DEF LockNext

LEMMA KeptIsTheOwners == KeptInv /\ NobodyDied => OwnersFile
  BY DEF KeptInv, OwnersFile, Owning

LEMMA KeptInitial == LockInit => KeptInv
  BY DEF LockInit, KeptInv, Owning

\* On either platform: until the first process dies, one process at most is in the with block,
\* and the file at the path is its own.  What POSIX lacks is a safe takeover, not a lock.
THEOREM LockExcludesTheLiving == LockSpec => [](NobodyDied => MutualExclusion /\ HolderOwnsFile)
<1>1. LockTypeOK /\ KeptInv /\ [LockNext]_lockVars => KeptInv'
  BY KeptStep
<1>2. KeptInv => (NobodyDied => MutualExclusion /\ HolderOwnsFile)
  BY KeptIsTheOwners, OwnersExclude
<1> QED
  BY <1>1, <1>2, KeptInitial, LockTypeCorrect, PTL DEF LockSpec

\* Where unlink never refuses, a process that has left the with block leaves no lock file
\* of its own behind: only a crash does.
THEOREM UnpinnedLockIsReleased ==
    ASSUME ~PinsOpenFiles PROVE LockSpec => []ReleasedLockIsGone
<1> DEFINE Made == lockFile # NoFile => at[lockFile.by] # "new"
<1>1. LockInit => ReleasedLockIsGone /\ Made
  BY DEF LockInit, ReleasedLockIsGone
<1>2. LockTypeOK /\ ReleasedLockIsGone /\ Made /\ [LockNext]_lockVars => (ReleasedLockIsGone /\ Made)'
  <2> SUFFICES ASSUME LockTypeOK, ReleasedLockIsGone, Made, [LockNext]_lockVars
               PROVE (ReleasedLockIsGone /\ Made)'
    OBVIOUS
  <2> USE DEF LockTypeOK, ReleasedLockIsGone, Alive, Go, Outside, Waiting, Owning, Gone
  <2>0. /\ \A q \in Procs, b \in BOOLEAN : LockFile(q, b).by = q
        /\ lockFile # NoFile => lockFile.by \in Procs
    BY DEF LockFile, NoFile
  <2>1. ASSUME NEW p \in Procs, Boot(p) \/ Enter(p) \/ Crash(p) \/ CloseLock(p) \/ CheckOwner(p)
        PROVE (ReleasedLockIsGone /\ Made)'
    BY <2>0, <2>1 DEF Boot, Enter, Crash, CloseLock, CheckOwner
  <2>2. ASSUME NEW p \in Procs, CreateExclusive(p) PROVE (ReleasedLockIsGone /\ Made)'
    <3>1. CASE lockFile = NoFile
      <4>1. lockFile' = LockFile(p, FALSE) /\ at' = [at EXCEPT ![p] = "opened"]
        BY <2>2, <3>1 DEF CreateExclusive
      <4> QED
        BY <2>0, <4>1
    <3>2. CASE lockFile # NoFile
      BY <2>0, <2>2, <3>2 DEF CreateExclusive
    <3> QED
      BY <3>1, <3>2
  <2>3. ASSUME NEW p \in Procs, WritePid(p) PROVE (ReleasedLockIsGone /\ Made)'
    BY <2>0, <2>3 DEF WritePid
  <2>4. ASSUME NEW p \in Procs, RemoveStale(p) \/ UnlinkLock(p) PROVE (ReleasedLockIsGone /\ Made)'
    BY <2>0, <2>4 DEF RemoveStale, UnlinkLock, MayUnlink, MayFail
  <2>5. CASE UNCHANGED lockVars
    BY <2>5 DEF lockVars
  <2> QED
    BY <2>1, <2>2, <2>3, <2>4, <2>5 DEF LockNext
<1> QED
  BY <1>1, <1>2, LockTypeCorrect, PTL DEF LockSpec

-----------------------------------------------------------------------------
(* The directory as a value. *)

Versions(t) == [task : 1 .. t, stamp : 1 .. t, wrote : 1 .. t, status : Dirs]
Files(t) == [Ids -> [Dirs -> {NoCopy} \cup Versions(t)]]
Indexes == [Ids -> Dirs \cup {NoDir}]

CopiesIn(F, i) == {d \in Dirs : F[i][d] # NoCopy}
Newest(F, i, d) == d \in CopiesIn(F, i) /\ \A e \in CopiesIn(F, i) : NoLater(F[i][e], F[i][d])

\* Copies that are not the same copy were written at different times.
Unmixed(F) ==
    \A i, j \in Ids : \A d \in CopiesIn(F, i), e \in CopiesIn(F, j) :
        F[i][d].wrote = F[j][e].wrote => i = j /\ d = e

Put(F, i, d, c) == [F EXCEPT ![i][d] = c]
Dropped(F, i, R) == [F EXCEPT ![i] = [d \in Dirs |-> IF d \in R THEN NoCopy ELSE F[i][d]]]

LEMMA NoCopyIsNoVersion == \A t \in Nat : NoCopy \notin Versions(t)
BY DEF NoCopy, Versions

LEMMA CopyTypes ==
    ASSUME NEW t \in Nat, NEW F \in Files(t), NEW i \in Ids
    PROVE  /\ \A d \in CopiesIn(F, i) :
               /\ F[i][d] \in Versions(t) /\ F[i][d].task \in 1 .. t /\ F[i][d].stamp \in 1 .. t
               /\ F[i][d].wrote \in 1 .. t /\ F[i][d].status \in Dirs
           /\ \A d \in Dirs : F[i][d] \in {NoCopy} \cup Versions(t)
           /\ CopiesIn(F, i) \subseteq Dirs
<1>1. \A d \in Dirs : F[i][d] \in {NoCopy} \cup Versions(t)
    BY DEF Files
<1>2. \A c \in Versions(t) : c.task \in 1 .. t /\ c.stamp \in 1 .. t /\ c.wrote \in 1 .. t /\ c.status \in Dirs
    BY DEF Versions
<1>3. QED BY <1>1, <1>2 DEF CopiesIn

LEMMA LaterFiles == \A t \in Nat : Files(t) \subseteq Files(t + 1) /\ Versions(t) \subseteq Versions(t + 1)
<1>1. \A t \in Nat : Versions(t) \subseteq Versions(t + 1)
    BY DEF Versions
<1>2. QED BY <1>1 DEF Files

LEMMA PutFile ==
    ASSUME NEW t \in Nat, NEW F \in Files(t), NEW i \in Ids, NEW d \in Dirs, NEW c \in {NoCopy} \cup Versions(t)
    PROVE  /\ Put(F, i, d, c) \in Files(t)
           /\ Put(F, i, d, c)[i][d] = c
           /\ \A j \in Ids, e \in Dirs : ~(j = i /\ e = d) => Put(F, i, d, c)[j][e] = F[j][e]
<1> DEFINE C == {NoCopy} \cup Versions(t)
           row == [F[i] EXCEPT ![d] = c]
<1>1. F \in [Ids -> [Dirs -> C]] /\ F[i] \in [Dirs -> C] /\ c \in C
    BY DEF Files
<1> HIDE DEF C
<1>2. row \in [Dirs -> C] /\ row[d] = c /\ \A e \in Dirs : e # d => row[e] = F[i][e]
    BY <1>1
<1> HIDE DEF row
<1>3. [F EXCEPT ![i] = row] \in [Ids -> [Dirs -> C]] /\ [F EXCEPT ![i] = row][i] = row
      /\ \A j \in Ids : j # i => [F EXCEPT ![i] = row][j] = F[j]
    BY <1>1, <1>2
<1>4. Put(F, i, d, c) = [F EXCEPT ![i] = row]
    BY DEF Put, row
<1>5. QED BY <1>2, <1>3, <1>4 DEF Files, C

LEMMA DroppedFile ==
    ASSUME NEW t \in Nat, NEW F \in Files(t), NEW i \in Ids, NEW R
    PROVE  /\ Dropped(F, i, R) \in Files(t)
           /\ \A d \in Dirs : Dropped(F, i, R)[i][d] = (IF d \in R THEN NoCopy ELSE F[i][d])
           /\ \A j \in Ids, e \in Dirs : j # i => Dropped(F, i, R)[j][e] = F[j][e]
<1> DEFINE C == {NoCopy} \cup Versions(t)
           row == [d \in Dirs |-> IF d \in R THEN NoCopy ELSE F[i][d]]
<1>1. F \in [Ids -> [Dirs -> C]] /\ F[i] \in [Dirs -> C]
    BY DEF Files
<1>2. row \in [Dirs -> C] /\ \A d \in Dirs : row[d] = IF d \in R THEN NoCopy ELSE F[i][d]
    BY <1>1
<1> HIDE DEF C, row
<1>3. [F EXCEPT ![i] = row] \in [Ids -> [Dirs -> C]] /\ [F EXCEPT ![i] = row][i] = row
      /\ \A j \in Ids : j # i => [F EXCEPT ![i] = row][j] = F[j]
    BY <1>1, <1>2
<1>4. Dropped(F, i, R) = [F EXCEPT ![i] = row]
    BY DEF Dropped, row
<1>5. QED BY <1>2, <1>3, <1>4 DEF Files, C

\* A bounded set of numbers has a largest one.
LEMMA LargestStamp ==
    ASSUME NEW S \in SUBSET Nat, NEW top \in Nat, S # {}, \A n \in S : n <= top
    PROVE  \E n \in S : \A m \in S : m <= n
<1> DEFINE T == {top - n : n \in S}
<1>1. T \subseteq Nat /\ T # {}
  <2>1. PICK n \in S : TRUE
      OBVIOUS
  <2>2. top - n \in T
      BY <2>1
  <2>3. QED BY <2>2
<1>2. \E x \in T : \A y \in T : ~(<<y, x>> \in Ordered!OpToRel(<, Nat))
    BY <1>1, Ordered!WFMin, Ordered!NatLessThanWellFounded, Zenon
<1>3. PICK x \in T : \A y \in T : ~(y < x)
    BY <1>1, <1>2 DEF Ordered!OpToRel
<1>4. PICK n \in S : x = top - n
    OBVIOUS
<1>5. \A m \in S : ~(top - m < top - n)
    BY <1>3, <1>4
<1>6. QED BY <1>4, <1>5

\* A task that has copies has a newest one.
LEMMA NewestExists ==
    ASSUME NEW t \in Nat, NEW F \in Files(t), NEW i \in Ids, CopiesIn(F, i) # {}
    PROVE  \E d \in Dirs : Newest(F, i, d)
<1> DEFINE S == {F[i][d].stamp : d \in CopiesIn(F, i)}
           W(n) == {F[i][d].wrote : d \in {e \in CopiesIn(F, i) : F[i][e].stamp = n}}
<1>1. \A d \in CopiesIn(F, i) : F[i][d].stamp \in 1 .. t /\ F[i][d].wrote \in 1 .. t
    BY CopyTypes
<1>2. S \subseteq Nat /\ S # {} /\ \A n \in S : n <= t
    BY <1>1
<1>3. PICK n \in S : \A m \in S : m <= n
    BY <1>2, LargestStamp
<1>4. W(n) \subseteq Nat /\ W(n) # {} /\ \A w \in W(n) : w <= t
    BY <1>1
<1>5. PICK w \in W(n) : \A v \in W(n) : v <= w
    BY <1>4, LargestStamp
<1>6. PICK d \in CopiesIn(F, i) : F[i][d].stamp = n /\ F[i][d].wrote = w
    BY <1>5
<1>7. ASSUME NEW e \in CopiesIn(F, i)
      PROVE  NoLater(F[i][e], F[i][d])
  <2>1. F[i][e].stamp <= n /\ F[i][e].stamp \in Nat /\ n \in Nat
      BY <1>1, <1>2, <1>3
  <2>2. F[i][e].stamp = n => F[i][e].wrote <= w
      BY <1>5
  <2>3. QED BY <1>6, <2>1, <2>2 DEF NoLater
<1>8. QED BY <1>6, <1>7 DEF Newest, CopiesIn

\* What load_task returns.
LoadedIn(F, i) ==
    IF CopiesIn(F, i) = {} THEN NoCopy
    ELSE CHOOSE c \in {F[i][d] : d \in CopiesIn(F, i)} : \A d \in CopiesIn(F, i) : NoLater(F[i][d], c)

LEMMA LoadedIsNewest ==
    ASSUME NEW t \in Nat, NEW F \in Files(t), Unmixed(F), NEW i \in Ids
    PROVE  /\ \A d \in Dirs : Newest(F, i, d) => LoadedIn(F, i) = F[i][d]
           /\ CopiesIn(F, i) # {} => \E d \in Dirs : Newest(F, i, d) /\ LoadedIn(F, i) = F[i][d]
           /\ CopiesIn(F, i) = {} <=> LoadedIn(F, i) = NoCopy
<1>1. ASSUME NEW d \in Dirs, Newest(F, i, d)
      PROVE  LoadedIn(F, i) = F[i][d]
  <2> DEFINE S == {F[i][e] : e \in CopiesIn(F, i)}
             Top(c) == \A e \in CopiesIn(F, i) : NoLater(F[i][e], c)
  <2>1. F[i][d] \in S /\ Top(F[i][d])
      BY <1>1 DEF Newest
  <2>2. ASSUME NEW c \in S, Top(c)
        PROVE  c = F[i][d]
    <3>1. PICK e \in CopiesIn(F, i) : c = F[i][e]
        BY <2>2
    <3>2. F[i][e].stamp \in Nat /\ F[i][d].stamp \in Nat /\ F[i][e].wrote \in Nat /\ F[i][d].wrote \in Nat
        BY <1>1, CopyTypes DEF Newest
    <3>3. NoLater(F[i][e], F[i][d]) /\ NoLater(F[i][d], F[i][e])
        BY <1>1, <2>2, <3>1 DEF Newest
    <3>4. F[i][e].wrote = F[i][d].wrote
        BY <3>2, <3>3 DEF NoLater
    <3>5. QED BY <1>1, <3>1, <3>4 DEF Unmixed, Newest
  <2>3. CopiesIn(F, i) # {}
      BY <1>1 DEF Newest
  <2>4. LoadedIn(F, i) = CHOOSE c \in S : Top(c)
      BY <2>3 DEF LoadedIn
  <2> HIDE DEF S, Top
  <2>5. (CHOOSE c \in S : Top(c)) = F[i][d]
      BY <2>1, <2>2
  <2>6. QED BY <2>4, <2>5
<1>2. CopiesIn(F, i) # {} => \E d \in Dirs : Newest(F, i, d) /\ LoadedIn(F, i) = F[i][d]
    BY <1>1, NewestExists
<1>3. CopiesIn(F, i) = {} => LoadedIn(F, i) = NoCopy
    BY DEF LoadedIn
<1>4. QED BY <1>1, <1>2, <1>3 DEF Newest, CopiesIn

-----------------------------------------------------------------------------
(* Type correctness, for any interleaving of operations, recoveries and crashes. *)

\* What a process can be in the middle of when t writes have been made.
Quiet == {Idle, [step |-> "sweep"]}
Writes(t) == [step : {"write", "rename"}, id : Ids, to : Dirs, task : 0 .. t, seen : 0 .. t, status : Dirs]
Unlinks == [step : {"unlink", "index"}, id : Ids, to : Dirs, others : SUBSET Dirs]
Saves == [step : {"save"}, idx : Indexes]
Looks == [step : {"look"}, ids : SUBSET Ids]
Chooses == [step : {"choose"}, ids : SUBSET Ids, id : Ids, seen : SUBSET Dirs]
Prunes == [step : {"prune"}, ids : SUBSET Ids, id : Ids, others : SUBSET Dirs]
Scans == [step : {"scan"}, dir : Nat \ {0}, idx : Indexes]
Ops(t) == Quiet \cup Writes(t) \cup Unlinks \cup Saves \cup Looks \cup Chooses \cup Prunes \cup Scans

StoreShape ==
    /\ LockTypeOK
    /\ stamp \in Nat
    /\ files \in Files(stamp)
    /\ index \in Indexes
    /\ tmp \in [Procs -> BOOLEAN]
    /\ op = [p \in Procs |-> op[p]] /\ \A p \in Procs : op[p] \in Ops(stamp)
    /\ made \subseteq 1 .. stamp
    /\ refused \in 0 .. stamp

LEMMA OpOf ==
    ASSUME NEW t, NEW o \in Ops(t)
    PROVE  /\ o.step \in {"none", "write", "rename", "unlink", "index", "save", "sweep",
                          "look", "choose", "prune", "scan"}
           /\ o.step = "none" => o = Idle
           /\ o.step = "sweep" => o = [step |-> "sweep"]
           /\ o.step \in {"write", "rename"} => o \in Writes(t)
           /\ o.step \in {"unlink", "index"} => o \in Unlinks
           /\ o.step = "save" => o \in Saves
           /\ o.step = "look" => o \in Looks
           /\ o.step = "choose" => o \in Chooses
           /\ o.step = "prune" => o \in Prunes
           /\ o.step = "scan" => o \in Scans
BY DEF Ops, Quiet, Idle, Writes, Unlinks, Saves, Looks, Chooses, Prunes, Scans

LEMMA LaterOps == \A t \in Nat : Ops(t) \subseteq Ops(t + 1)
<1> SUFFICES ASSUME NEW t \in Nat PROVE Ops(t) \subseteq Ops(t + 1)
    OBVIOUS
<1>1. Writes(t) \subseteq Writes(t + 1)
    BY DEF Writes
<1>2. QED BY <1>1 DEF Ops

LEMMA CopiesOf ==
    ASSUME NEW i
    PROVE  /\ Copies(i) = CopiesIn(files, i) /\ Copies(i)' = CopiesIn(files', i)
           /\ Loaded(i) = LoadedIn(files, i) /\ Loaded(i)' = LoadedIn(files', i)
BY DEF Copies, CopiesIn, Loaded, LoadedIn, Latest

LEMMA ChosenIsNewest ==
    ASSUME StoreShape, NEW i \in Ids, Copies(i) # {}
    PROVE  Chosen(i) \in Dirs /\ Newest(files, i, Chosen(i))
<1>1. \E d \in Dirs : Newest(files, i, d)
    BY NewestExists, CopiesOf DEF StoreShape
<1>2. \E d \in Copies(i) : \A e \in Copies(i) : NoLater(files[i][e], files[i][d])
    BY <1>1, CopiesOf DEF Newest
<1>3. Chosen(i) \in Copies(i) /\ \A e \in Copies(i) : NoLater(files[i][e], files[i][Chosen(i)])
    BY <1>2 DEF Chosen
<1>4. QED BY <1>3, CopiesOf DEF Newest, Copies

LEMMA FirstDirectory == DirOrder[1] \in Dirs /\ \A k \in 1 .. Len(DirOrder) : DirOrder[k] \in Dirs
BY StoreAssumption DEF Dirs

\* A step that moves one process on and leaves the files alone.
LEMMA ShapeMoves ==
    ASSUME StoreShape, NEW p \in Procs, NEW o \in Ops(stamp), Step(p, o), FilesAlone,
           LockTypeOK', index' \in Indexes, tmp' \in [Procs -> BOOLEAN]
    PROVE  StoreShape'
<1>1. op' = [q \in Procs |-> op'[q]] /\ \A q \in Procs : op'[q] \in Ops(stamp)
    BY DEF StoreShape, Step
<1>2. QED BY <1>1 DEF StoreShape, FilesAlone

LEMMA LockKept ==
    ASSUME LockTypeOK, LockAlone
    PROVE  LockTypeOK'
BY DEF LockAlone, lockVars, LockTypeOK

\* Each operation of StoreNext is a step of the lock, or leaves it alone.
LEMMA LockSteps == [StoreNext]_storeVars => [LockNext]_lockVars
<1> SUFFICES ASSUME [StoreNext]_storeVars PROVE [LockNext]_lockVars
    OBVIOUS
<1>1. CASE UNCHANGED storeVars
    BY <1>1 DEF storeVars, lockVars
<1>2. ASSUME NEW p \in Procs, Construct(p) \/ LockStep(p) \/ Die(p)
      PROVE  LockNext
    BY <1>2 DEF Construct, LockStep, Die, LockNext
<1>3. ASSUME NEW p \in Procs,
             \/ BeginMove(p) \/ BeginRefused(p) \/ BeginCreate(p)
             \/ WriteTemporary(p) \/ Rename(p) \/ Unlink(p) \/ UpdateIndex(p) \/ SaveIndex(p)
             \/ Recover(p)
             \/ SweepTemporaries(p) \/ LookForDuplicates(p) \/ Choose(p) \/ Prune(p)
             \/ ScanDirectory(p) \/ RebuildIndex(p)
      PROVE  UNCHANGED lockVars
    BY <1>3 DEF BeginMove, BeginRefused, BeginCreate, WriteTemporary, Rename, Unlink, UpdateIndex, SaveIndex, Recover,
                SweepTemporaries, LookForDuplicates, Choose, Prune, ScanDirectory, RebuildIndex, LockAlone
<1>4. QED BY <1>1, <1>2, <1>3 DEF StoreNext

LEMMA OpsInside ==
    ASSUME NEW t
    PROVE  /\ Idle \in Ops(t) /\ [step |-> "sweep"] \in Ops(t)
           /\ Writes(t) \subseteq Ops(t) /\ Unlinks \subseteq Ops(t) /\ Saves \subseteq Ops(t)
           /\ Looks \subseteq Ops(t) /\ Chooses \subseteq Ops(t) /\ Prunes \subseteq Ops(t)
           /\ Scans \subseteq Ops(t)
BY DEF Ops, Quiet

LEMMA EmptyIndexType == EmptyIndex \in Indexes
BY DEF EmptyIndex, Indexes

LEMMA IndexUpdate ==
    ASSUME NEW idx \in Indexes, NEW i \in Ids, NEW d \in Dirs
    PROVE  /\ [idx EXCEPT ![i] = d] \in Indexes /\ [idx EXCEPT ![i] = d][i] = d
           /\ \A j \in Ids : j # i => [idx EXCEPT ![i] = d][j] = idx[j]
<1> DEFINE D == Dirs \cup {NoDir}
<1>1. d \in D
    OBVIOUS
<1> HIDE DEF D
<1>2. ASSUME idx \in [Ids -> D]
      PROVE  /\ [idx EXCEPT ![i] = d] \in [Ids -> D] /\ [idx EXCEPT ![i] = d][i] = d
             /\ \A j \in Ids : j # i => [idx EXCEPT ![i] = d][j] = idx[j]
    BY <1>1, <1>2
<1>3. QED BY <1>2 DEF Indexes, D

LEMMA TmpUpdate ==
    ASSUME tmp \in [Procs -> BOOLEAN], NEW p, NEW b \in BOOLEAN
    PROVE  [tmp EXCEPT ![p] = b] \in [Procs -> BOOLEAN]
OBVIOUS

\* The writes of a task that is there: what they put into place, and where.
Rewrites(p) ==
    \E i \in Ids, d \in Dirs, k \in 1 .. stamp, seen \in 0 .. stamp, status \in Dirs :
        /\ CopiesIn(files, i) # {} /\ Chosen(i) \in CopiesIn(files, i) /\ k = files[i][Chosen(i)].task
        /\ Step(p, Write(i, d, k, seen, status))
Creates(p) ==
    \E i \in Ids : i = Cardinality(Listed) + 1 /\ Step(p, Write(i, DirOrder[1], 0, 0, DirOrder[1]))

LEMMA WriteIsWrite ==
    ASSUME NEW t \in Nat, NEW i \in Ids, NEW d \in Dirs, NEW k \in 0 .. t, NEW seen \in 0 .. t, NEW status \in Dirs
    PROVE  /\ Write(i, d, k, seen, status) \in Writes(t)
           /\ Write(i, d, k, seen, status).step = "write" /\ Write(i, d, k, seen, status).id = i
           /\ Write(i, d, k, seen, status).task = k /\ Write(i, d, k, seen, status).seen = seen
BY DEF Write, Writes

LEMMA BeginSplits ==
    ASSUME StoreShape, NEW p \in Procs
    PROVE  /\ BeginMove(p) \/ BeginRefused(p) => Rewrites(p)
           /\ BeginCreate(p) => Creates(p)
           /\ BeginMove(p) \/ BeginRefused(p) \/ BeginCreate(p) =>
                LockAlone /\ FilesAlone /\ UNCHANGED <<index, tmp>> /\ at[p] = "held" /\ op[p].step = "none"
<1>s. stamp \in Nat /\ files \in Files(stamp)
    BY DEF StoreShape
<1>1. ASSUME NEW i \in Ids, Copies(i) # {}
      PROVE  /\ CopiesIn(files, i) # {} /\ Chosen(i) \in CopiesIn(files, i)
             /\ files[i][Chosen(i)].task \in 1 .. stamp /\ files[i][Chosen(i)].status \in Dirs
    BY <1>s, <1>1, ChosenIsNewest, CopyTypes, CopiesOf DEF Newest
<1>2. ASSUME BeginMove(p) PROVE Rewrites(p)
  <2>1. PICK i \in Ids, d \in Dirs : Copies(i) # {} /\ Step(p, Write(i, d, files[i][Chosen(i)].task, 0, d))
      BY <1>2 DEF BeginMove
  <2>2. 0 \in 0 .. stamp
      BY <1>s
  <2>3. QED BY <1>1, <2>1, <2>2 DEF Rewrites
<1>3. ASSUME BeginRefused(p) PROVE Rewrites(p)
  <2>1. PICK i \in Ids, status \in Dirs :
           /\ Copies(i) # {}
           /\ \E seen \in files[i][Chosen(i)].task .. stamp :
                Step(p, Write(i, files[i][Chosen(i)].status, files[i][Chosen(i)].task, seen, status))
      BY <1>3 DEF BeginRefused
  <2>2. PICK seen \in files[i][Chosen(i)].task .. stamp :
           Step(p, Write(i, files[i][Chosen(i)].status, files[i][Chosen(i)].task, seen, status))
      BY <2>1
  <2>3. files[i][Chosen(i)].task \in 1 .. stamp /\ files[i][Chosen(i)].status \in Dirs
      BY <1>1, <2>1
  <2>4. seen \in 0 .. stamp
      BY <1>s, <2>3
  <2>5. QED BY <1>1, <2>1, <2>2, <2>3, <2>4 DEF Rewrites
<1>4. BeginCreate(p) => Creates(p)
    BY DEF BeginCreate, Creates
<1>5. QED BY <1>2, <1>3, <1>4 DEF BeginMove, BeginRefused, BeginCreate

\* The operations under the lock that have not reached the files yet.
LEMMA BeginShape ==
    ASSUME StoreShape, NEW p \in Procs, BeginMove(p) \/ BeginRefused(p) \/ BeginCreate(p)
    PROVE  StoreShape'
<1>1. LockAlone /\ FilesAlone /\ UNCHANGED <<index, tmp>>
    BY BeginSplits
<1>s. stamp \in Nat
    BY DEF StoreShape
<1>2. \E o \in Writes(stamp) : Step(p, o)
  <2>1. CASE Rewrites(p)
    <3>1. PICK i \in Ids, d \in Dirs, k \in 1 .. stamp, seen \in 0 .. stamp, status \in Dirs :
            Step(p, Write(i, d, k, seen, status))
        BY <2>1 DEF Rewrites
    <3>2. k \in 0 .. stamp
        BY <1>s
    <3>3. QED BY <1>s, <3>1, <3>2, WriteIsWrite
  <2>2. CASE Creates(p)
    <3>1. PICK i \in Ids : Step(p, Write(i, DirOrder[1], 0, 0, DirOrder[1]))
        BY <2>2 DEF Creates
    <3>2. 0 \in 0 .. stamp
        BY <1>s
    <3>3. QED BY <1>s, <3>1, <3>2, FirstDirectory, WriteIsWrite
  <2>3. QED BY <2>1, <2>2, BeginSplits
<1>3. PICK o \in Writes(stamp) : Step(p, o)
    BY <1>2
<1>4. o \in Ops(stamp)
    BY OpsInside
<1>5. LockTypeOK' /\ index' \in Indexes /\ tmp' \in [Procs -> BOOLEAN]
    BY <1>1, LockKept DEF StoreShape
<1>6. QED BY <1>1, <1>3, <1>4, <1>5, ShapeMoves

LEMMA WriteTemporaryShape ==
    ASSUME StoreShape, NEW p \in Procs, WriteTemporary(p)
    PROVE  StoreShape' /\ op'[p] = [op[p] EXCEPT !.step = "rename"] /\ op'[p] \in Writes(stamp)
<1> DEFINE o == [op[p] EXCEPT !.step = "rename"]
<1>1. op[p] \in Writes(stamp)
    BY OpOf DEF WriteTemporary, At, StoreShape
<1>2. o \in Writes(stamp)
    BY <1>1 DEF Writes
<1>3. Step(p, o) /\ FilesAlone /\ LockAlone /\ UNCHANGED index /\ tmp' = [tmp EXCEPT ![p] = TRUE]
    BY DEF WriteTemporary
<1> HIDE DEF o
<1>4. LockTypeOK' /\ index' \in Indexes /\ tmp' \in [Procs -> BOOLEAN] /\ o \in Ops(stamp)
    BY <1>2, <1>3, LockKept, TmpUpdate, OpsInside DEF StoreShape
<1>5. StoreShape'
    BY <1>3, <1>4, ShapeMoves
<1>6. op'[p] = o
    BY <1>3 DEF Step, StoreShape
<1>7. QED BY <1>2, <1>5, <1>6 DEF o

\* What a rename puts into place.
NewVersion(p) ==
    [task |-> IF op[p].task = 0 THEN stamp + 1 ELSE op[p].task,
     stamp |-> IF op[p].seen = 0 THEN stamp + 1 ELSE op[p].seen, wrote |-> stamp + 1, status |-> op[p].status]
AfterRename(p) ==
    [step |-> IF op[p].task = 0 THEN "index" ELSE "unlink", id |-> op[p].id, to |-> op[p].to,
     others |-> Copies(op[p].id) \ {op[p].to}]
InPlace(p) ==
    /\ op[p] \in Writes(stamp) /\ op[p].id \in Ids /\ op[p].to \in Dirs
    /\ op[p].task \in 0 .. stamp /\ op[p].seen \in 0 .. stamp
    /\ NewVersion(p) \in Versions(stamp + 1)
    /\ files' = Put(files, op[p].id, op[p].to, NewVersion(p))
    /\ stamp' = stamp + 1
    /\ made' = made \cup {NewVersion(p).task}
Renamed(p) ==
    /\ InPlace(p)
    /\ op[p].seen = 0 /\ refused' = refused
    /\ Step(p, AfterRename(p)) /\ AfterRename(p) \in Unlinks
WroteBack(p) ==
    /\ InPlace(p)
    /\ op[p].seen # 0 /\ refused' = refused + 1
    /\ Step(p, Idle)
NotRenamed(p) ==
    /\ ~tmp[p] \/ (SharingFaults /\ files[op[p].id][op[p].to] # NoCopy)
    /\ Step(p, Idle) /\ FilesAlone

LEMMA RenameSplits ==
    ASSUME StoreShape, NEW p \in Procs, Rename(p)
    PROVE  Renamed(p) \/ WroteBack(p) \/ NotRenamed(p)
<1>1. op[p] \in Writes(stamp) /\ stamp \in Nat
    BY OpOf DEF Rename, At, StoreShape
<1>2. /\ op[p].id \in Ids /\ op[p].to \in Dirs /\ op[p].task \in 0 .. stamp
      /\ op[p].seen \in 0 .. stamp /\ op[p].status \in Dirs
    BY <1>1 DEF Writes
<1>3. NewVersion(p) \in Versions(stamp + 1)
    BY <1>1, <1>2 DEF NewVersion, Versions
<1>4. AfterRename(p) \in Unlinks
  <2>1. Copies(op[p].id) \ {op[p].to} \in SUBSET Dirs
      BY DEF Copies
  <2>2. QED BY <1>2, <2>1 DEF AfterRename, Unlinks
<1>5. ASSUME files' = [files EXCEPT ![op[p].id][op[p].to] = NewVersion(p)], stamp' = stamp + 1,
             made' = made \cup {NewVersion(p).task}
      PROVE  InPlace(p)
    BY <1>1, <1>2, <1>3, <1>5 DEF InPlace, Put
<1>6. \/ /\ files' = [files EXCEPT ![op[p].id][op[p].to] = NewVersion(p)]
         /\ stamp' = stamp + 1 /\ made' = made \cup {NewVersion(p).task}
         /\ refused' = (IF op[p].seen = 0 THEN refused ELSE refused + 1)
         /\ Step(p, IF op[p].seen # 0 THEN Idle ELSE AfterRename(p))
      \/ NotRenamed(p)
    BY DEF Rename, NewVersion, AfterRename, Touched, NotRenamed
<1>7. CASE NotRenamed(p)
    BY <1>7
<1>8. CASE /\ files' = [files EXCEPT ![op[p].id][op[p].to] = NewVersion(p)]
           /\ stamp' = stamp + 1 /\ made' = made \cup {NewVersion(p).task}
           /\ refused' = (IF op[p].seen = 0 THEN refused ELSE refused + 1)
           /\ Step(p, IF op[p].seen # 0 THEN Idle ELSE AfterRename(p))
  <2>1. InPlace(p)
      BY <1>5, <1>8
  <2> HIDE DEF AfterRename
  <2>2. CASE op[p].seen = 0
    <3>1. Step(p, AfterRename(p)) /\ refused' = refused
        BY <1>8, <2>2
    <3>2. QED BY <1>4, <2>1, <2>2, <3>1 DEF Renamed
  <2>3. CASE op[p].seen # 0
    <3>1. Step(p, Idle) /\ refused' = refused + 1
        BY <1>8, <2>3
    <3>2. QED BY <2>1, <2>3, <3>1 DEF WroteBack
  <2>4. QED BY <2>2, <2>3
<1>9. QED BY <1>6, <1>7, <1>8

LEMMA RenameShape ==
    ASSUME StoreShape, NEW p \in Procs, Rename(p)
    PROVE  StoreShape'
<1>1. LockAlone /\ UNCHANGED index /\ tmp' = [tmp EXCEPT ![p] = FALSE]
    BY DEF Rename
<1>2. LockTypeOK' /\ index' \in Indexes /\ tmp' \in [Procs -> BOOLEAN] /\ Idle \in Ops(stamp)
    BY <1>1, LockKept, TmpUpdate, OpsInside DEF StoreShape
<1>3. CASE NotRenamed(p)
    BY <1>2, <1>3, ShapeMoves DEF NotRenamed
<1>4. CASE Renamed(p) \/ WroteBack(p)
  <2>i. InPlace(p)
      BY <1>4 DEF Renamed, WroteBack
  <2>1. stamp \in Nat /\ stamp' = stamp + 1 /\ stamp' \in Nat
      BY <2>i DEF InPlace, StoreShape
  <2>2. files' \in Files(stamp')
    <3>1. files \in Files(stamp + 1)
        BY <2>1, LaterFiles DEF StoreShape
    <3>2. NewVersion(p) \in {NoCopy} \cup Versions(stamp + 1) /\ stamp + 1 \in Nat
          /\ op[p].id \in Ids /\ op[p].to \in Dirs
        BY <2>i, <2>1 DEF InPlace
    <3>3. Put(files, op[p].id, op[p].to, NewVersion(p)) \in Files(stamp + 1)
        BY <3>1, <3>2, PutFile
    <3>4. QED BY <2>i, <2>1, <3>3 DEF InPlace
  <2>3. made' \subseteq 1 .. stamp'
    <3>1. NewVersion(p).task \in 1 .. stamp + 1
        BY <2>i DEF InPlace, Versions
    <3>2. made \subseteq 1 .. stamp + 1
        BY <2>1 DEF StoreShape
    <3>3. QED BY <2>i, <2>1, <3>1, <3>2 DEF InPlace
  <2>r. refused' \in 0 .. stamp'
      BY <1>4, <2>1 DEF Renamed, WroteBack, StoreShape
  <2>4. op' = [q \in Procs |-> op'[q]] /\ \A q \in Procs : op'[q] \in Ops(stamp')
    <3>1. PICK o \in Ops(stamp') : Step(p, o)
        BY <1>4, OpsInside DEF Renamed, WroteBack
    <3>2. \A q \in Procs : op[q] \in Ops(stamp')
        BY <2>1, LaterOps DEF StoreShape
    <3>3. op' = [op EXCEPT ![p] = o]
        BY <3>1 DEF Step
    <3>4. QED BY <3>1, <3>2, <3>3 DEF StoreShape
  <2>5. QED BY <1>2, <2>1, <2>2, <2>3, <2>r, <2>4 DEF StoreShape
<1>5. QED BY <1>3, <1>4, RenameSplits

\* G is F without the copies of task i in the directories R.
Without(F, G, i, R) == \A j \in Ids, e \in Dirs : G[j][e] = IF j = i /\ e \in R THEN NoCopy ELSE F[j][e]

\* A step that takes copies away.
LEMMA ShapeShrinks ==
    ASSUME StoreShape, NEW p \in Procs, NEW o \in Ops(stamp), Step(p, o), files' \in Files(stamp),
           LockAlone, UNCHANGED <<index, tmp, stamp, made, refused>>
    PROVE  StoreShape'
<1>1. LockTypeOK'
    BY LockKept DEF StoreShape
<1>2. op' = [q \in Procs |-> op'[q]] /\ \A q \in Procs : op'[q] \in Ops(stamp)
    BY DEF StoreShape, Step
<1>3. QED BY <1>1, <1>2 DEF StoreShape

\* _transition on the way to one copy.
Unlinked(p, d) ==
    /\ d \in op[p].others /\ d \in Dirs
    /\ files' \in Files(stamp) /\ Without(files, files', op[p].id, {d})
    /\ Step(p, [op[p] EXCEPT !.others = @ \ {d}]) /\ [op[p] EXCEPT !.others = @ \ {d}] \in Unlinks
UnlinkRaises(p, d) ==
    /\ SharingFaults /\ d \in op[p].others
    /\ Step(p, Idle) /\ UNCHANGED files
UnlinksDone(p) ==
    /\ op[p].others = {} /\ [op[p] EXCEPT !.step = "index"] \in Unlinks
    /\ Step(p, [op[p] EXCEPT !.step = "index"]) /\ UNCHANGED files

LEMMA UnlinkSplits ==
    ASSUME StoreShape, NEW p \in Procs, Unlink(p)
    PROVE  /\ op[p] \in Unlinks /\ op[p].id \in Ids /\ op[p].to \in Dirs /\ op[p].others \in SUBSET Dirs
           /\ op[p].step = "unlink"
           /\ UnlinksDone(p) \/ \E d \in Dirs : Unlinked(p, d) \/ UnlinkRaises(p, d)
<1>1. op[p] \in Unlinks /\ stamp \in Nat /\ files \in Files(stamp) /\ op[p].step = "unlink"
    BY OpOf DEF Unlink, At, StoreShape
<1>2. op[p].id \in Ids /\ op[p].to \in Dirs /\ op[p].others \in SUBSET Dirs
    BY <1>1 DEF Unlinks
<1>3. CASE op[p].others = {}
  <2>1. [op[p] EXCEPT !.step = "index"] \in Unlinks
      BY <1>1 DEF Unlinks
  <2>2. QED BY <1>3, <2>1, <1>1, <1>2 DEF Unlink, UnlinksDone
<1>4. CASE op[p].others # {}
  <2>1. PICK d \in op[p].others :
           \/ /\ files' = [files EXCEPT ![op[p].id][d] = NoCopy]
              /\ Step(p, [op[p] EXCEPT !.others = @ \ {d}])
           \/ /\ SharingFaults /\ files[op[p].id][d] # NoCopy
              /\ Step(p, Idle) /\ UNCHANGED files
      BY <1>4 DEF Unlink
  <2>2. d \in Dirs
      BY <1>2
  <2>3. CASE files' = [files EXCEPT ![op[p].id][d] = NoCopy] /\ Step(p, [op[p] EXCEPT !.others = @ \ {d}])
    <3>1. NoCopy \in {NoCopy} \cup Versions(stamp)
        OBVIOUS
    <3>2. /\ Put(files, op[p].id, d, NoCopy) \in Files(stamp)
          /\ Put(files, op[p].id, d, NoCopy)[op[p].id][d] = NoCopy
          /\ \A j \in Ids, e \in Dirs :
               ~(j = op[p].id /\ e = d) => Put(files, op[p].id, d, NoCopy)[j][e] = files[j][e]
        BY <1>1, <1>2, <2>2, <3>1, PutFile
    <3>3. Without(files, Put(files, op[p].id, d, NoCopy), op[p].id, {d})
        BY <3>2 DEF Without
    <3>4. files' = Put(files, op[p].id, d, NoCopy)
        BY <2>3 DEF Put
    <3>5. [op[p] EXCEPT !.others = @ \ {d}] \in Unlinks
        BY <1>1 DEF Unlinks
    <3>6. Unlinked(p, d)
        BY <2>2, <2>3, <3>2, <3>3, <3>4, <3>5 DEF Unlinked
    <3>7. QED BY <1>1, <1>2, <2>2, <3>6
  <2>4. CASE SharingFaults /\ Step(p, Idle) /\ UNCHANGED files
    <3>1. UnlinkRaises(p, d)
        BY <2>4 DEF UnlinkRaises
    <3>2. QED BY <1>1, <1>2, <2>2, <3>1
  <2>5. QED BY <2>1, <2>3, <2>4
<1>5. QED BY <1>3, <1>4

LEMMA UnlinkShape ==
    ASSUME StoreShape, NEW p \in Procs, Unlink(p)
    PROVE  StoreShape'
<1>1. LockAlone /\ UNCHANGED <<index, tmp, stamp, made, refused>>
    BY DEF Unlink
<1>2. files \in Files(stamp) /\ Idle \in Ops(stamp) /\ Unlinks \subseteq Ops(stamp)
    BY OpsInside DEF StoreShape
<1>3. CASE UnlinksDone(p)
    BY <1>1, <1>2, <1>3, ShapeShrinks DEF UnlinksDone
<1>4. ASSUME NEW d \in Dirs, Unlinked(p, d)
      PROVE  StoreShape'
    BY <1>1, <1>2, <1>4, ShapeShrinks DEF Unlinked
<1>5. ASSUME NEW d \in Dirs, UnlinkRaises(p, d)
      PROVE  StoreShape'
    BY <1>1, <1>2, <1>5, ShapeShrinks DEF UnlinkRaises
<1>6. QED BY <1>3, <1>4, <1>5, UnlinkSplits

LEMMA IndexShape ==
    ASSUME StoreShape, NEW p \in Procs, UpdateIndex(p) \/ SaveIndex(p) \/ RebuildIndex(p)
    PROVE  StoreShape'
<1>1. LockAlone /\ FilesAlone /\ UNCHANGED tmp
    BY DEF UpdateIndex, SaveIndex, RebuildIndex
<1>2. LockTypeOK' /\ tmp' \in [Procs -> BOOLEAN]
    BY <1>1, LockKept DEF StoreShape
<1>3. index \in Indexes /\ op[p] \in Ops(stamp)
    BY DEF StoreShape
<1>4. CASE UpdateIndex(p)
  <2> DEFINE idx == [index EXCEPT ![op[p].id] = op[p].to]
  <2>1. op[p] \in Unlinks
      BY <1>3, <1>4, OpOf DEF UpdateIndex, At
  <2>2. op[p].id \in Ids /\ op[p].to \in Dirs
      BY <2>1 DEF Unlinks
  <2>3. idx \in Indexes
      BY <1>3, <2>2, IndexUpdate
  <2>4. index' = EmptyIndex /\ Step(p, [step |-> "save", idx |-> idx])
      BY <1>4 DEF UpdateIndex
  <2> HIDE DEF idx
  <2>5. [step |-> "save", idx |-> idx] \in Saves
      BY <2>3 DEF Saves
  <2>6. QED BY <1>1, <1>2, <2>4, <2>5, EmptyIndexType, OpsInside, ShapeMoves
<1>5. CASE SaveIndex(p)
  <2>1. op[p].idx \in Indexes
      BY <1>3, <1>5, OpOf DEF SaveIndex, At, Saves
  <2>2. index' = op[p].idx /\ Step(p, Idle)
      BY <1>5 DEF SaveIndex
  <2>3. QED BY <1>1, <1>2, <2>1, <2>2, OpsInside, ShapeMoves
<1>6. CASE RebuildIndex(p)
  <2>1. op[p].idx \in Indexes
      BY <1>3, <1>6, OpOf DEF RebuildIndex, At, Scans
  <2>2. index' = EmptyIndex /\ Step(p, [step |-> "save", idx |-> op[p].idx])
      BY <1>6 DEF RebuildIndex
  <2>3. [step |-> "save", idx |-> op[p].idx] \in Saves
      BY <2>1 DEF Saves
  <2>4. QED BY <1>1, <1>2, <2>2, <2>3, EmptyIndexType, OpsInside, ShapeMoves
<1>7. QED BY <1>4, <1>5, <1>6

\* A recovery on its way through the tasks and the directories.
Looked(p, i) ==
    \/ Cardinality(Copies(i)) <= 1 /\ op'[p] = [op[p] EXCEPT !.ids = @ \ {i}]
    \/ /\ ~(Cardinality(Copies(i)) <= 1)
       /\ op'[p] = [step |-> "choose", ids |-> op[p].ids \ {i}, id |-> i, seen |-> Copies(i)]

LEMMA LookShape ==
    ASSUME StoreShape, NEW p \in Procs, LookForDuplicates(p)
    PROVE  /\ StoreShape' /\ op[p] \in Looks
           /\ \/ op[p].ids = {} /\ op'[p] = [step |-> "scan", dir |-> 1, idx |-> EmptyIndex]
              \/ \E i \in Ids : i \in op[p].ids /\ Looked(p, i)
<1>1. op[p] \in Looks
    BY OpOf DEF LookForDuplicates, At, StoreShape
<1>2. op[p].ids \in SUBSET Ids
    BY <1>1 DEF Looks
<1>3. LockAlone /\ FilesAlone /\ UNCHANGED <<index, tmp>>
    BY DEF LookForDuplicates
<1>4. LockTypeOK' /\ index' \in Indexes /\ tmp' \in [Procs -> BOOLEAN]
    BY <1>3, LockKept DEF StoreShape
<1>5. CASE op[p].ids = {}
  <2> DEFINE o == [step |-> "scan", dir |-> 1, idx |-> EmptyIndex]
  <2>1. Step(p, o)
      BY <1>5 DEF LookForDuplicates
  <2>2. o \in Ops(stamp)
      BY EmptyIndexType, OpsInside DEF Scans
  <2> HIDE DEF o
  <2>3. op'[p] = o
      BY <2>1 DEF Step, StoreShape
  <2>4. StoreShape'
      BY <1>3, <1>4, <2>1, <2>2, ShapeMoves
  <2>5. QED BY <1>1, <1>5, <2>3, <2>4 DEF o
<1>6. CASE op[p].ids # {}
  <2>1. PICK i \in op[p].ids :
           Step(p, IF Cardinality(Copies(i)) <= 1 THEN [op[p] EXCEPT !.ids = @ \ {i}]
                   ELSE [step |-> "choose", ids |-> op[p].ids \ {i}, id |-> i, seen |-> Copies(i)])
      BY <1>6 DEF LookForDuplicates
  <2>2. i \in Ids
      BY <1>2
  <2> DEFINE o == [op[p] EXCEPT !.ids = @ \ {i}]
             c == [step |-> "choose", ids |-> op[p].ids \ {i}, id |-> i, seen |-> Copies(i)]
  <2>3. o \in Looks
      BY <1>1 DEF Looks
  <2>4. c \in Chooses
    <3>1. op[p].ids \ {i} \in SUBSET Ids /\ Copies(i) \in SUBSET Dirs
        BY <1>2 DEF Copies
    <3>2. QED BY <2>2, <3>1 DEF Chooses
  <2>5. \A v : Step(p, v) => op'[p] = v
      BY DEF Step, StoreShape
  <2>6. o \in Ops(stamp) /\ c \in Ops(stamp)
      BY <2>3, <2>4, OpsInside
  <2>7. \/ Cardinality(Copies(i)) <= 1 /\ Step(p, o)
        \/ ~(Cardinality(Copies(i)) <= 1) /\ Step(p, c)
      BY <2>1
  <2> HIDE DEF o, c
  <2>8. StoreShape'
      BY <1>3, <1>4, <2>6, <2>7, ShapeMoves
  <2>9. Looked(p, i)
      BY <2>5, <2>7 DEF Looked, o, c
  <2>10. QED BY <1>1, <2>2, <2>8, <2>9
<1>7. QED BY <1>5, <1>6

LEMMA ChooseShape ==
    ASSUME StoreShape, NEW p \in Procs, Choose(p)
    PROVE  /\ StoreShape' /\ op[p] \in Chooses /\ op'[p] \in Prunes
           /\ op'[p].ids = op[p].ids /\ op'[p].id = op[p].id
           /\ op'[p].others = op[p].seen \ (IF Copies(op[p].id) = {} THEN {} ELSE {Chosen(op[p].id)})
<1> DEFINE others == op[p].seen \ (IF Copies(op[p].id) = {} THEN {} ELSE {Chosen(op[p].id)})
           o == [step |-> "prune", ids |-> op[p].ids, id |-> op[p].id, others |-> others]
<1>1. op[p] \in Chooses
    BY OpOf DEF Choose, At, StoreShape
<1>2. op[p].ids \in SUBSET Ids /\ op[p].id \in Ids /\ op[p].seen \in SUBSET Dirs
    BY <1>1 DEF Chooses
<1>3. Step(p, o) /\ LockAlone /\ FilesAlone /\ UNCHANGED <<index, tmp>>
    BY DEF Choose
<1>4. others \in SUBSET Dirs
    BY <1>2
<1> HIDE DEF others
<1>5. o \in Prunes /\ o.ids = op[p].ids /\ o.id = op[p].id /\ o.others = others
    BY <1>2, <1>4 DEF Prunes
<1> HIDE DEF o
<1>6. LockTypeOK' /\ index' \in Indexes /\ tmp' \in [Procs -> BOOLEAN] /\ o \in Ops(stamp)
    BY <1>3, <1>5, LockKept, OpsInside DEF StoreShape
<1>7. op'[p] = o
    BY <1>3 DEF Step, StoreShape
<1>8. StoreShape'
    BY <1>3, <1>6, ShapeMoves
<1>9. QED BY <1>1, <1>5, <1>7, <1>8 DEF others

LEMMA PruneShape ==
    ASSUME StoreShape, NEW p \in Procs, Prune(p)
    PROVE  /\ StoreShape' /\ op[p] \in Prunes /\ op'[p] = [step |-> "look", ids |-> op[p].ids]
           /\ Without(files, files', op[p].id, op[p].others) /\ op[p].id \in Ids
<1>1. op[p] \in Prunes
    BY OpOf DEF Prune, At, StoreShape
<1>2. op[p].ids \in SUBSET Ids /\ op[p].id \in Ids
    BY <1>1 DEF Prunes
<1> DEFINE o == [step |-> "look", ids |-> op[p].ids]
<1>3. Step(p, o) /\ LockAlone /\ UNCHANGED <<index, tmp, stamp, made, refused>>
      /\ files' = Dropped(files, op[p].id, op[p].others)
    BY DEF Prune, Dropped
<1>4. files' \in Files(stamp) /\ Without(files, files', op[p].id, op[p].others)
    BY <1>2, <1>3, DroppedFile DEF StoreShape, Without
<1>5. o \in Ops(stamp)
    BY <1>2, OpsInside DEF Looks
<1> HIDE DEF o
<1>6. StoreShape'
    BY <1>3, <1>4, <1>5, ShapeShrinks
<1>7. op'[p] = o
    BY <1>3 DEF Step, StoreShape
<1>8. QED BY <1>1, <1>2, <1>4, <1>6, <1>7 DEF o

LEMMA ScanShape ==
    ASSUME StoreShape, NEW p \in Procs, ScanDirectory(p)
    PROVE  /\ StoreShape' /\ op[p] \in Scans /\ op'[p] \in Scans
           /\ op[p].dir \in 1 .. Len(DirOrder) /\ op'[p].dir = op[p].dir + 1
           /\ \A i \in Ids : op'[p].idx[i] =
                 (IF DirOrder[op[p].dir] \in Copies(i) THEN DirOrder[op[p].dir] ELSE op[p].idx[i])
<1> DEFINE d == DirOrder[op[p].dir]
           idx == [i \in Ids |-> IF d \in Copies(i) THEN d ELSE op[p].idx[i]]
           o == [op[p] EXCEPT !.dir = @ + 1, !.idx = idx]
<1>1. op[p] \in Scans
    BY OpOf DEF ScanDirectory, At, StoreShape
<1>2. op[p].dir \in Nat \ {0} /\ op[p].idx \in Indexes /\ op[p].dir <= Len(DirOrder)
    BY <1>1 DEF Scans, ScanDirectory
<1>3. op[p].dir \in 1 .. Len(DirOrder) /\ d \in Dirs
    BY <1>2, FirstDirectory, StoreAssumption
<1>4. Step(p, o) /\ LockAlone /\ FilesAlone /\ UNCHANGED <<index, tmp>>
    BY DEF ScanDirectory
<1>5. idx \in Indexes /\ \A i \in Ids : idx[i] = IF d \in Copies(i) THEN d ELSE op[p].idx[i]
    BY <1>2, <1>3 DEF Indexes
<1> HIDE DEF idx
<1>6. o \in Scans /\ o.dir = op[p].dir + 1 /\ o.idx = idx
  <2> DEFINE x == op[p].dir + 1
             w == op[p]
  <2>1. x \in Nat \ {0}
      BY <1>2
  <2>2. w \in Scans
      BY <1>1
  <2> HIDE DEF x, w
  <2>3. [w EXCEPT !.dir = x, !.idx = idx] \in Scans
      BY <1>5, <2>1, <2>2 DEF Scans
  <2>4. [w EXCEPT !.dir = x, !.idx = idx].dir = x /\ [w EXCEPT !.dir = x, !.idx = idx].idx = idx
      BY <2>2 DEF Scans
  <2>5. o = [w EXCEPT !.dir = x, !.idx = idx]
      BY DEF x, w
  <2>6. QED BY <2>3, <2>4, <2>5 DEF x
<1> HIDE DEF o
<1>7. LockTypeOK' /\ index' \in Indexes /\ tmp' \in [Procs -> BOOLEAN] /\ o \in Ops(stamp)
    BY <1>4, <1>6, LockKept, OpsInside DEF StoreShape
<1>8. op'[p] = o
    BY <1>4 DEF Step, StoreShape
<1>9. StoreShape'
    BY <1>4, <1>7, ShapeMoves
<1>10. QED BY <1>1, <1>3, <1>5, <1>6, <1>8, <1>9

\* Starting a recovery, sweeping, dying.
LEMMA OtherShape ==
    ASSUME StoreShape, NEW p \in Procs, Construct(p) \/ Recover(p) \/ SweepTemporaries(p) \/ Die(p)
    PROVE  /\ StoreShape' /\ FilesAlone /\ UNCHANGED index
           /\ Construct(p) \/ Recover(p) => op'[p] = [step |-> "sweep"]
           /\ SweepTemporaries(p) => op'[p] = [step |-> "look", ids |-> {i \in Ids : Copies(i) # {}}]
           /\ Die(p) => op'[p] = Idle
<1>1. LockTypeOK'
  <2>1. [StoreNext]_storeVars
      BY DEF StoreNext
  <2>2. QED BY <2>1, LockSteps, LockTypeStep DEF StoreShape
<1>2. \A v : Step(p, v) => op'[p] = v
    BY DEF Step, StoreShape
<1>3. CASE Construct(p) \/ Recover(p)
  <2>1. Step(p, [step |-> "sweep"]) /\ FilesAlone /\ UNCHANGED <<index, tmp>>
        /\ ~SweepTemporaries(p) /\ ~Die(p)
    <3>1. Step(p, [step |-> "sweep"]) /\ FilesAlone /\ UNCHANGED <<index, tmp>>
        BY <1>3 DEF Construct, Recover
    <3>2. op'[p].step = "sweep"
        BY <1>2, <3>1
    <3>3. ~SweepTemporaries(p) /\ ~Die(p)
        BY <1>2, <3>2 DEF SweepTemporaries, Die, Idle
    <3>4. QED BY <3>1, <3>3
  <2>2. index' \in Indexes /\ tmp' \in [Procs -> BOOLEAN]
      BY <2>1 DEF StoreShape
  <2>3. StoreShape'
      BY <1>1, <2>1, <2>2, OpsInside, ShapeMoves
  <2>4. QED BY <1>2, <1>3, <2>1, <2>3
<1>4. CASE SweepTemporaries(p)
  <2> DEFINE o == [step |-> "look", ids |-> {i \in Ids : Copies(i) # {}}]
  <2>1. Step(p, o) /\ FilesAlone /\ UNCHANGED index /\ tmp' = [q \in Procs |-> FALSE]
      BY <1>4 DEF SweepTemporaries
  <2>2. o \in Ops(stamp)
      BY OpsInside DEF Looks
  <2>3. index' \in Indexes /\ tmp' \in [Procs -> BOOLEAN]
      BY <2>1 DEF StoreShape
  <2>4. op'[p] = o /\ o.step = "look"
      BY <1>2, <2>1
  <2>5. ~Construct(p) /\ ~Recover(p) /\ ~Die(p)
      BY <1>2, <2>4 DEF Construct, Recover, Die, Idle
  <2> HIDE DEF o
  <2>6. StoreShape'
      BY <1>1, <2>1, <2>2, <2>3, ShapeMoves
  <2>7. QED BY <1>4, <2>1, <2>4, <2>5, <2>6 DEF o
<1>5. CASE Die(p)
  <2>1. Step(p, Idle) /\ FilesAlone /\ UNCHANGED index /\ tmp' = [tmp EXCEPT ![p] = FALSE]
      BY <1>5 DEF Die
  <2>2. index' \in Indexes /\ tmp' \in [Procs -> BOOLEAN]
      BY <2>1, TmpUpdate DEF StoreShape
  <2>3. op'[p] = Idle /\ Idle.step = "none"
      BY <1>2, <2>1 DEF Idle
  <2>4. ~Construct(p) /\ ~Recover(p) /\ ~SweepTemporaries(p)
      BY <1>2, <2>3 DEF Construct, Recover, SweepTemporaries
  <2>5. StoreShape'
      BY <1>1, <2>1, <2>2, OpsInside, ShapeMoves
  <2>6. QED BY <1>5, <2>1, <2>3, <2>4, <2>5
<1>6. QED BY <1>3, <1>4, <1>5

LEMMA QuietShape ==
    ASSUME StoreShape, NEW p \in Procs, LockStep(p)
    PROVE  StoreShape'
<1>1. LockTypeOK'
  <2>1. [StoreNext]_storeVars
      BY DEF StoreNext
  <2>2. QED BY <2>1, LockSteps, LockTypeStep DEF StoreShape
<1>2. FilesAlone /\ UNCHANGED <<index, tmp, op>>
    BY DEF LockStep
<1>3. QED BY <1>1, <1>2 DEF StoreShape, FilesAlone

\* The one version of a task that is there to begin with.
First(i) == [task |-> i, stamp |-> i, wrote |-> i, status |-> DirOrder[1]]

LEMMA FirstIsVersion ==
    /\ \A t \in Nat : \A i \in 1 .. t : First(i) \in Versions(t)
    /\ \A i \in Ids : First(i) # NoCopy /\ First(i).task = i /\ First(i).stamp = i /\ First(i).wrote = i
<1>1. \A t \in Nat : \A i \in 1 .. t : First(i) \in Versions(t)
    BY FirstDirectory DEF First, Versions
<1>2. ASSUME NEW i \in Ids
      PROVE  First(i) # NoCopy /\ First(i).task = i /\ First(i).stamp = i /\ First(i).wrote = i
  <2>1. First(i).task = i /\ First(i).stamp = i /\ First(i).wrote = i
      BY DEF First
  <2>2. NoCopy.task = 0 /\ i # 0
      BY StoreAssumption DEF NoCopy
  <2>3. QED BY <2>1, <2>2
<1>3. QED BY <1>1, <1>2

LEMMA FirstFiles ==
    ASSUME StoreInit
    PROVE  \A i \in Ids, d \in Dirs : files[i][d] = IF i <= Preloaded /\ d = DirOrder[1] THEN First(i) ELSE NoCopy
<1>1. \A i \in Ids, d \in Dirs :
         files[i][d] = IF i <= Preloaded /\ d = DirOrder[1]
                         THEN [task |-> i, stamp |-> i, wrote |-> i, status |-> d] ELSE NoCopy
    BY DEF StoreInit
<1>2. QED BY <1>1 DEF First

LEMMA ShapeInitial == StoreInit => StoreShape
<1> SUFFICES ASSUME StoreInit PROVE StoreShape
    OBVIOUS
<1>1. LockTypeOK
    BY LockTypeInitial DEF StoreInit
<1>2. stamp \in Nat /\ stamp = Preloaded /\ made = 1 .. stamp /\ op = [p \in Procs |-> Idle]
    BY StoreAssumption DEF StoreInit
<1>3. files \in Files(stamp)
  <2>1. \A i \in Ids, d \in Dirs : files[i][d] \in {NoCopy} \cup Versions(stamp)
    <3>1. ASSUME NEW i \in Ids, i <= Preloaded
          PROVE  First(i) \in Versions(stamp)
      <4>1. i \in 1 .. stamp
          BY <1>2, <3>1, StoreAssumption
      <4>2. QED BY <1>2, <4>1, FirstIsVersion
    <3>2. QED BY <3>1, FirstFiles
  <2>2. files = [i \in Ids |-> [d \in Dirs |-> files[i][d]]]
      BY DEF StoreInit
  <2>3. QED BY <2>1, <2>2 DEF Files
<1>4. index \in Indexes
    BY FirstDirectory DEF StoreInit, Indexes
<1>5. tmp \in [Procs -> BOOLEAN]
    BY DEF StoreInit
<1>6. \A p \in Procs : op[p] = Idle
    BY <1>2
<1>7. refused \in 0 .. stamp
    BY <1>2 DEF StoreInit
<1>8. QED BY <1>1, <1>2, <1>3, <1>4, <1>5, <1>6, <1>7, OpsInside DEF StoreShape

LEMMA ShapeStep == StoreShape /\ [StoreNext]_storeVars => StoreShape'
<1> SUFFICES ASSUME StoreShape, [StoreNext]_storeVars PROVE StoreShape'
    OBVIOUS
<1>1. CASE UNCHANGED storeVars
  <2>1. LockTypeOK'
      BY <1>1 DEF storeVars, StoreShape, LockTypeOK
  <2>2. QED BY <1>1, <2>1 DEF storeVars, StoreShape
<1>2. CASE StoreNext
    BY <1>2, BeginShape, WriteTemporaryShape, RenameShape, UnlinkShape, IndexShape, LookShape, ChooseShape,
       PruneShape, ScanShape, OtherShape, QuietShape DEF StoreNext
<1>3. QED BY <1>1, <1>2

\* Whatever is interleaved, recovery next to locked operations included, the files, the index
\* and the operations in progress stay well formed, and no version is from the future.
THEOREM StoreTypeCorrect == StoreSpec => []StoreTypeOK
<1>1. ASSUME StoreShape
      PROVE  StoreTypeOK
  <2>1. stamp \in Nat /\ LockTypeOK /\ index \in [Ids -> Dirs \cup {NoDir}] /\ tmp \in [Procs -> BOOLEAN]
        /\ made \subseteq 1 .. stamp /\ refused \in 0 .. stamp
      BY <1>1 DEF StoreShape, Indexes
  <2> DEFINE C == [task : 0 .. stamp, stamp : 0 .. stamp, wrote : 0 .. stamp, status : Dirs \cup {NoDir}]
  <2>2. {NoCopy} \cup Versions(stamp) \subseteq C
      BY <2>1 DEF NoCopy, Versions
  <2> HIDE DEF C
  <2>i. files \in [Ids -> [Dirs -> C]]
      BY <1>1, <2>2 DEF StoreShape, Files
  <2>3. files \in [Ids -> [Dirs -> [task : 0 .. stamp, stamp : 0 .. stamp, wrote : 0 .. stamp,
                                     status : Dirs \cup {NoDir}]]]
      BY <2>i DEF C
  <2>4. \A p \in Procs : op[p].step \in {"none", "write", "rename", "unlink", "index", "save", "sweep",
                                         "look", "choose", "prune", "scan"}
      BY <1>1, OpOf DEF StoreShape
  <2>5. QED BY <2>1, <2>3, <2>4 DEF StoreTypeOK
<1>2. QED BY <1>1, ShapeInitial, ShapeStep, PTL DEF StoreSpec

\* The processes of the pool's directory use the lock as PoolLock says, so what is proved of the
\* lock holds of them: a constructor is a boot, a death in the middle of anything is a crash.
THEOREM StoreKeepsToTheLock == StoreSpec => LockSpec
BY LockSteps, PTL DEF StoreSpec, LockSpec, StoreInit

-----------------------------------------------------------------------------
(* The directory as an atomic store. *)

OneTask(F) == \A i \in Ids : \A d, e \in CopiesIn(F, i) : F[i][d].task = F[i][e].task
AllThere(F, M) == \A k \in M : \E i \in Ids : \E d \in CopiesIn(F, i) : F[i][d].task = k

\* What an operation in progress relies on: the record it writes is of the task it loaded, the
\* copies it is about to remove are not the newest.
Working(F, o) ==
    /\ o.step \in {"write", "rename"} =>
         /\ o.task = 0 => CopiesIn(F, o.id) = {} /\ o.seen = 0
         /\ o.task # 0 => CopiesIn(F, o.id) # {} /\ \A d \in CopiesIn(F, o.id) : F[o.id][d].task = o.task
    /\ o.step = "unlink" => o.to \notin o.others /\ Newest(F, o.id, o.to)
    /\ o.step = "prune" /\ CopiesIn(F, o.id) # {} => \E d \in Dirs : Newest(F, o.id, d) /\ d \notin o.others

DurableInv ==
    /\ StoreShape
    /\ Unmixed(files) /\ OneTask(files) /\ AllThere(files, made)
    /\ \A p \in Procs : Working(files, op[p])

\* Nobody is in the middle of anything next to somebody who is.
Solo == \A p, q \in Procs : op[p].step # "none" /\ op[q].step # "none" => p = q

\* Removing copies other than the newest changes nothing a load can see.
LEMMA RemovalKeeps ==
    ASSUME NEW t \in Nat, NEW F \in Files(t), NEW G \in Files(t), NEW i \in Ids, NEW R,
           Without(F, G, i, R), Unmixed(F), OneTask(F),
           CopiesIn(F, i) # {} => \E d \in Dirs : Newest(F, i, d) /\ d \notin R
    PROVE  /\ Unmixed(G) /\ OneTask(G)
           /\ \A M : AllThere(F, M) => AllThere(G, M)
           /\ \A j \in Ids : LoadedIn(G, j) = LoadedIn(F, j)
           /\ \A d : Newest(F, i, d) /\ d \notin R => Newest(G, i, d)
<1>1. \A j \in Ids : \A d \in CopiesIn(G, j) : d \in CopiesIn(F, j) /\ G[j][d] = F[j][d]
    BY DEF Without, CopiesIn
<1>2. Unmixed(G) /\ OneTask(G)
    BY <1>1 DEF Unmixed, OneTask
<1>3. ASSUME NEW j \in Ids, CopiesIn(F, j) # {}
      PROVE  \E d \in Dirs : Newest(F, j, d) /\ Newest(G, j, d) /\ d \in CopiesIn(G, j) /\ G[j][d] = F[j][d]
  <2>1. PICK d \in Dirs : Newest(F, j, d) /\ (j = i => d \notin R)
      BY <1>3, NewestExists
  <2>2. G[j][d] = F[j][d] /\ d \in CopiesIn(F, j)
      BY <2>1 DEF Without, Newest
  <2>3. d \in CopiesIn(G, j)
      BY <2>2 DEF CopiesIn
  <2>4. Newest(G, j, d)
      BY <1>1, <2>1, <2>2, <2>3 DEF Newest
  <2>5. QED BY <2>1, <2>2, <2>3, <2>4
<1>4. ASSUME NEW M, AllThere(F, M)
      PROVE  AllThere(G, M)
  <2>1. ASSUME NEW k \in M
        PROVE  \E j \in Ids : \E d \in CopiesIn(G, j) : G[j][d].task = k
    <3>1. PICK j \in Ids : \E e \in CopiesIn(F, j) : F[j][e].task = k
        BY <1>4 DEF AllThere
    <3>2. PICK d \in Dirs : d \in CopiesIn(G, j) /\ G[j][d] = F[j][d]
        BY <1>3, <3>1
    <3>3. F[j][d].task = k
        BY <1>1, <3>1, <3>2 DEF OneTask
    <3>4. QED BY <3>2, <3>3
  <2>2. QED BY <2>1 DEF AllThere
<1>5. ASSUME NEW j \in Ids
      PROVE  LoadedIn(G, j) = LoadedIn(F, j)
  <2>1. CASE CopiesIn(F, j) = {}
    <3>1. CopiesIn(G, j) = {}
        BY <1>1, <2>1
    <3>2. QED BY <2>1, <3>1 DEF LoadedIn
  <2>2. CASE CopiesIn(F, j) # {}
    <3>1. PICK d \in Dirs : Newest(F, j, d) /\ Newest(G, j, d) /\ G[j][d] = F[j][d]
        BY <1>3, <2>2
    <3>2. LoadedIn(F, j) = F[j][d] /\ LoadedIn(G, j) = G[j][d]
        BY <1>2, <3>1, LoadedIsNewest
    <3>3. QED BY <3>1, <3>2
  <2>3. QED BY <2>1, <2>2
<1>6. ASSUME NEW d, Newest(F, i, d), d \notin R
      PROVE  Newest(G, i, d)
  <2>1. d \in CopiesIn(F, i) /\ d \in Dirs /\ G[i][d] = F[i][d]
      BY <1>6 DEF Without, Newest, CopiesIn
  <2>2. d \in CopiesIn(G, i)
      BY <2>1 DEF CopiesIn
  <2>3. QED BY <1>1, <1>6, <2>1, <2>2 DEF Newest
<1>7. QED BY <1>2, <1>4, <1>5, <1>6

\* A rename puts a version of its task into place.
LEMMA RenameKeeps ==
    ASSUME NEW t \in Nat, NEW F \in Files(t), NEW i \in Ids, NEW d \in Dirs,
           NEW c \in Versions(t + 1), c.wrote = t + 1,
           Unmixed(F), OneTask(F), \A e \in CopiesIn(F, i) : F[i][e].task = c.task
    PROVE  LET G == Put(F, i, d, c)
           IN /\ G \in Files(t + 1) /\ Unmixed(G) /\ OneTask(G)
              /\ \A M : AllThere(F, M) => AllThere(G, M \cup {c.task})
              /\ LoadedIn(G, i) # NoCopy /\ LoadedIn(G, i).task = c.task
              /\ \A j \in Ids : j # i => LoadedIn(G, j) = LoadedIn(F, j)
              /\ CopiesIn(G, i) = CopiesIn(F, i) \cup {d}
              /\ \A j \in Ids : j # i => CopiesIn(G, j) = CopiesIn(F, j)
<1> DEFINE G == Put(F, i, d, c)
<1>1. t + 1 \in Nat /\ F \in Files(t + 1)
    BY LaterFiles
<1>2. G \in Files(t + 1) /\ G[i][d] = c /\ \A j \in Ids, e \in Dirs : ~(j = i /\ e = d) => G[j][e] = F[j][e]
    BY <1>1, PutFile
<1> HIDE DEF G
<1>3. c # NoCopy
    BY <1>1, NoCopyIsNoVersion
<1>4. /\ CopiesIn(G, i) = CopiesIn(F, i) \cup {d}
      /\ \A j \in Ids : j # i => CopiesIn(G, j) = CopiesIn(F, j)
    BY <1>2, <1>3 DEF CopiesIn
<1>5. \A j \in Ids : \A e \in CopiesIn(F, j) : F[j][e].wrote \in 1 .. t
    BY CopyTypes
<1>d. \A j \in Ids : \A e \in CopiesIn(F, j) : e \in Dirs
    BY DEF CopiesIn
<1>6. Unmixed(G)
  <2>1. ASSUME NEW j \in Ids, NEW k \in Ids, NEW e \in CopiesIn(G, j), NEW f \in CopiesIn(G, k),
               G[j][e].wrote = G[k][f].wrote
        PROVE  j = k /\ e = f
    <3>1. CASE j = i /\ e = d /\ k = i /\ f = d
        BY <3>1
    <3>2. CASE j = i /\ e = d /\ ~(k = i /\ f = d)
      <4>1. f \in CopiesIn(F, k) /\ G[k][f] = F[k][f]
          BY <1>2, <1>4, <1>d, <3>2
      <4>2. QED BY <1>2, <1>5, <2>1, <3>2, <4>1
    <3>3. CASE ~(j = i /\ e = d) /\ k = i /\ f = d
      <4>1. e \in CopiesIn(F, j) /\ G[j][e] = F[j][e]
          BY <1>2, <1>4, <1>d, <3>3
      <4>2. QED BY <1>2, <1>5, <2>1, <3>3, <4>1
    <3>4. CASE ~(j = i /\ e = d) /\ ~(k = i /\ f = d)
      <4>1. e \in CopiesIn(F, j) /\ G[j][e] = F[j][e] /\ f \in CopiesIn(F, k) /\ G[k][f] = F[k][f]
          BY <1>2, <1>4, <1>d, <3>4
      <4>2. QED BY <2>1, <4>1 DEF Unmixed
    <3>5. QED BY <3>1, <3>2, <3>3, <3>4
  <2>2. QED BY <2>1 DEF Unmixed
<1>7. \A e \in CopiesIn(G, i) : G[i][e].task = c.task
    BY <1>2, <1>4, <1>d
<1>8. OneTask(G)
    BY <1>2, <1>4, <1>7, <1>d DEF OneTask
<1>9. ASSUME NEW M, AllThere(F, M)
      PROVE  AllThere(G, M \cup {c.task})
  <2>1. ASSUME NEW k \in M
        PROVE  \E j \in Ids : \E e \in CopiesIn(G, j) : G[j][e].task = k
    <3>1. PICK j \in Ids, e \in Dirs : e \in CopiesIn(F, j) /\ F[j][e].task = k
        BY <1>9, <1>d DEF AllThere
    <3>2. e \in CopiesIn(G, j)
        BY <1>4, <3>1
    <3>3. G[j][e].task = k
        BY <1>2, <3>1
    <3>4. QED BY <3>2, <3>3
  <2>2. d \in CopiesIn(G, i) /\ G[i][d].task = c.task
      BY <1>2, <1>4
  <2>3. QED BY <2>1, <2>2 DEF AllThere
<1>10. PICK top \in Dirs : Newest(G, i, top) /\ LoadedIn(G, i) = G[i][top]
  <2>1. CopiesIn(G, i) # {}
      BY <1>4
  <2>2. QED BY <1>1, <1>2, <1>6, <2>1, LoadedIsNewest
<1>11. LoadedIn(G, i) # NoCopy /\ LoadedIn(G, i).task = c.task
    BY <1>7, <1>10 DEF Newest, CopiesIn
<1>12. ASSUME NEW j \in Ids, j # i
       PROVE  LoadedIn(G, j) = LoadedIn(F, j)
  <2>1. CopiesIn(G, j) = CopiesIn(F, j) /\ \A e \in CopiesIn(F, j) : G[j][e] = F[j][e]
      BY <1>2, <1>4, <1>12, <1>d
  <2>2. CASE CopiesIn(F, j) = {}
      BY <2>1, <2>2 DEF LoadedIn
  <2>3. CASE CopiesIn(F, j) # {}
    <3>1. PICK e \in Dirs : Newest(F, j, e)
        BY <2>3, NewestExists
    <3>2. Newest(G, j, e) /\ G[j][e] = F[j][e]
        BY <2>1, <3>1 DEF Newest
    <3>3. LoadedIn(F, j) = F[j][e] /\ LoadedIn(G, j) = G[j][e]
        BY <1>1, <1>2, <1>6, <3>1, <3>2, LoadedIsNewest
    <3>4. QED BY <3>2, <3>3
  <2>4. QED BY <2>2, <2>3
<1>13. QED BY <1>2, <1>4, <1>6, <1>8, <1>9, <1>11, <1>12 DEF G

\* A refreshed version is the newest of its task.
LEMMA RenamePuts ==
    ASSUME NEW t \in Nat, NEW F \in Files(t), NEW i \in Ids, NEW d \in Dirs,
           NEW c \in Versions(t + 1), c.wrote = t + 1, c.stamp = t + 1,
           Unmixed(F), OneTask(F), \A e \in CopiesIn(F, i) : F[i][e].task = c.task
    PROVE  LET G == Put(F, i, d, c)
           IN LoadedIn(G, i) = c /\ Newest(G, i, d)
<1> DEFINE G == Put(F, i, d, c)
<1>1. t + 1 \in Nat /\ F \in Files(t + 1)
    BY LaterFiles
<1>2. G[i][d] = c /\ \A j \in Ids, e \in Dirs : ~(j = i /\ e = d) => G[j][e] = F[j][e]
    BY <1>1, PutFile
<1>3. G \in Files(t + 1) /\ Unmixed(G) /\ CopiesIn(G, i) = CopiesIn(F, i) \cup {d}
    BY RenameKeeps
<1> HIDE DEF G
<1>4. \A e \in CopiesIn(F, i) : F[i][e].stamp \in 1 .. t /\ e \in Dirs
    BY CopyTypes DEF CopiesIn
<1>5. Newest(G, i, d)
  <2>1. ASSUME NEW e \in CopiesIn(G, i)
        PROVE  NoLater(G[i][e], G[i][d])
    <3>1. CASE e = d
        BY <1>1, <1>2, <3>1 DEF NoLater
    <3>2. CASE e # d
      <4>1. e \in CopiesIn(F, i) /\ G[i][e] = F[i][e]
          BY <1>2, <1>3, <1>4, <3>2
      <4>2. F[i][e].stamp \in 1 .. t
          BY <1>4, <4>1
      <4>3. F[i][e].stamp < t + 1
          BY <1>1, <4>2
      <4>4. QED BY <1>2, <4>1, <4>3 DEF NoLater
    <3>3. QED BY <3>1, <3>2
  <2>2. QED BY <1>3, <2>1 DEF Newest
<1>6. LoadedIn(G, i) = c
    BY <1>1, <1>2, <1>3, <1>5, LoadedIsNewest
<1>7. QED BY <1>5, <1>6 DEF G

LEMMA NothingAtStake ==
    ASSUME NEW F, NEW o, o.step \notin {"write", "rename", "unlink", "prune"}
    PROVE  Working(F, o)
BY DEF Working

\* A step that leaves the files alone.
LEMMA DurableMoves ==
    ASSUME DurableInv, StoreShape', FilesAlone, NEW p \in Procs,
           Working(files, op'[p]), \A q \in Procs \ {p} : op'[q] = op[q]
    PROVE  DurableInv' /\ refused' = refused /\ \A i \in Ids : Loaded(i)' = Loaded(i)
<1>1. files' = files /\ made' = made /\ refused' = refused
    BY DEF FilesAlone
<1>2. \A q \in Procs : Working(files', op'[q])
    BY <1>1 DEF DurableInv
<1>3. Unmixed(files') /\ OneTask(files') /\ AllThere(files', made')
    BY <1>1 DEF DurableInv
<1>4. \A i \in Ids : Loaded(i)' = Loaded(i)
    BY <1>1, CopiesOf
<1>5. QED BY <1>1, <1>2, <1>3, <1>4 DEF DurableInv

\* A step of a process that is alone in the middle of something.
LEMMA OthersIdle ==
    ASSUME Solo, NEW p \in Procs, op[p].step # "none", \A q \in Procs \ {p} : op'[q] = op[q], NEW F
    PROVE  \A q \in Procs \ {p} : Working(F, op'[q])
BY NothingAtStake DEF Solo

LEMMA OnlyOne ==
    ASSUME StoreShape, NEW p \in Procs, NEW o, Step(p, o)
    PROVE  op'[p] = o /\ \A q \in Procs \ {p} : op'[q] = op[q]
BY DEF StoreShape, Step

\* The steps of StoreNext that leave the files alone.
LEMMA DurableQuiet ==
    ASSUME DurableInv, StoreShape', NEW p \in Procs,
           \/ BeginMove(p) \/ BeginRefused(p) \/ (BeginCreate(p) /\ Copies(Cardinality(Listed) + 1) = {})
           \/ WriteTemporary(p) \/ NotRenamed(p) \/ UpdateIndex(p) \/ SaveIndex(p)
           \/ Construct(p) \/ Recover(p) \/ SweepTemporaries(p) \/ LookForDuplicates(p) \/ Choose(p)
           \/ ScanDirectory(p) \/ RebuildIndex(p) \/ Die(p)
    PROVE  DurableInv' /\ refused' = refused /\ \A i \in Ids : Loaded(i)' = Loaded(i)
<1>s. StoreShape /\ stamp \in Nat /\ files \in Files(stamp) /\ OneTask(files) /\ Working(files, op[p])
    BY DEF DurableInv, StoreShape
<1>1. CASE BeginMove(p) \/ BeginRefused(p)
  <2>1. PICK i \in Ids, d \in Dirs, k \in 1 .. stamp, seen \in 0 .. stamp, status \in Dirs :
           /\ CopiesIn(files, i) # {} /\ Chosen(i) \in CopiesIn(files, i) /\ k = files[i][Chosen(i)].task
           /\ Step(p, Write(i, d, k, seen, status))
      BY <1>1, <1>s, BeginSplits DEF Rewrites
  <2>2. PICK o : o = Write(i, d, k, seen, status)
      OBVIOUS
  <2>3. \A e \in CopiesIn(files, i) : files[i][e].task = k
      BY <1>s, <2>1 DEF OneTask
  <2>4. k # 0 /\ k \in 0 .. stamp
      BY <1>s
  <2>5. o.step = "write" /\ o.id = i /\ o.task = k
      BY <1>s, <2>2, <2>4, WriteIsWrite
  <2>6. Working(files, o)
      BY <2>1, <2>3, <2>4, <2>5 DEF Working
  <2>7. Step(p, o) /\ FilesAlone
      BY <1>1, <1>s, <2>1, <2>2, BeginSplits
  <2>8. QED BY <1>s, <2>6, <2>7, OnlyOne, DurableMoves
<1>2. CASE BeginCreate(p) /\ Copies(Cardinality(Listed) + 1) = {}
  <2>1. PICK i \in Ids : i = Cardinality(Listed) + 1 /\ Step(p, Write(i, DirOrder[1], 0, 0, DirOrder[1]))
      BY <1>2, <1>s, BeginSplits DEF Creates
  <2>2. PICK o : o = Write(i, DirOrder[1], 0, 0, DirOrder[1])
      OBVIOUS
  <2>3. CopiesIn(files, i) = {}
      BY <1>2, <2>1, CopiesOf
  <2>4. 0 \in 0 .. stamp
      BY <1>s
  <2>5. o.step = "write" /\ o.id = i /\ o.task = 0 /\ o.seen = 0
      BY <1>s, <2>2, <2>4, FirstDirectory, WriteIsWrite
  <2>6. Working(files, o)
      BY <2>3, <2>5 DEF Working
  <2>7. Step(p, o) /\ FilesAlone
      BY <1>2, <1>s, <2>1, <2>2, BeginSplits
  <2>8. QED BY <1>s, <2>6, <2>7, OnlyOne, DurableMoves
<1>3. CASE WriteTemporary(p)
  <2>1. op[p] \in Writes(stamp) /\ op[p].step = "write"
      BY <1>3, <1>s, OpOf DEF WriteTemporary, At, StoreShape
  <2>2. Step(p, [op[p] EXCEPT !.step = "rename"]) /\ FilesAlone
      BY <1>3 DEF WriteTemporary
  <2>3. /\ [op[p] EXCEPT !.step = "rename"].step = "rename"
        /\ [op[p] EXCEPT !.step = "rename"].id = op[p].id
        /\ [op[p] EXCEPT !.step = "rename"].task = op[p].task
        /\ [op[p] EXCEPT !.step = "rename"].seen = op[p].seen
      BY <2>1 DEF Writes
  <2>4. Working(files, [op[p] EXCEPT !.step = "rename"])
      BY <1>s, <2>1, <2>3 DEF Working
  <2>5. QED BY <1>s, <2>2, <2>4, OnlyOne, DurableMoves
<1>4. CASE NotRenamed(p) \/ SaveIndex(p) \/ Die(p)
  <2>1. Step(p, Idle) /\ FilesAlone
      BY <1>4 DEF NotRenamed, SaveIndex, Die
  <2>2. Working(files, Idle)
      BY NothingAtStake DEF Idle
  <2>3. QED BY <1>s, <2>1, <2>2, OnlyOne, DurableMoves
<1>5. CASE UpdateIndex(p) \/ RebuildIndex(p)
  <2>1. PICK idx : Step(p, [step |-> "save", idx |-> idx])
      BY <1>5 DEF UpdateIndex, RebuildIndex
  <2>2. FilesAlone /\ Working(files, [step |-> "save", idx |-> idx])
      BY <1>5, NothingAtStake DEF UpdateIndex, RebuildIndex
  <2>3. QED BY <1>s, <2>1, <2>2, OnlyOne, DurableMoves
<1>6. CASE Construct(p) \/ Recover(p)
  <2>1. Step(p, [step |-> "sweep"]) /\ FilesAlone
      BY <1>6 DEF Construct, Recover
  <2>2. Working(files, [step |-> "sweep"])
      BY NothingAtStake
  <2>3. QED BY <1>s, <2>1, <2>2, OnlyOne, DurableMoves
<1>7. CASE SweepTemporaries(p)
  <2> DEFINE o == [step |-> "look", ids |-> {i \in Ids : Copies(i) # {}}]
  <2>1. Step(p, o) /\ FilesAlone
      BY <1>7 DEF SweepTemporaries
  <2>2. o.step = "look"
      OBVIOUS
  <2> HIDE DEF o
  <2>3. Working(files, o)
      BY <2>2, NothingAtStake
  <2>4. QED BY <1>s, <2>1, <2>3, OnlyOne, DurableMoves
<1>8. CASE LookForDuplicates(p)
  <2>1. op[p] \in Looks
      BY <1>8, <1>s, OpOf DEF LookForDuplicates, At, StoreShape
  <2>2. PICK o : Step(p, o)
      BY <1>8 DEF LookForDuplicates
  <2>3. op'[p].step \in {"scan", "look", "choose"}
    <3>1. \/ op'[p] = [step |-> "scan", dir |-> 1, idx |-> EmptyIndex]
          \/ \E i \in Ids : Looked(p, i)
        BY <1>8, <1>s, LookShape
    <3>2. ASSUME NEW i \in Ids, Looked(p, i)
          PROVE  op'[p].step \in {"look", "choose"}
      <4>1. CASE op'[p] = [op[p] EXCEPT !.ids = @ \ {i}]
        <5>1. [op[p] EXCEPT !.ids = @ \ {i}].step = "look"
            BY <2>1 DEF Looks
        <5>2. QED BY ONLY <4>1, <5>1
      <4>2. CASE op'[p] = [step |-> "choose", ids |-> op[p].ids \ {i}, id |-> i, seen |-> Copies(i)]
          BY ONLY <4>2
      <4>3. QED BY <3>2, <4>1, <4>2, Zenon DEF Looked
    <3>3. QED BY <3>1, <3>2
  <2>4. Working(files, op'[p])
      BY <2>3, NothingAtStake
  <2>5. FilesAlone
      BY <1>8 DEF LookForDuplicates
  <2>6. QED BY <1>s, <2>2, <2>4, <2>5, OnlyOne, DurableMoves
<1>9. CASE Choose(p)
  <2>1. PICK o : Step(p, o)
      BY <1>9 DEF Choose
  <2> DEFINE i == op[p].id
  <2>2. /\ op[p] \in Chooses /\ op'[p] \in Prunes /\ op'[p].id = i
        /\ op'[p].others = op[p].seen \ (IF Copies(i) = {} THEN {} ELSE {Chosen(i)})
      BY <1>9, <1>s, ChooseShape
  <2>3. i \in Ids /\ op'[p].step = "prune"
      BY <2>2 DEF Chooses, Prunes
  <2> HIDE DEF i
  <2>4. CopiesIn(files, i) # {} => \E d \in Dirs : Newest(files, i, d) /\ d \notin op'[p].others
    <3>1. ASSUME Copies(i) # {}
          PROVE  Newest(files, i, Chosen(i)) /\ Chosen(i) \in Dirs /\ Chosen(i) \notin op'[p].others
        BY <1>s, <2>2, <2>3, <3>1, ChosenIsNewest
    <3>2. QED BY <3>1, CopiesOf
  <2>5. Working(files, op'[p])
      BY <2>2, <2>3, <2>4 DEF Working
  <2>6. FilesAlone
      BY <1>9 DEF Choose
  <2>7. QED BY <1>s, <2>1, <2>5, <2>6, OnlyOne, DurableMoves
<1>10. CASE ScanDirectory(p)
  <2>1. PICK o : Step(p, o)
      BY <1>10 DEF ScanDirectory
  <2>2. op'[p].step = "scan"
      BY <1>10, <1>s, ScanShape DEF Scans
  <2>3. Working(files, op'[p]) /\ FilesAlone
      BY <1>10, <2>2, NothingAtStake DEF ScanDirectory
  <2>4. QED BY <1>s, <2>1, <2>3, OnlyOne, DurableMoves
<1>11. QED BY <1>1, <1>2, <1>3, <1>4, <1>5, <1>6, <1>7, <1>8, <1>9, <1>10

\* The rename of a new version is a write of the atomic store.
LEMMA RenameWrites ==
    ASSUME DurableInv, StoreShape', Solo, NEW p \in Procs, op[p].step = "rename", Renamed(p)
    PROVE  DurableInv' /\ Durable!Written(op[p].id)
<1>v. op[p].id \in Ids
    BY DEF Renamed, InPlace
<1>w. PICK i, d, c : i \in Ids /\ i = op[p].id /\ d = op[p].to /\ c = NewVersion(p)
    BY <1>v
<1> DEFINE G == Put(files, i, d, c)
<1>s. /\ StoreShape /\ stamp \in Nat /\ files \in Files(stamp) /\ Unmixed(files) /\ OneTask(files)
      /\ AllThere(files, made) /\ Working(files, op[p]) /\ made \subseteq 1 .. stamp
    BY DEF DurableInv, StoreShape
<1>1. /\ op[p] \in Writes(stamp) /\ i \in Ids /\ d \in Dirs /\ op[p].task \in 0 .. stamp
      /\ c \in Versions(stamp + 1) /\ c.stamp = stamp + 1
      /\ c.task = (IF op[p].task = 0 THEN stamp + 1 ELSE op[p].task)
      /\ c.wrote = stamp + 1 /\ refused' = refused
      /\ files' = G /\ stamp' = stamp + 1 /\ made' = made \cup {c.task}
      /\ Step(p, AfterRename(p)) /\ AfterRename(p) \in Unlinks
    BY <1>w DEF Renamed, InPlace, NewVersion
<1>2. /\ op[p].task = 0 => CopiesIn(files, i) = {}
      /\ op[p].task # 0 => CopiesIn(files, i) # {} /\ \A e \in CopiesIn(files, i) : files[i][e].task = op[p].task
    BY <1>s, <1>w DEF Working
<1>3. \A e \in CopiesIn(files, i) : files[i][e].task = c.task
    BY <1>1, <1>2
<1>4. /\ Unmixed(G) /\ OneTask(G)
      /\ \A M : AllThere(files, M) => AllThere(G, M \cup {c.task})
      /\ LoadedIn(G, i) = c /\ Newest(G, i, d)
      /\ \A j \in Ids : j # i => LoadedIn(G, j) = LoadedIn(files, j)
    BY <1>s, <1>1, <1>3, RenameKeeps, RenamePuts
<1> HIDE DEF G
<1>5. op'[p] = AfterRename(p) /\ \A q \in Procs \ {p} : op'[q] = op[q]
    BY <1>s, <1>1, OnlyOne
<1>6. Working(G, op'[p])
  <2>1. /\ op'[p].step \in {"index", "unlink"} /\ op'[p].id = i /\ op'[p].to = d
        /\ op'[p].others = Copies(i) \ {d}
      BY <1>5, <1>w DEF AfterRename
  <2>2. QED BY <1>4, <2>1 DEF Working
<1>7. \A q \in Procs : Working(G, op'[q])
    BY <1>5, <1>6, OthersIdle
<1>8. DurableInv'
    BY <1>s, <1>1, <1>4, <1>7 DEF DurableInv
<1>9. \A j \in Ids : Loaded(j) = LoadedIn(files, j) /\ Loaded(j)' = LoadedIn(G, j)
    BY <1>1, CopiesOf
<1>10. \A j \in Ids : Loaded(j) # NoCopy => Loaded(j) \in Versions(stamp)
  <2>1. ASSUME NEW j \in Ids, Loaded(j) # NoCopy
        PROVE  Loaded(j) \in Versions(stamp)
    <3>1. \E e \in Dirs : Newest(files, j, e) /\ LoadedIn(files, j) = files[j][e]
        BY <1>s, <1>9, <2>1, LoadedIsNewest
    <3>2. QED BY <1>s, <1>9, <3>1, CopyTypes DEF Newest
  <2>2. QED BY <2>1
<1>11. \A j \in Ids : Loaded(j) # NoCopy => Loaded(j).stamp <= stamp /\ Loaded(j).task <= stamp
                                         /\ Loaded(j).stamp \in Nat /\ Loaded(j).task \in Nat
    BY <1>10 DEF Versions
<1>12. Loaded(i)' = c /\ \A j \in Ids : j # i => Loaded(j)' = Loaded(j)
    BY <1>4, <1>9, <1>1
<1>13. c # NoCopy
    BY <1>s, <1>1, NoCopyIsNoVersion
<1>14. \A j \in Ids : Loaded(j) # NoCopy => c.stamp > Loaded(j).stamp
    BY <1>s, <1>1, <1>11
<1>15. IF Loaded(i) = NoCopy
         THEN \A j \in Ids \ {i} : Loaded(j) # NoCopy => Loaded(j).task # c.task
         ELSE Loaded(i).task = c.task
  <2>1. CASE Loaded(i) = NoCopy
    <3>1. CopiesIn(files, i) = {}
        BY <1>s, <1>1, <1>9, <2>1, LoadedIsNewest
    <3>2. c.task = stamp + 1
        BY <1>1, <1>2, <3>1
    <3>3. QED BY <1>s, <1>11, <2>1, <3>2
  <2>2. CASE Loaded(i) # NoCopy
    <3>1. \E e \in Dirs : Newest(files, i, e) /\ LoadedIn(files, i) = files[i][e]
        BY <1>s, <1>1, <1>9, <2>2, LoadedIsNewest
    <3>2. QED BY <1>1, <1>3, <1>9, <2>2, <3>1 DEF Newest
  <2>3. QED BY <2>1, <2>2
<1> DEFINE R == [j \in Ids |-> Loaded(j)]
<1>16. R' = [R EXCEPT ![i] = R'[i]] /\ R'[i] = c /\ \A j \in Ids : R[j] = Loaded(j)
    BY <1>1, <1>12
<1>17. Durable!Written(i)
  <2>1. Durable!Newer(i)
      BY <1>1, <1>12, <1>14 DEF Durable!Newer
  <2>2. QED BY <1>1, <1>12, <1>13, <1>15, <1>16, <2>1 DEF Durable!Written
<1>18. QED BY <1>8, <1>17, <1>w

\* The rename of a refused archive is the other step of the atomic store.
LEMMA WriteBackWrites ==
    ASSUME DurableInv, StoreShape', Solo, NEW p \in Procs, op[p].step = "rename", WroteBack(p)
    PROVE  DurableInv' /\ Durable!WrittenBack(op[p].id)
<1>v. op[p].id \in Ids
    BY DEF WroteBack, InPlace
<1>w. PICK i, d, c : i \in Ids /\ i = op[p].id /\ d = op[p].to /\ c = NewVersion(p)
    BY <1>v
<1> DEFINE G == Put(files, i, d, c)
<1>s. /\ StoreShape /\ stamp \in Nat /\ files \in Files(stamp) /\ Unmixed(files) /\ OneTask(files)
      /\ AllThere(files, made) /\ Working(files, op[p])
    BY DEF DurableInv, StoreShape
<1>2. CopiesIn(files, i) # {} /\ op[p].task # 0 /\ \A e \in CopiesIn(files, i) : files[i][e].task = op[p].task
    BY <1>s, <1>w DEF Working, WroteBack
<1>1. /\ d \in Dirs /\ c \in Versions(stamp + 1) /\ c.wrote = stamp + 1 /\ c.task = op[p].task
      /\ files' = G /\ made' = made \cup {c.task} /\ refused' = refused + 1 /\ Step(p, Idle)
    BY <1>w, <1>2 DEF WroteBack, InPlace, NewVersion
<1>3. \A e \in CopiesIn(files, i) : files[i][e].task = c.task
    BY <1>1, <1>2
<1>4. /\ Unmixed(G) /\ OneTask(G)
      /\ \A M : AllThere(files, M) => AllThere(G, M \cup {c.task})
      /\ LoadedIn(G, i) # NoCopy /\ LoadedIn(G, i).task = c.task
      /\ \A j \in Ids : j # i => LoadedIn(G, j) = LoadedIn(files, j)
    BY <1>s, <1>1, <1>3, <1>w, RenameKeeps
<1> HIDE DEF G
<1>5. op'[p] = Idle /\ \A q \in Procs \ {p} : op'[q] = op[q]
    BY <1>s, <1>1, OnlyOne
<1>6. Working(G, op'[p])
    BY <1>5, NothingAtStake DEF Idle
<1>7. \A q \in Procs : Working(G, op'[q])
    BY <1>5, <1>6, OthersIdle
<1>8. DurableInv'
    BY <1>s, <1>1, <1>4, <1>7 DEF DurableInv
<1>9. \A j \in Ids : Loaded(j) = LoadedIn(files, j) /\ Loaded(j)' = LoadedIn(G, j)
    BY <1>1, CopiesOf
<1>10. Loaded(i) # NoCopy /\ Loaded(i).task = op[p].task
  <2>1. \E e \in Dirs : Newest(files, i, e) /\ LoadedIn(files, i) = files[i][e]
      BY <1>s, <1>w, <1>2, LoadedIsNewest
  <2>2. QED BY <1>2, <1>9, <1>w, <2>1 DEF Newest, CopiesIn
<1>11. Loaded(i)' # NoCopy /\ Loaded(i)'.task = Loaded(i).task /\ \A j \in Ids : j # i => Loaded(j)' = Loaded(j)
    BY <1>1, <1>4, <1>9, <1>10, <1>w
<1> DEFINE R == [j \in Ids |-> Loaded(j)]
<1>12. R' = [R EXCEPT ![i] = R'[i]] /\ R'[i] = Loaded(i)' /\ \A j \in Ids : R[j] = Loaded(j)
    BY <1>w, <1>11
<1>13. Durable!WrittenBack(i)
    BY <1>1, <1>10, <1>11, <1>12, <1>w DEF Durable!WrittenBack
<1>14. QED BY <1>8, <1>13, <1>w

\* Unlinking and pruning take superseded copies away.
LEMMA DurableShrinks ==
    ASSUME DurableInv, StoreShape', Solo, NEW p \in Procs, op[p].step # "none", NEW i \in Ids, NEW R,
           Without(files, files', i, R), stamp' = stamp, made' = made, refused' = refused,
           CopiesIn(files, i) # {} => \E d \in Dirs : Newest(files, i, d) /\ d \notin R,
           Working(files', op'[p]), \A q \in Procs \ {p} : op'[q] = op[q]
    PROVE  DurableInv' /\ refused' = refused /\ \A j \in Ids : Loaded(j)' = Loaded(j)
<1>1. stamp \in Nat /\ files \in Files(stamp) /\ files' \in Files(stamp) /\ Unmixed(files) /\ OneTask(files)
      /\ AllThere(files, made)
    BY DEF DurableInv, StoreShape
<1>2. /\ Unmixed(files') /\ OneTask(files')
      /\ \A M : AllThere(files, M) => AllThere(files', M)
      /\ \A j \in Ids : LoadedIn(files', j) = LoadedIn(files, j)
    BY <1>1, RemovalKeeps
<1>3. \A q \in Procs : Working(files', op'[q])
    BY OthersIdle
<1>4. \A j \in Ids : Loaded(j)' = Loaded(j)
    BY <1>2, CopiesOf
<1>5. QED BY <1>1, <1>2, <1>3, <1>4 DEF DurableInv

LEMMA UnlinkDurable ==
    ASSUME DurableInv, StoreShape', Solo, NEW p \in Procs, Unlink(p)
    PROVE  DurableInv' /\ refused' = refused /\ \A j \in Ids : Loaded(j)' = Loaded(j)
<1>s. StoreShape /\ stamp \in Nat /\ files \in Files(stamp) /\ Working(files, op[p]) /\ Unmixed(files) /\ OneTask(files)
    BY DEF DurableInv, StoreShape
<1>1. /\ op[p] \in Unlinks /\ op[p].id \in Ids /\ op[p].to \in Dirs /\ op[p].step = "unlink"
      /\ stamp' = stamp /\ made' = made /\ refused' = refused
    BY <1>s, UnlinkSplits DEF Unlink
<1>2. op[p].to \notin op[p].others /\ Newest(files, op[p].id, op[p].to)
    BY <1>s, <1>1 DEF Working
<1>3. CASE UnlinksDone(p)
  <2>1. Step(p, [op[p] EXCEPT !.step = "index"]) /\ FilesAlone
      BY <1>1, <1>3 DEF UnlinksDone, FilesAlone
  <2>2. [op[p] EXCEPT !.step = "index"].step = "index"
      BY <1>1 DEF Unlinks
  <2>3. Working(files, [op[p] EXCEPT !.step = "index"])
      BY <2>2, NothingAtStake
  <2>4. QED BY <1>s, <2>1, <2>3, OnlyOne, DurableMoves
<1>4. ASSUME NEW d \in Dirs, UnlinkRaises(p, d)
      PROVE  DurableInv' /\ refused' = refused /\ \A j \in Ids : Loaded(j)' = Loaded(j)
  <2>1. Step(p, Idle) /\ FilesAlone
      BY <1>1, <1>4 DEF UnlinkRaises, FilesAlone
  <2>2. Working(files, Idle)
      BY NothingAtStake DEF Idle
  <2>3. QED BY <1>s, <2>1, <2>2, OnlyOne, DurableMoves
<1>5. ASSUME NEW d \in Dirs, Unlinked(p, d)
      PROVE  DurableInv' /\ refused' = refused /\ \A j \in Ids : Loaded(j)' = Loaded(j)
  <2> DEFINE o == [op[p] EXCEPT !.others = @ \ {d}]
  <2>1. /\ d \in op[p].others /\ files' \in Files(stamp) /\ Without(files, files', op[p].id, {d})
        /\ Step(p, o)
      BY <1>5 DEF Unlinked
  <2>2. o.step = "unlink" /\ o.id = op[p].id /\ o.to = op[p].to /\ o.others = op[p].others \ {d}
      BY <1>1 DEF Unlinks
  <2> HIDE DEF o
  <2>3. op'[p] = o /\ \A q \in Procs \ {p} : op'[q] = op[q]
      BY <1>s, <2>1, OnlyOne
  <2>4. op[p].to \notin {d}
      BY <1>2, <2>1
  <2>5. Newest(files', op[p].id, op[p].to)
      BY <1>s, <1>1, <1>2, <2>1, <2>4, RemovalKeeps
  <2>6. Working(files', op'[p])
      BY <1>2, <2>2, <2>3, <2>5 DEF Working
  <2>7. op[p].step # "none"
      BY <1>1
  <2>8. QED BY <1>1, <1>2, <2>1, <2>3, <2>4, <2>6, <2>7, DurableShrinks
<1>6. QED BY <1>s, <1>3, <1>4, <1>5, UnlinkSplits

LEMMA PruneDurable ==
    ASSUME DurableInv, StoreShape', Solo, NEW p \in Procs, Prune(p)
    PROVE  DurableInv' /\ refused' = refused /\ \A j \in Ids : Loaded(j)' = Loaded(j)
<1>s. StoreShape /\ Working(files, op[p]) /\ op[p].step = "prune" /\ stamp' = stamp /\ made' = made
      /\ refused' = refused
    BY DEF DurableInv, Prune, At
<1>1. /\ op'[p] = [step |-> "look", ids |-> op[p].ids]
      /\ Without(files, files', op[p].id, op[p].others) /\ op[p].id \in Ids
    BY <1>s, PruneShape
<1>2. CopiesIn(files, op[p].id) # {} => \E d \in Dirs : Newest(files, op[p].id, d) /\ d \notin op[p].others
    BY <1>s DEF Working
<1>3. Working(files', op'[p])
    BY <1>1, NothingAtStake
<1>4. PICK o : Step(p, o)
    BY DEF Prune
<1>5. \A q \in Procs \ {p} : op'[q] = op[q]
    BY <1>s, <1>4, OnlyOne
<1>6. op[p].step # "none"
    BY <1>s
<1>7. QED BY <1>s, <1>1, <1>2, <1>3, <1>5, <1>6, DurableShrinks

\* A step of the atomic store.
StoreWrites == \E i \in Ids : Durable!Written(i) \/ Durable!WrittenBack(i)

\* A directory that one process at a time works on is an atomic store.
LEMMA DurableStep ==
    ASSUME DurableInv, Solo, [StoreNext]_storeVars,
           \A p \in Procs : BeginCreate(p) => Copies(Cardinality(Listed) + 1) = {}
    PROVE  DurableInv' /\ (StoreWrites \/ (refused' = refused /\ \A i \in Ids : Loaded(i)' = Loaded(i)))
<1>s. StoreShape /\ StoreShape'
    BY ShapeStep DEF DurableInv
<1>1. CASE UNCHANGED storeVars
  <2>1. files' = files /\ made' = made /\ op' = op /\ refused' = refused
      BY <1>1 DEF storeVars
  <2>2. \A i \in Ids : Loaded(i)' = Loaded(i)
      BY <2>1, CopiesOf
  <2>3. DurableInv'
      BY <1>s, <2>1 DEF DurableInv
  <2>4. QED BY <2>1, <2>2, <2>3
<1>2. ASSUME NEW p \in Procs, Rename(p)
      PROVE  DurableInv' /\ (StoreWrites \/ (refused' = refused /\ \A i \in Ids : Loaded(i)' = Loaded(i)))
  <2>1. CASE NotRenamed(p)
      BY <1>s, <2>1, DurableQuiet
  <2>2. op[p].step = "rename"
      BY <1>2 DEF Rename, At
  <2>3. CASE Renamed(p)
    <3>1. op[p].id \in Ids /\ DurableInv' /\ Durable!Written(op[p].id)
        BY <1>s, <2>2, <2>3, RenameWrites DEF Renamed, InPlace
    <3>2. QED BY <3>1 DEF StoreWrites
  <2>4. CASE WroteBack(p)
    <3>1. op[p].id \in Ids /\ DurableInv' /\ Durable!WrittenBack(op[p].id)
        BY <1>s, <2>2, <2>4, WriteBackWrites DEF WroteBack, InPlace
    <3>2. QED BY <3>1 DEF StoreWrites
  <2>5. QED BY <1>s, <1>2, <2>1, <2>3, <2>4, RenameSplits
<1>3. ASSUME NEW p \in Procs, Unlink(p) \/ Prune(p)
      PROVE  DurableInv' /\ refused' = refused /\ \A i \in Ids : Loaded(i)' = Loaded(i)
    BY <1>s, <1>3, UnlinkDurable, PruneDurable
<1>4. ASSUME NEW p \in Procs, LockStep(p)
      PROVE  DurableInv' /\ refused' = refused /\ \A i \in Ids : Loaded(i)' = Loaded(i)
  <2>1. files' = files /\ made' = made /\ op' = op /\ refused' = refused
      BY <1>4 DEF LockStep, FilesAlone
  <2>2. \A i \in Ids : Loaded(i)' = Loaded(i)
      BY <2>1, CopiesOf
  <2>3. DurableInv'
      BY <1>s, <2>1 DEF DurableInv
  <2>4. QED BY <2>1, <2>2, <2>3
<1>5. ASSUME NEW p \in Procs,
             \/ BeginMove(p) \/ BeginRefused(p) \/ BeginCreate(p)
             \/ WriteTemporary(p) \/ UpdateIndex(p) \/ SaveIndex(p)
             \/ Construct(p) \/ Recover(p) \/ SweepTemporaries(p) \/ LookForDuplicates(p) \/ Choose(p)
             \/ ScanDirectory(p) \/ RebuildIndex(p) \/ Die(p)
      PROVE  DurableInv' /\ refused' = refused /\ \A i \in Ids : Loaded(i)' = Loaded(i)
    BY <1>s, <1>5, DurableQuiet
<1>6. QED BY <1>1, <1>2, <1>3, <1>4, <1>5 DEF StoreNext

\* To begin with every task has one version, the one that created it.
LEMMA DurableInitial == StoreInit => DurableInv /\ Durable!DurableInit /\ made = 1 .. Preloaded
<1> SUFFICES ASSUME StoreInit PROVE DurableInv /\ Durable!DurableInit /\ made = 1 .. Preloaded
    OBVIOUS
<1>s. StoreShape /\ stamp \in Nat /\ files \in Files(stamp) /\ made = 1 .. Preloaded
    BY ShapeInitial DEF StoreInit, StoreShape
<1>1. \A i \in Ids : /\ CopiesIn(files, i) = (IF i <= Preloaded THEN {DirOrder[1]} ELSE {})
                     /\ \A d \in CopiesIn(files, i) : files[i][d] = First(i)
  <2>1. ASSUME NEW i \in Ids, NEW d \in Dirs
        PROVE  /\ files[i][d] = (IF i <= Preloaded /\ d = DirOrder[1] THEN First(i) ELSE NoCopy)
               /\ First(i) # NoCopy
    <3> QED BY FirstFiles, FirstIsVersion
  <2>2. ASSUME NEW i \in Ids, i <= Preloaded
        PROVE  CopiesIn(files, i) = {DirOrder[1]}
      BY <2>1, <2>2, FirstDirectory DEF CopiesIn
  <2>3. ASSUME NEW i \in Ids, ~(i <= Preloaded)
        PROVE  CopiesIn(files, i) = {}
      BY <2>1, <2>3 DEF CopiesIn
  <2>4. ASSUME NEW i \in Ids, NEW d \in CopiesIn(files, i)
        PROVE  files[i][d] = First(i)
    <3>1. d \in Dirs /\ files[i][d] # NoCopy
        BY <2>4 DEF CopiesIn
    <3>2. QED BY <2>1, <3>1
  <2>5. ASSUME NEW i \in Ids
        PROVE  CopiesIn(files, i) = (IF i <= Preloaded THEN {DirOrder[1]} ELSE {})
    <3>1. CASE i <= Preloaded
        BY <2>2, <3>1
    <3>2. CASE ~(i <= Preloaded)
        BY <2>3, <3>2
    <3>3. QED BY <3>1, <3>2
  <2>6. QED BY <2>4, <2>5
<1>2. Unmixed(files) /\ OneTask(files)
  <2>1. ASSUME NEW i \in Ids, NEW d \in CopiesIn(files, i)
        PROVE  d = DirOrder[1] /\ files[i][d].task = i /\ files[i][d].wrote = i
    <3>1. d = DirOrder[1]
        BY <1>1, <2>1
    <3>2. files[i][d] = First(i)
        BY <1>1, <2>1
    <3>3. QED BY <3>1, <3>2, FirstIsVersion
  <2>2. Unmixed(files)
      BY <2>1 DEF Unmixed
  <2>3. OneTask(files)
      BY <2>1 DEF OneTask
  <2>4. QED BY <2>2, <2>3
<1>3. AllThere(files, made)
  <2>1. ASSUME NEW k \in made
        PROVE  \E i \in Ids : \E d \in CopiesIn(files, i) : files[i][d].task = k
    <3>1. k \in Ids /\ k <= Preloaded
        BY <1>s, <2>1, StoreAssumption
    <3>2. CopiesIn(files, k) = {DirOrder[1]}
        BY <1>1, <3>1
    <3>3. files[k][DirOrder[1]] = First(k)
        BY <1>1, <3>1, <3>2
    <3>4. DirOrder[1] \in CopiesIn(files, k) /\ files[k][DirOrder[1]].task = k
        BY <3>1, <3>2, <3>3, FirstIsVersion
    <3>5. QED BY <3>1, <3>4
  <2>2. QED BY <2>1 DEF AllThere
<1>4. \A p \in Procs : Working(files, op[p])
  <2>1. \A p \in Procs : op[p] = Idle
      BY DEF StoreInit
  <2>2. QED BY <2>1, NothingAtStake DEF Idle
<1>5. ASSUME NEW i \in Ids
      PROVE  Loaded(i) = NoCopy \/ Loaded(i).task = Loaded(i).stamp
  <2>1. CASE CopiesIn(files, i) = {}
      BY <2>1, CopiesOf DEF LoadedIn
  <2>2. CASE CopiesIn(files, i) # {}
    <3>1. PICK d \in CopiesIn(files, i) : Loaded(i) = files[i][d]
        BY <1>s, <1>2, <2>2, LoadedIsNewest, CopiesOf DEF Newest
    <3>2. Loaded(i) = First(i)
        BY <1>1, <3>1
    <3>3. QED BY <3>2, FirstIsVersion
  <2>3. QED BY <2>1, <2>2
<1>6. Durable!DurableInit
    BY <1>5 DEF Durable!DurableInit, StoreInit
<1>7. QED BY <1>s, <1>2, <1>3, <1>4, <1>6 DEF DurableInv

\* A task that is there is what load_task returns.
LEMMA NothingLost == DurableInv => TaskNeverDisappears
<1> SUFFICES ASSUME DurableInv, NEW k \in made PROVE \E i \in Ids : Loaded(i).task = k
    BY DEF TaskNeverDisappears
<1>1. PICK i \in Ids : \E d \in CopiesIn(files, i) : files[i][d].task = k
    BY DEF DurableInv, AllThere
<1>2. \E d \in CopiesIn(files, i) : Loaded(i) = files[i][d]
    BY <1>1, LoadedIsNewest, CopiesOf DEF DurableInv, StoreShape, Newest
<1>3. QED BY <1>1, <1>2 DEF DurableInv, OneTask

\* One step of the atomic store, or none.
LEMMA StoreStutters ==
    ASSUME StoreWrites \/ (refused' = refused /\ \A i \in Ids : Loaded(i)' = Loaded(i))
    PROVE  [StoreWrites]_<<[i \in Ids |-> Loaded(i)], refused>>
<1>1. ASSUME \A i \in Ids : Loaded(i)' = Loaded(i)
      PROVE  [i \in Ids |-> Loaded(i)]' = [i \in Ids |-> Loaded(i)]
    BY <1>1
<1>2. QED BY <1>1

-----------------------------------------------------------------------------
(* Processes that are all there from the start and call no constructor, where the lock's    *)
(* descriptor protects the lock file: they may die anywhere, and renames and unlinks may be *)
(* refused.                                                                                  *)

\* Nobody starts, so nobody runs recovery, and every operation is inside the with block.
Places == \A p \in Procs : at[p] # "new" /\ (op[p].step # "none" => at[p] = "held")

SurvivorInv ==
    /\ DurableInv
    /\ OwnersFile
    /\ Places
    /\ 1 .. Preloaded \subseteq made

\* Whoever works, works alone.
LEMMA WorksAlone ==
    ASSUME OwnersFile, Places, NEW p \in Procs, op[p].step # "none" \/ at[p] = "held"
    PROVE  \A q \in Procs \ {p} : op[q].step = "none" /\ at[q] # "held"
BY OwnersExclude DEF Places, MutualExclusion

LEMMA SurvivorsAlone ==
    ASSUME SurvivorInv
    PROVE  Solo
BY WorksAlone DEF SurvivorInv, Solo

LEMMA NoneCreated ==
    ASSUME SurvivorInv, MaxTasks <= Preloaded
    PROVE  \A p \in Procs : ~BeginCreate(p)
<1>1. made \subseteq 1 .. stamp /\ stamp \in Nat
    BY DEF SurvivorInv, DurableInv, StoreShape
<1>2. IsFiniteSet(1 .. stamp)
    BY <1>1, FS_Interval
<1>3. IsFiniteSet(made)
    BY <1>1, <1>2, FS_Subset
<1>4. Cardinality(1 .. Preloaded) <= Cardinality(made)
    BY <1>3, FS_Subset DEF SurvivorInv
<1>5. Cardinality(1 .. Preloaded) = Preloaded
    BY FS_Interval, StoreAssumption
<1>6. Cardinality(made) \in Nat
    BY <1>3, FS_CardinalityType
<1>7. ~(Cardinality(made) < MaxTasks)
    BY <1>4, <1>5, <1>6, StoreAssumption
<1>8. QED BY <1>7 DEF BeginCreate

LEMMA SurvivorPlaces ==
    ASSUME StoreShape, Places, [StoreNext]_storeVars, Daemons = {}
    PROVE  Places'
<1> SUFFICES \A p \in Procs : at'[p] # "new" /\ (op'[p].step # "none" => at'[p] = "held")
    BY DEF Places
<1>s. StoreShape /\ LockTypeOK /\ \A p \in Procs : at[p] # "new" /\ (op[p].step # "none" => at[p] = "held")
    BY DEF StoreShape, Places
<1>1. CASE UNCHANGED storeVars
    BY <1>s, <1>1 DEF storeVars
<1>2. ASSUME NEW p \in Procs, LockStep(p)
      PROVE  \A q \in Procs : at'[q] # "new" /\ (op'[q].step # "none" => at'[q] = "held")
  <2>1. op' = op /\ op[p].step = "none"
      BY <1>2 DEF LockStep
  <2>2. \E place \in {"try", "opened", "check", "held", "remove", "out", "closed"} : at' = [at EXCEPT ![p] = place]
      BY <1>2 DEF LockStep, Enter, CreateExclusive, WritePid, CheckOwner, RemoveStale, CloseLock, UnlinkLock, Go
  <2>3. QED BY <1>s, <2>1, <2>2 DEF LockTypeOK
<1>3. ASSUME NEW p \in Procs, Die(p)
      PROVE  \A q \in Procs : at'[q] # "new" /\ (op'[q].step # "none" => at'[q] = "held")
  <2>1. at' = [at EXCEPT ![p] = "dead"] /\ Step(p, Idle)
      BY <1>3 DEF Die, Crash, Go
  <2>2. op'[p] = Idle /\ \A q \in Procs \ {p} : op'[q] = op[q]
      BY <1>s, <2>1, OnlyOne
  <2>3. QED BY <1>s, <2>1, <2>2 DEF LockTypeOK, Idle
<1>4. ASSUME NEW p \in Procs,
             \/ BeginMove(p) \/ BeginRefused(p) \/ BeginCreate(p)
             \/ WriteTemporary(p) \/ Rename(p) \/ Unlink(p) \/ UpdateIndex(p) \/ SaveIndex(p)
             \/ SweepTemporaries(p) \/ LookForDuplicates(p) \/ Choose(p) \/ Prune(p)
             \/ ScanDirectory(p) \/ RebuildIndex(p)
      PROVE  \A q \in Procs : at'[q] # "new" /\ (op'[q].step # "none" => at'[q] = "held")
  <2>1. at' = at /\ (at[p] = "held" \/ op[p].step # "none") /\ \E o : Step(p, o)
    <3>1. LockAlone
        BY <1>4 DEF BeginMove, BeginRefused, BeginCreate, WriteTemporary, Rename, Unlink, UpdateIndex, SaveIndex,
                    SweepTemporaries, LookForDuplicates, Choose, Prune, ScanDirectory, RebuildIndex
    <3>2. at[p] = "held" \/ op[p].step # "none"
        BY <1>4 DEF BeginMove, BeginRefused, BeginCreate, WriteTemporary, Rename, Unlink, UpdateIndex, SaveIndex,
                    SweepTemporaries, LookForDuplicates, Choose, Prune, ScanDirectory, RebuildIndex, At
    <3>3. \E o : Step(p, o)
        BY <1>4 DEF BeginMove, BeginRefused, BeginCreate, WriteTemporary, Rename, Unlink, UpdateIndex, SaveIndex,
                    SweepTemporaries, LookForDuplicates, Choose, Prune, ScanDirectory, RebuildIndex
    <3>4. QED BY <3>1, <3>2, <3>3 DEF LockAlone, lockVars
  <2>2. PICK o : Step(p, o)
      BY <2>1
  <2>3. \A q \in Procs \ {p} : op'[q] = op[q]
      BY <1>s, <2>2, OnlyOne
  <2>4. QED BY <1>s, <2>1, <2>3
<1>5. ASSUME NEW p \in Procs, Construct(p) \/ Recover(p)
      PROVE  FALSE
    BY <1>s, <1>5 DEF Construct, Boot, Recover
<1>6. QED BY <1>1, <1>2, <1>3, <1>4, <1>5 DEF StoreNext

LEMMA MadeGrows == [StoreNext]_storeVars => made \subseteq made'
<1> SUFFICES ASSUME [StoreNext]_storeVars PROVE made \subseteq made'
    OBVIOUS
<1>1. CASE UNCHANGED storeVars
    BY <1>1 DEF storeVars
<1>2. ASSUME NEW p \in Procs, Rename(p)
      PROVE  made \subseteq made'
    BY <1>2 DEF Rename, FilesAlone
<1>3. ASSUME NEW p \in Procs,
             \/ BeginMove(p) \/ BeginRefused(p) \/ BeginCreate(p)
             \/ WriteTemporary(p) \/ Unlink(p) \/ UpdateIndex(p) \/ SaveIndex(p)
             \/ Construct(p) \/ Recover(p)
             \/ SweepTemporaries(p) \/ LookForDuplicates(p) \/ Choose(p) \/ Prune(p)
             \/ ScanDirectory(p) \/ RebuildIndex(p) \/ LockStep(p) \/ Die(p)
      PROVE  made' = made
    BY <1>3 DEF BeginMove, BeginRefused, BeginCreate, WriteTemporary, Unlink, UpdateIndex, SaveIndex, Construct, Recover,
                SweepTemporaries, LookForDuplicates, Choose, Prune, ScanDirectory, RebuildIndex, LockStep, Die,
                FilesAlone
<1>4. QED BY <1>1, <1>2, <1>3 DEF StoreNext

LEMMA SurvivorStep ==
    ASSUME PinsOpenFiles, Daemons = {}, MaxTasks <= Preloaded, SurvivorInv, [StoreNext]_storeVars
    PROVE  /\ SurvivorInv'
           /\ [StoreWrites]_<<[i \in Ids |-> Loaded(i)], refused>>
<1>1. DurableInv' /\ (StoreWrites \/ (refused' = refused /\ \A i \in Ids : Loaded(i)' = Loaded(i)))
    BY SurvivorsAlone, NoneCreated, DurableStep DEF SurvivorInv
<1>2. OwnersFile'
    BY LockSteps, OwnersFileKept DEF SurvivorInv, DurableInv, StoreShape
<1>3. 1 .. Preloaded \subseteq made'
    BY MadeGrows DEF SurvivorInv
<1>4. Places'
    BY SurvivorPlaces DEF SurvivorInv, DurableInv
<1>5. QED BY <1>1, <1>2, <1>3, <1>4, StoreStutters DEF SurvivorInv

LEMMA SurvivorInitial == ASSUME Running = Procs PROVE StoreInit => SurvivorInv /\ Durable!DurableInit
<1> SUFFICES ASSUME StoreInit PROVE SurvivorInv /\ Durable!DurableInit
    OBVIOUS
<1>1. OwnersFile /\ \A p \in Procs : at[p] = "out" /\ op[p] = Idle
    BY OwnersFileInitial DEF StoreInit, LockInit
<1>2. Places
    BY <1>1 DEF Places, Idle
<1>3. QED BY <1>1, <1>2, DurableInitial DEF SurvivorInv, Idle

\* What an operation has read and written so far: nobody else touches it, and nobody deletes
\* the temporary file under it.
Undisturbed(p) == UNCHANGED <<files, index, stamp, made, refused>> /\ tmp'[p] = tmp[p]

LEMMA OwnStepShows ==
    ASSUME StoreShape, NEW p \in Procs,
           \/ WriteTemporary(p) \/ Rename(p) \/ Unlink(p) \/ UpdateIndex(p) \/ SaveIndex(p)
           \/ SweepTemporaries(p) \/ Prune(p) \/ RebuildIndex(p)
    PROVE  op'[p] # op[p]
<1>1. CASE WriteTemporary(p)
  <2>1. op[p] \in Writes(stamp) /\ op[p].step = "write" /\ op'[p] = [op[p] EXCEPT !.step = "rename"]
      BY <1>1, OpOf, OnlyOne DEF WriteTemporary, At, StoreShape
  <2>2. [op[p] EXCEPT !.step = "rename"].step = "rename"
      BY <2>1 DEF Writes
  <2>3. QED BY <2>1, <2>2
<1>2. CASE Rename(p)
  <2>1. op[p].step = "rename" /\ (Renamed(p) \/ WroteBack(p) \/ NotRenamed(p))
      BY <1>2, RenameSplits DEF Rename, At
  <2>2. op'[p] = AfterRename(p) \/ op'[p] = Idle
      BY <2>1, OnlyOne DEF Renamed, WroteBack, NotRenamed
  <2>3. AfterRename(p).step \in {"index", "unlink"} /\ Idle.step = "none"
      BY DEF AfterRename, Idle
  <2>4. QED BY <2>1, <2>2, <2>3
<1>3. CASE Unlink(p)
  <2>1. /\ op[p] \in Unlinks /\ op[p].step = "unlink"
        /\ UnlinksDone(p) \/ \E d \in Dirs : Unlinked(p, d) \/ UnlinkRaises(p, d)
      BY <1>3, UnlinkSplits
  <2>2. /\ [op[p] EXCEPT !.step = "index"].step = "index" /\ Idle.step = "none"
        /\ \A d : [op[p] EXCEPT !.others = @ \ {d}].others = op[p].others \ {d}
      BY <2>1 DEF Unlinks, Idle
  <2>3. CASE UnlinksDone(p)
      BY <2>1, <2>2, <2>3, OnlyOne DEF UnlinksDone
  <2>4. ASSUME NEW d \in Dirs, Unlinked(p, d) \/ UnlinkRaises(p, d)
        PROVE  op'[p] # op[p]
    <3>1. CASE Unlinked(p, d)
      <4>1. d \in op[p].others /\ op'[p] = [op[p] EXCEPT !.others = @ \ {d}]
          BY <3>1, OnlyOne DEF Unlinked
      <4>2. op'[p].others = op[p].others \ {d}
          BY <2>2, <4>1
      <4>3. QED BY <4>1, <4>2
    <3>2. CASE UnlinkRaises(p, d)
        BY <2>1, <2>2, <3>2, OnlyOne DEF UnlinkRaises
    <3>3. QED BY <2>4, <3>1, <3>2
  <2>5. QED BY <2>1, <2>3, <2>4
<1>4. CASE UpdateIndex(p) \/ RebuildIndex(p)
  <2>1. PICK x : Step(p, [step |-> "save", idx |-> x])
      BY <1>4 DEF UpdateIndex, RebuildIndex
  <2>2. op'[p].step = "save" /\ op[p].step # "save"
      BY <1>4, <2>1, OnlyOne DEF UpdateIndex, RebuildIndex, At
  <2>3. QED BY <2>2
<1>5. CASE SaveIndex(p)
  <2>1. op'[p] = Idle /\ op[p].step = "save"
      BY <1>5, OnlyOne DEF SaveIndex, At
  <2>2. QED BY <2>1 DEF Idle
<1>6. CASE SweepTemporaries(p) \/ Prune(p)
  <2>1. PICK S : Step(p, [step |-> "look", ids |-> S])
      BY <1>6 DEF SweepTemporaries, Prune
  <2>2. op'[p].step = "look" /\ op[p].step # "look"
      BY <1>6, <2>1, OnlyOne DEF SweepTemporaries, Prune, At
  <2>3. QED BY <2>2
<1>7. QED BY <1>1, <1>2, <1>3, <1>4, <1>5, <1>6

IsolationInv == StoreShape /\ OwnersFile /\ Places

LEMMA IsolationStep ==
    ASSUME PinsOpenFiles, Daemons = {}, IsolationInv, [StoreNext]_storeVars
    PROVE  /\ IsolationInv'
           /\ \A p \in Procs : op[p].step # "none" /\ op'[p] = op[p] => Undisturbed(p)
<1>1. IsolationInv'
  <2>1. StoreShape' /\ Places'
      BY ShapeStep, SurvivorPlaces DEF IsolationInv
  <2>2. OwnersFile'
      BY LockSteps, OwnersFileKept DEF IsolationInv, StoreShape
  <2>3. QED BY <2>1, <2>2 DEF IsolationInv
<1>2. ASSUME NEW p \in Procs, op[p].step # "none", op'[p] = op[p]
      PROVE  Undisturbed(p)
  <2>1. StoreShape /\ \A q \in Procs \ {p} : op[q].step = "none" /\ at[q] # "held"
      BY <1>2, WorksAlone DEF IsolationInv
  <2>2. \A q \in Procs : at[q] # "new"
      BY DEF IsolationInv, Places
  <2>3. CASE UNCHANGED storeVars
      BY <2>3 DEF storeVars, Undisturbed
  <2>4. ASSUME NEW q \in Procs,
               \/ BeginMove(q) \/ BeginRefused(q) \/ BeginCreate(q)
               \/ WriteTemporary(q) \/ Rename(q) \/ Unlink(q) \/ UpdateIndex(q) \/ SaveIndex(q)
               \/ SweepTemporaries(q) \/ LookForDuplicates(q) \/ Choose(q) \/ Prune(q)
               \/ ScanDirectory(q) \/ RebuildIndex(q)
        PROVE  Undisturbed(p)
    <3>1. op[q].step # "none" \/ at[q] = "held"
        BY <2>4 DEF BeginMove, BeginRefused, BeginCreate, WriteTemporary, Rename, Unlink, UpdateIndex, SaveIndex,
                    SweepTemporaries, LookForDuplicates, Choose, Prune, ScanDirectory, RebuildIndex, At
    <3>2. q = p
        BY <2>1, <3>1
    <3>3. LookForDuplicates(p) \/ Choose(p) \/ ScanDirectory(p)
        BY <1>2, <2>1, <2>4, <3>2, OwnStepShows DEF BeginMove, BeginRefused, BeginCreate
    <3>4. QED BY <3>3 DEF LookForDuplicates, Choose, ScanDirectory, FilesAlone, Undisturbed
  <2>5. ASSUME NEW q \in Procs, LockStep(q) \/ Construct(q) \/ Recover(q)
        PROVE  Undisturbed(p)
      BY <2>2, <2>5 DEF LockStep, Construct, Boot, Recover, FilesAlone, Undisturbed
  <2>6. ASSUME NEW q \in Procs, Die(q)
        PROVE  Undisturbed(p)
    <3>1. op'[q] = Idle
        BY <2>1, <2>6, OnlyOne DEF Die
    <3>2. q # p
        BY <1>2, <3>1 DEF Idle
    <3>3. tmp'[p] = tmp[p]
        BY <2>1, <2>6, <3>2 DEF Die, StoreShape
    <3>4. QED BY <2>6, <3>3 DEF Die, FilesAlone, Undisturbed
  <2>7. QED BY <2>3, <2>4, <2>5, <2>6 DEF StoreNext
<1>3. QED BY <1>1, <1>2

\* Where the lock file is pinned and no process runs recovery, an operation of the pool is
\* isolated: between any two of its steps nobody changes a file, the index or its temporary
\* file, whoever dies, waits or takes over a lock meanwhile.  It is why one atomic step may
\* stand for it in TaskPool.
THEOREM OperationsAreIsolated ==
    ASSUME PinsOpenFiles, Running = Procs, Daemons = {}
    PROVE  StoreSpec => [][\A p \in Procs : op[p].step # "none" /\ op'[p] = op[p] => Undisturbed(p)]_storeVars
<1>1. StoreInit => IsolationInv
  <2> SUFFICES ASSUME StoreInit PROVE IsolationInv
      OBVIOUS
  <2>1. OwnersFile /\ \A p \in Procs : at[p] = "out" /\ op[p].step = "none"
      BY OwnersFileInitial DEF StoreInit, LockInit, Idle
  <2>2. QED BY <2>1, ShapeInitial DEF IsolationInv, Places
<1>2. IsolationInv /\ [StoreNext]_storeVars => IsolationInv'
    BY IsolationStep
<1>3. IsolationInv /\ [StoreNext]_storeVars =>
          [\A p \in Procs : op[p].step # "none" /\ op'[p] = op[p] => Undisturbed(p)]_storeVars
    BY IsolationStep
<1>4. QED BY <1>1, <1>2, <1>3, PTL DEF StoreSpec

\* While no process runs recovery, and where the lock file is pinned, the pool's directory is
\* an atomic store for any number of processes that move and rewrite its tasks, wherever they
\* die and whatever rename or unlink is refused: what a load returns changes in one step to a
\* newer version of the task, and by a refused archive, and by nothing else, possibly to an
\* older one.
THEOREM LockedStoreIsAtomic ==
    ASSUME PinsOpenFiles, Running = Procs, Daemons = {}, MaxTasks <= Preloaded
    PROVE  StoreSpec => ImplementsDurableStore
<1>1. SurvivorInv /\ [StoreNext]_storeVars => SurvivorInv'
    BY SurvivorStep
<1>2. SurvivorInv /\ [StoreNext]_storeVars => [StoreWrites]_<<[i \in Ids |-> Loaded(i)], refused>>
    BY SurvivorStep
<1>3. QED BY <1>1, <1>2, SurvivorInitial, PTL DEF StoreSpec, ImplementsDurableStore, Durable!DurableSpec, StoreWrites

\* ... and every task stays loadable.
THEOREM LockedStoreKeepsTasks ==
    ASSUME PinsOpenFiles, Running = Procs, Daemons = {}, MaxTasks <= Preloaded
    PROVE  StoreSpec => []TaskNeverDisappears
<1>1. SurvivorInv /\ [StoreNext]_storeVars => SurvivorInv'
    BY SurvivorStep
<1>2. SurvivorInv => TaskNeverDisappears
    BY NothingLost DEF SurvivorInv
<1>3. QED BY <1>1, <1>2, SurvivorInitial, PTL DEF StoreSpec

-----------------------------------------------------------------------------
(* Processes that live one after the other, each recovering the pool before it works on it: *)
(* they may die anywhere, create tasks, and run recovery again.                              *)

Lone ==
    /\ \A p, q \in Procs : Alive(p) /\ Alive(q) => p = q
    /\ \A p \in Procs : op[p].step # "none" => Alive(p)

\* Index x names a copy of task i, and the others are those a refused archive wrote beside it.
Named(F, x, i) ==
    /\ IF x[i] = NoDir THEN CopiesIn(F, i) = {} ELSE x[i] \in CopiesIn(F, i)
    /\ \A d \in CopiesIn(F, i) \ {x[i]} : Untouched(F[i][d])
Single(F, i) == \A d, e \in CopiesIn(F, i) : d = e

\* What the directories before the one a scan has come to say of task i is in the new index.
Scanned(F, o, i) ==
    /\ Single(F, i)
    /\ o.idx[i] # NoDir => o.idx[i] \in CopiesIn(F, i)
    /\ \A k \in 1 .. Len(DirOrder) : k < o.dir /\ DirOrder[k] \in CopiesIn(F, i) => o.idx[i] = DirOrder[k]

\* How far from order the files and the index may be in the middle of each operation.
Tidy(F, x, o) ==
    /\ o.step \in {"none", "write", "rename"} => \A i \in Ids : Named(F, x, i)
    /\ o.step \in {"unlink", "index"} =>
         /\ \A i \in Ids \ {o.id} : Named(F, x, i)
         /\ CopiesIn(F, o.id) = {o.to} \cup o.others
         /\ o.step = "index" => o.others = {}
    /\ o.step = "save" => \A i \in Ids : Named(F, o.idx, i)
    /\ o.step = "look" => \A i \in Ids \ o.ids : Single(F, i)
    /\ o.step = "choose" => (\A i \in Ids \ (o.ids \cup {o.id}) : Single(F, i)) /\ o.seen = CopiesIn(F, o.id)
    /\ o.step = "prune" =>
         /\ \A i \in Ids \ (o.ids \cup {o.id}) : Single(F, i)
         /\ \A d, e \in CopiesIn(F, o.id) \ o.others : d = e
    /\ o.step = "scan" => \A i \in Ids : Scanned(F, o, i)

TidyInv == \A p \in Procs : Alive(p) => Tidy(files, index, op[p])

\* The tasks are numbered from 1 without a gap, and a task that is being created gets the next
\* number.
Numbered(F, n) == n \in Nat /\ 1 .. n \subseteq Ids /\ \A i \in Ids : CopiesIn(F, i) # {} <=> i \in 1 .. n
NextNumber(F, o) == o.step \in {"write", "rename"} /\ o.task = 0 => Numbered(F, o.id - 1)
NumberedInv == (\E n \in Nat : Numbered(files, n)) /\ \A p \in Procs : NextNumber(files, op[p])

RestartInv == DurableInv /\ Lone /\ TidyInv /\ NumberedInv

LEMMA NamedAlone ==
    ASSUME NEW F, NEW x, NEW i, x[i] # NoDir, CopiesIn(F, i) = {x[i]}
    PROVE  Named(F, x, i)
BY DEF Named

LEMMA NamedKept ==
    ASSUME NEW F, NEW G, NEW x, NEW j, CopiesIn(G, j) = CopiesIn(F, j), \A e \in Dirs : G[j][e] = F[j][e], Named(F, x, j)
    PROVE  Named(G, x, j)
BY DEF Named, CopiesIn

LEMMA LoneIsSolo == Lone => Solo
BY DEF Lone, Solo

\* Where the processes and their operations are after a step of one of them.
LEMMA LoneStep ==
    ASSUME StoreShape, Lone, MaxAlive = 1, NEW p \in Procs,
           \/ BeginMove(p) \/ BeginRefused(p) \/ BeginCreate(p)
           \/ WriteTemporary(p) \/ Rename(p) \/ Unlink(p) \/ UpdateIndex(p) \/ SaveIndex(p)
           \/ Construct(p) \/ Recover(p)
           \/ SweepTemporaries(p) \/ LookForDuplicates(p) \/ Choose(p) \/ Prune(p)
           \/ ScanDirectory(p) \/ RebuildIndex(p) \/ LockStep(p) \/ Die(p)
    PROVE  /\ Lone'
           /\ \A q \in Procs \ {p} : ~Alive(q) /\ ~Alive(q)' /\ op'[q] = op[q]
           /\ Construct(p) \/ Alive(p)
<1>s. at \in [Procs -> Outside \cup Waiting \cup Owning \cup Gone \cup {"closed"}]
    BY DEF StoreShape, LockTypeOK
<1> DEFINE P == \A q \in Procs \ {p} : ~Alive(q) /\ ~Alive(q)' /\ op'[q] = op[q]
<1>1. CASE LockStep(p)
  <2>1. op' = op /\ op[p].step = "none"
      BY <1>1 DEF LockStep
  <2>2. /\ \E place \in {"try", "opened", "check", "held", "remove", "out", "closed"} : at' = [at EXCEPT ![p] = place]
        /\ at[p] \in {"out", "try", "opened", "check", "remove", "held", "closed"}
      BY <1>1 DEF LockStep, Enter, CreateExclusive, WritePid, CheckOwner, RemoveStale, CloseLock, UnlinkLock, Go
  <2>3. Alive(p) /\ Alive(p)' /\ \A q \in Procs \ {p} : at'[q] = at[q]
      BY <1>s, <2>2 DEF Alive, Gone
  <2>4. P
      BY <2>1, <2>3 DEF Lone, Alive
  <2>5. QED BY <2>1, <2>3, <2>4 DEF Lone
<1>2. CASE Die(p)
  <2>1. at' = [at EXCEPT ![p] = "dead"] /\ Step(p, Idle) /\ Alive(p)
      BY <1>2 DEF Die, Crash, Go
  <2>2. op'[p] = Idle /\ \A q \in Procs \ {p} : op'[q] = op[q]
      BY <2>1, OnlyOne
  <2>3. ~Alive(p)' /\ \A q \in Procs \ {p} : at'[q] = at[q]
      BY <1>s, <2>1 DEF Alive, Gone
  <2>4. P
      BY <2>1, <2>2, <2>3 DEF Lone, Alive
  <2>5. op'[p].step = "none"
      BY <2>2 DEF Idle
  <2>6. QED BY <2>1, <2>2, <2>3, <2>4, <2>5 DEF Lone
<1>3. CASE Construct(p)
  <2> DEFINE A == {q \in Procs : Alive(q)}
  <2>1. Cardinality(A) < 1 /\ at' = [at EXCEPT ![p] = "out"] /\ Step(p, [step |-> "sweep"])
      BY <1>3 DEF Construct, Boot, Go
  <2>2. \A q \in Procs : ~Alive(q)
    <3>1. ASSUME NEW q \in Procs, Alive(q)
          PROVE  FALSE
      <4>1. A = {q}
          BY <3>1 DEF Lone
      <4>2. Cardinality({q}) = 1
          BY FS_Singleton
      <4> HIDE DEF A
      <4>3. QED BY <2>1, <4>1, <4>2
    <3>2. QED BY <3>1
  <2>3. \A q \in Procs \ {p} : op'[q] = op[q]
      BY <2>1, OnlyOne
  <2>4. Alive(p)' /\ \A q \in Procs \ {p} : at'[q] = at[q]
      BY <1>s, <2>1 DEF Alive, Gone
  <2>5. P
      BY <2>2, <2>3, <2>4 DEF Alive
  <2>6. QED BY <1>3, <2>2, <2>3, <2>4, <2>5 DEF Lone
<1>4. CASE \/ BeginMove(p) \/ BeginRefused(p) \/ BeginCreate(p)
           \/ WriteTemporary(p) \/ Rename(p) \/ Unlink(p) \/ UpdateIndex(p) \/ SaveIndex(p) \/ Recover(p)
           \/ SweepTemporaries(p) \/ LookForDuplicates(p) \/ Choose(p) \/ Prune(p)
           \/ ScanDirectory(p) \/ RebuildIndex(p)
  <2>1. at' = at
    <3>1. LockAlone
        BY <1>4 DEF BeginMove, BeginRefused, BeginCreate, WriteTemporary, Rename, Unlink, UpdateIndex, SaveIndex, Recover,
                    SweepTemporaries, LookForDuplicates, Choose, Prune, ScanDirectory, RebuildIndex
    <3>2. QED BY <3>1 DEF LockAlone, lockVars
  <2>2. Alive(p)
      BY <1>4 DEF BeginMove, BeginRefused, BeginCreate, WriteTemporary, Rename, Unlink, UpdateIndex, SaveIndex, Recover,
                  SweepTemporaries, LookForDuplicates, Choose, Prune, ScanDirectory, RebuildIndex, At, Alive, Gone
  <2>3. \E o : Step(p, o)
      BY <1>4 DEF BeginMove, BeginRefused, BeginCreate, WriteTemporary, Rename, Unlink, UpdateIndex, SaveIndex, Recover,
                  SweepTemporaries, LookForDuplicates, Choose, Prune, ScanDirectory, RebuildIndex
  <2>4. PICK o : Step(p, o)
      BY <2>3
  <2>5. \A q \in Procs \ {p} : op'[q] = op[q]
      BY <2>4, OnlyOne
  <2>6. \A q \in Procs : Alive(q)' = Alive(q)
      BY <2>1 DEF Alive
  <2>7. P
      BY <2>2, <2>5, <2>6 DEF Lone
  <2>8. QED BY <2>2, <2>5, <2>6, <2>7 DEF Lone
<1>5. QED BY <1>1, <1>2, <1>3, <1>4

LEMMA DirsAreFinite == IsFiniteSet(Dirs)
<1> DEFINE n == Len(DirOrder)
           f == [k \in 1 .. n |-> DirOrder[k]]
<1>1. n \in Int /\ IsFiniteSet(1 .. n)
    BY StoreAssumption, FS_Interval
<1>2. f \in Surjection(1 .. n, Dirs)
    BY DEF Dirs, Surjection
<1> HIDE DEF n, f
<1>3. QED BY <1>1, <1>2, FS_Surjection

\* A task of which recovery counts at most one copy has one copy.
LEMMA OneCopy ==
    ASSUME NEW F, NEW i, Cardinality(CopiesIn(F, i)) <= 1
    PROVE  Single(F, i)
<1> SUFFICES ASSUME NEW d \in CopiesIn(F, i), NEW e \in CopiesIn(F, i), d # e PROVE FALSE
    BY DEF Single
<1>1. IsFiniteSet(CopiesIn(F, i))
  <2>1. CopiesIn(F, i) \in SUBSET Dirs
      BY DEF CopiesIn
  <2>2. QED BY <2>1, DirsAreFinite, FS_Subset
<1>2. IsFiniteSet({d}) /\ Cardinality({d}) = 1
    BY FS_Singleton
<1>3. Cardinality({d} \cup {e}) = 2
    BY <1>2, FS_AddElement
<1>4. {d} \cup {e} \in SUBSET CopiesIn(F, i)
    OBVIOUS
<1>5. Cardinality({d} \cup {e}) <= Cardinality(CopiesIn(F, i))
    BY <1>1, <1>4, FS_Subset
<1>6. Cardinality(CopiesIn(F, i)) \in Nat
    BY <1>1, FS_CardinalityType
<1>7. QED BY <1>3, <1>5, <1>6

LEMMA IndexCleared == \A i \in Ids : EmptyIndex[i] = NoDir
BY DEF EmptyIndex

\* The index _rebuild_index has read when it has been through all directories.
LEMMA ScanIsComplete ==
    ASSUME NEW F, NEW o \in Scans, NEW i \in Ids, Scanned(F, o, i), o.dir > Len(DirOrder)
    PROVE  Named(F, o.idx, i)
<1>1. o.dir \in Nat /\ Len(DirOrder) \in Nat
    BY StoreAssumption DEF Scans
<1>2. \A d \in CopiesIn(F, i) : o.idx[i] = d /\ d # NoDir
  <2>1. ASSUME NEW d \in CopiesIn(F, i)
        PROVE  o.idx[i] = d /\ d # NoDir
    <3>1. d \in Dirs
        BY DEF CopiesIn
    <3>2. PICK k \in 1 .. Len(DirOrder) : d = DirOrder[k]
        BY <3>1 DEF Dirs
    <3>3. k < o.dir
        BY <1>1
    <3>4. o.idx[i] = d
        BY <3>2, <3>3 DEF Scanned
    <3>5. QED BY <3>1, <3>4, NoDirIsNoStatus
  <2>2. QED BY <2>1
<1>3. CASE o.idx[i] = NoDir
    BY <1>2, <1>3 DEF Named
<1>4. CASE o.idx[i] # NoDir
  <2>1. CopiesIn(F, i) = {o.idx[i]}
      BY <1>2, <1>4 DEF Scanned
  <2>2. QED BY <1>4, <2>1, NamedAlone
<1>5. QED BY <1>3, <1>4

\* Operations that leave the files alone.
LEMMA TidyMoves ==
    ASSUME StoreShape, NEW p \in Procs, Tidy(files, index, op[p]),
           \/ (BeginMove(p) \/ BeginRefused(p) \/ BeginCreate(p)) /\ op[p].step = "none"
           \/ WriteTemporary(p) \/ (NotRenamed(p) /\ op[p].step = "rename" /\ index' = index)
           \/ UpdateIndex(p) \/ SaveIndex(p) \/ RebuildIndex(p)
    PROVE  Tidy(files, index', op'[p])
<1>1. CASE BeginMove(p) \/ BeginRefused(p) \/ BeginCreate(p)
  <2>1. PICK i, d, k, seen, status : Step(p, Write(i, d, k, seen, status))
      BY <1>1, BeginSplits DEF Rewrites, Creates
  <2>r. Write(i, d, k, seen, status).step = "write"
      BY DEF Write
  <2>o. PICK o : o = Write(i, d, k, seen, status) /\ o.step = "write"
      BY <2>r
  <2>2. op'[p] = o /\ index' = index
      BY <1>1, <2>1, <2>o, OnlyOne, BeginSplits
  <2>3. op[p].step = "none"
      BY <1>1, BeginSplits
  <2>4. QED BY <2>o, <2>2, <2>3 DEF Tidy
<1>2. CASE WriteTemporary(p)
  <2>1. op[p] \in Writes(stamp) /\ op[p].step = "write"
      BY <1>2, OpOf DEF WriteTemporary, At, StoreShape
  <2>2. op'[p] = [op[p] EXCEPT !.step = "rename"] /\ index' = index
      BY <1>2, OnlyOne DEF WriteTemporary
  <2>3. [op[p] EXCEPT !.step = "rename"].step = "rename"
      BY <2>1 DEF Writes
  <2>4. op'[p].step = "rename"
      BY <2>2, <2>3
  <2>5. QED BY <2>1, <2>2, <2>4 DEF Tidy
<1>3. CASE NotRenamed(p) /\ op[p].step = "rename" /\ index' = index
  <2>1. op'[p] = Idle
      BY <1>3, OnlyOne DEF NotRenamed
  <2>2. op'[p].step = "none"
      BY <2>1 DEF Idle
  <2>3. QED BY <1>3, <2>2 DEF Tidy
<1>4. CASE UpdateIndex(p)
  <2> DEFINE x == [index EXCEPT ![op[p].id] = op[p].to]
  <2>1. op[p].step = "index" /\ op[p] \in Unlinks
      BY <1>4, OpOf DEF UpdateIndex, At, StoreShape
  <2>2. op[p].id \in Ids /\ op[p].to \in Dirs
      BY <2>1 DEF Unlinks
  <2>3. op'[p] = [step |-> "save", idx |-> x]
      BY <1>4, OnlyOne DEF UpdateIndex
  <2>4. \A i \in Ids : x[i] = IF i = op[p].id THEN op[p].to ELSE index[i]
      BY <2>2 DEF StoreShape, Indexes
  <2>5. CopiesIn(files, op[p].id) = {op[p].to} /\ \A i \in Ids \ {op[p].id} : Named(files, index, i)
      BY <2>1 DEF Tidy
  <2> HIDE DEF x
  <2>6. ASSUME NEW i \in Ids
        PROVE  Named(files, x, i)
    <3>1. CASE i = op[p].id
      <4>1. x[i] = op[p].to /\ x[i] # NoDir
          BY <2>2, <2>4, <3>1, NoDirIsNoStatus
      <4>2. QED BY <2>5, <3>1, <4>1, NamedAlone
    <3>2. CASE i # op[p].id
        BY <2>4, <2>5, <3>2 DEF Named
    <3>3. QED BY <3>1, <3>2
  <2>7. op'[p].step = "save" /\ op'[p].idx = x
      BY <2>3
  <2>8. QED BY <2>6, <2>7 DEF Tidy
<1>5. CASE SaveIndex(p)
  <2>1. op[p].step = "save" /\ index' = op[p].idx /\ op'[p] = Idle
      BY <1>5, OnlyOne DEF SaveIndex, At
  <2>2. op'[p].step = "none"
      BY <2>1 DEF Idle
  <2>3. \A i \in Ids : Named(files, op[p].idx, i)
      BY <2>1 DEF Tidy
  <2>4. QED BY <2>1, <2>2, <2>3 DEF Tidy
<1>6. CASE RebuildIndex(p)
  <2>1. op[p].step = "scan" /\ op[p] \in Scans /\ op[p].dir > Len(DirOrder)
      BY <1>6, OpOf DEF RebuildIndex, At, StoreShape
  <2>2. op'[p] = [step |-> "save", idx |-> op[p].idx]
      BY <1>6, OnlyOne DEF RebuildIndex
  <2>3. \A i \in Ids : Named(files, op[p].idx, i)
      BY <2>1, ScanIsComplete DEF Tidy
  <2>4. PICK x : x = op[p].idx
      OBVIOUS
  <2>5. op'[p].step = "save" /\ op'[p].idx = x
      BY <2>2, <2>4
  <2>6. QED BY <2>3, <2>4, <2>5 DEF Tidy
<1>7. QED BY <1>1, <1>2, <1>3, <1>4, <1>5, <1>6

\* Recovery.
LEMMA TidyRecovery ==
    ASSUME StoreShape, NEW p \in Procs, Tidy(files, index, op[p]) \/ Construct(p),
           Construct(p) \/ Recover(p) \/ SweepTemporaries(p) \/ LookForDuplicates(p) \/ Choose(p) \/ ScanDirectory(p)
    PROVE  Tidy(files, index', op'[p])
<1>1. CASE Construct(p) \/ Recover(p)
  <2>1. op'[p] = [step |-> "sweep"]
      BY <1>1, OtherShape
  <2>2. op'[p].step = "sweep"
      BY ONLY <2>1
  <2>3. QED BY <2>2 DEF Tidy
<1>c. CASE ~Construct(p) /\ Tidy(files, index, op[p])
  <2>1. CASE SweepTemporaries(p)
    <3>1. PICK S : S = {i \in Ids : Copies(i) # {}}
        OBVIOUS
    <3>2. op'[p] = [step |-> "look", ids |-> S]
        BY <2>1, <3>1, OtherShape
    <3>3. op'[p].step = "look" /\ op'[p].ids = S
        BY <3>2
    <3>4. \A i \in Ids \ S : Single(files, i)
        BY <3>1, CopiesOf DEF Single
    <3>5. QED BY <3>3, <3>4 DEF Tidy
  <2>2. CASE LookForDuplicates(p)
    <3>1. /\ op[p] \in Looks
          /\ \/ op[p].ids = {} /\ op'[p] = [step |-> "scan", dir |-> 1, idx |-> EmptyIndex]
             \/ \E i \in Ids : i \in op[p].ids /\ Looked(p, i)
        BY <2>2, LookShape
    <3>2. op[p].step = "look" /\ op[p].ids \in SUBSET Ids
        BY <3>1 DEF Looks
    <3>3. \A i \in Ids \ op[p].ids : Single(files, i)
        BY <1>c, <3>2 DEF Tidy
    <3>4. CASE op[p].ids = {} /\ op'[p] = [step |-> "scan", dir |-> 1, idx |-> EmptyIndex]
      <4>1. op'[p].step = "scan" /\ op'[p].dir = 1 /\ op'[p].idx = EmptyIndex
          BY <3>4
      <4>2. \A i \in Ids : Scanned(files, op'[p], i)
          BY <3>3, <3>4, <4>1, IndexCleared DEF Scanned
      <4>3. QED BY <4>1, <4>2 DEF Tidy
    <3>5. ASSUME NEW i \in Ids, i \in op[p].ids, Looked(p, i)
          PROVE  Tidy(files, index', op'[p])
      <4>1. CASE Cardinality(Copies(i)) <= 1 /\ op'[p] = [op[p] EXCEPT !.ids = @ \ {i}]
        <5>1. /\ [op[p] EXCEPT !.ids = @ \ {i}].step = "look"
              /\ [op[p] EXCEPT !.ids = @ \ {i}].ids = op[p].ids \ {i}
            BY <3>1 DEF Looks
        <5>2. op'[p].step = "look" /\ op'[p].ids = op[p].ids \ {i}
            BY ONLY <4>1, <5>1
        <5>3. Single(files, i)
            BY <4>1, OneCopy, CopiesOf
        <5>4. \A j \in Ids \ (op[p].ids \ {i}) : Single(files, j)
            BY <3>3, <5>3
        <5>5. QED BY <5>2, <5>4 DEF Tidy
      <4>2. CASE op'[p] = [step |-> "choose", ids |-> op[p].ids \ {i}, id |-> i, seen |-> Copies(i)]
        <5>1. PICK S, C : S = op[p].ids \ {i} /\ C = Copies(i)
            OBVIOUS
        <5>2. op'[p] = [step |-> "choose", ids |-> S, id |-> i, seen |-> C]
            BY <4>2, <5>1
        <5>3. op'[p].step = "choose" /\ op'[p].ids = S /\ op'[p].id = i /\ op'[p].seen = C
            BY <5>2
        <5>4. \A j \in Ids \ (S \cup {i}) : Single(files, j)
            BY <3>3, <5>1
        <5>5. QED BY <5>1, <5>3, <5>4, CopiesOf DEF Tidy
      <4>3. QED BY <3>5, <4>1, <4>2 DEF Looked
    <3>6. QED BY <3>1, <3>4, <3>5
  <2>3. CASE Choose(p)
    <3>1. /\ op[p] \in Chooses /\ op'[p] \in Prunes
          /\ op'[p].ids = op[p].ids /\ op'[p].id = op[p].id
          /\ op'[p].others = op[p].seen \ (IF Copies(op[p].id) = {} THEN {} ELSE {Chosen(op[p].id)})
        BY <2>3, ChooseShape
    <3>2. PICK i, S, c : i = op[p].id /\ S = op[p].ids /\ c = Chosen(i)
        OBVIOUS
    <3>3. /\ op[p].step = "choose" /\ op'[p].step = "prune"
          /\ op'[p].ids = S /\ op'[p].id = i
          /\ op'[p].others = op[p].seen \ (IF Copies(i) = {} THEN {} ELSE {c})
        BY <3>1, <3>2 DEF Chooses, Prunes
    <3>4. (\A j \in Ids \ (S \cup {i}) : Single(files, j)) /\ op[p].seen = CopiesIn(files, i)
        BY <1>c, <3>2, <3>3 DEF Tidy
    <3>5. \A d, e \in CopiesIn(files, i) \ op'[p].others : d = e
        BY <3>3, <3>4, CopiesOf
    <3>6. QED BY <3>3, <3>4, <3>5 DEF Tidy
  <2>4. CASE ScanDirectory(p)
    <3>1. /\ op[p] \in Scans /\ op'[p] \in Scans
          /\ op[p].dir \in 1 .. Len(DirOrder) /\ op'[p].dir = op[p].dir + 1
          /\ \A i \in Ids : op'[p].idx[i] =
                (IF DirOrder[op[p].dir] \in Copies(i) THEN DirOrder[op[p].dir] ELSE op[p].idx[i])
        BY <2>4, ScanShape
    <3>2. op[p].step = "scan" /\ op'[p].step = "scan"
        BY <3>1 DEF Scans
    <3>3. ASSUME NEW i \in Ids
          PROVE  Scanned(files, op'[p], i)
      <4>1. Scanned(files, op[p], i)
          BY <1>c, <3>2 DEF Tidy
      <4>2. PICK m \in 1 .. Len(DirOrder) : m = op[p].dir /\ op'[p].dir = m + 1
          BY <3>1
      <4>3. op'[p].idx[i] = IF DirOrder[m] \in CopiesIn(files, i) THEN DirOrder[m] ELSE op[p].idx[i]
          BY <3>1, <4>2, CopiesOf
      <4>4. \A k \in 1 .. Len(DirOrder) : k < m + 1 => k < m \/ k = m
          BY StoreAssumption
      <4>5. ASSUME NEW k \in 1 .. Len(DirOrder), k < m + 1, DirOrder[k] \in CopiesIn(files, i)
            PROVE  op'[p].idx[i] = DirOrder[k]
        <5>1. CASE k < m
          <6>1. op[p].idx[i] = DirOrder[k]
              BY <4>1, <4>2, <4>5, <5>1 DEF Scanned
          <6>2. DirOrder[m] \in CopiesIn(files, i) => DirOrder[m] = DirOrder[k]
              BY <4>1, <4>5 DEF Scanned, Single
          <6>3. QED BY <4>3, <6>1, <6>2
        <5>2. CASE k = m
            BY <4>3, <4>5, <5>2
        <5>3. QED BY <4>4, <4>5, <5>1, <5>2
      <4>6. op'[p].idx[i] # NoDir => op'[p].idx[i] \in CopiesIn(files, i)
          BY <4>1, <4>3 DEF Scanned
      <4>7. QED BY <4>1, <4>2, <4>5, <4>6 DEF Scanned
    <3>4. QED BY <3>2, <3>3 DEF Tidy
  <2>5. CASE Recover(p)
      BY <1>1, <2>5
  <2>6. QED BY <1>c, <2>1, <2>2, <2>3, <2>4, <2>5
<1>2. QED BY <1>1, <1>c

\* Which directories hold task j after a rename, and after copies went away.
LEMMA CopiesAfterPut ==
    ASSUME NEW t \in Nat, NEW F \in Files(t), NEW i \in Ids, NEW d \in Dirs, NEW c \in Versions(t)
    PROVE  /\ CopiesIn(Put(F, i, d, c), i) = {d} \cup (CopiesIn(F, i) \ {d})
           /\ \A j \in Ids : j # i => CopiesIn(Put(F, i, d, c), j) = CopiesIn(F, j)
           /\ \A j \in Ids, e \in Dirs : ~(j = i /\ e = d) => Put(F, i, d, c)[j][e] = F[j][e]
           /\ Put(F, i, d, c)[i][d] = c
<1> DEFINE G == Put(F, i, d, c)
<1>1. G[i][d] = c /\ (\A j \in Ids, e \in Dirs : ~(j = i /\ e = d) => G[j][e] = F[j][e]) /\ c # NoCopy
    BY PutFile, NoCopyIsNoVersion
<1> HIDE DEF G
<1>2. CopiesIn(G, i) = {d} \cup (CopiesIn(F, i) \ {d})
    BY <1>1 DEF CopiesIn
<1>3. \A j \in Ids : j # i => CopiesIn(G, j) = CopiesIn(F, j)
    BY <1>1 DEF CopiesIn
<1>4. QED BY <1>1, <1>2, <1>3 DEF G

LEMMA CopiesAfterRemoval ==
    ASSUME NEW F, NEW G, NEW i \in Ids, NEW R, Without(F, G, i, R)
    PROVE  /\ CopiesIn(G, i) = CopiesIn(F, i) \ R
           /\ \A j \in Ids : j # i => CopiesIn(G, j) = CopiesIn(F, j)
           /\ \A j \in Ids, e \in Dirs : j # i => G[j][e] = F[j][e]
<1>1. CopiesIn(G, i) = CopiesIn(F, i) \ R
    BY DEF Without, CopiesIn
<1>2. \A j \in Ids : j # i => CopiesIn(G, j) = CopiesIn(F, j)
    BY DEF Without, CopiesIn
<1>3. \A j \in Ids, e \in Dirs : j # i => G[j][e] = F[j][e]
    BY DEF Without
<1>4. QED BY <1>1, <1>2, <1>3

\* Operations that change the files.
LEMMA TidyRename ==
    ASSUME DurableInv, NEW p \in Procs, Tidy(files, index, op[p]), op[p].step = "rename", Renamed(p), index' = index
    PROVE  Tidy(files', index', op'[p])
<1>1. PICK i, d, c : i = op[p].id /\ d = op[p].to /\ c = NewVersion(p)
    OBVIOUS
<1>s. StoreShape /\ stamp \in Nat /\ files \in Files(stamp) /\ files \in Files(stamp + 1) /\ Working(files, op[p])
    BY LaterFiles DEF DurableInv, StoreShape
<1>2. /\ i \in Ids /\ d \in Dirs /\ c \in Versions(stamp + 1) /\ stamp + 1 \in Nat
      /\ files' = Put(files, i, d, c) /\ Step(p, AfterRename(p))
    BY <1>s, <1>1 DEF Renamed, InPlace
<1>3. /\ CopiesIn(files', i) = {d} \cup (CopiesIn(files, i) \ {d})
      /\ \A j \in Ids : j # i => CopiesIn(files', j) = CopiesIn(files, j)
      /\ \A j \in Ids, e \in Dirs : ~(j = i /\ e = d) => files'[j][e] = files[j][e]
    BY <1>s, <1>2, CopiesAfterPut
<1>4. op'[p] = AfterRename(p)
    BY <1>s, <1>2, OnlyOne
<1>5. /\ op'[p].step = (IF op[p].task = 0 THEN "index" ELSE "unlink") /\ op'[p].id = i /\ op'[p].to = d
      /\ op'[p].others = CopiesIn(files, i) \ {d}
    BY <1>1, <1>4, CopiesOf DEF AfterRename
<1>6. op[p].task = 0 => CopiesIn(files, i) = {}
    BY <1>s, <1>1 DEF Working
<1>7. \A j \in Ids : Named(files, index, j)
    BY DEF Tidy
<1>8. \A j \in Ids \ {i} : Named(files', index', j)
    BY <1>3, <1>7, NamedKept
<1>9. op'[p].step \in {"unlink", "index"} /\ (op'[p].step = "index" => op'[p].others = {})
    BY <1>5, <1>6
<1>10. CopiesIn(files', i) = {d} \cup op'[p].others
    BY <1>3, <1>5
<1>11. QED BY <1>5, <1>8, <1>9, <1>10 DEF Tidy

\* A refused archive adds a copy beside the one that the index names, or replaces it.
LEMMA TidyWriteBack ==
    ASSUME DurableInv, NEW p \in Procs, Tidy(files, index, op[p]), op[p].step = "rename", WroteBack(p), index' = index
    PROVE  Tidy(files', index', op'[p])
<1>1. PICK i, d, c : i = op[p].id /\ d = op[p].to /\ c = NewVersion(p)
    OBVIOUS
<1>s. StoreShape /\ stamp \in Nat /\ files \in Files(stamp) /\ files \in Files(stamp + 1) /\ Working(files, op[p])
    BY LaterFiles DEF DurableInv, StoreShape
<1>2. /\ i \in Ids /\ d \in Dirs /\ c \in Versions(stamp + 1) /\ stamp + 1 \in Nat
      /\ files' = Put(files, i, d, c) /\ Step(p, Idle) /\ op[p].seen # 0
    BY <1>s, <1>1 DEF WroteBack, InPlace
<1>3. /\ CopiesIn(files', i) = {d} \cup (CopiesIn(files, i) \ {d})
      /\ \A j \in Ids : j # i => CopiesIn(files', j) = CopiesIn(files, j)
      /\ \A j \in Ids, e \in Dirs : ~(j = i /\ e = d) => files'[j][e] = files[j][e]
      /\ files'[i][d] = c
    BY <1>s, <1>2, CopiesAfterPut
<1>4. op'[p].step = "none"
    BY <1>s, <1>2, OnlyOne DEF Idle
<1>5. CopiesIn(files, i) # {}
    BY <1>s, <1>1, <1>2 DEF Working
<1>6. \A j \in Ids : Named(files, index, j)
    BY DEF Tidy
<1>7. \A j \in Ids \ {i} : Named(files', index', j)
    BY <1>3, <1>6, NamedKept
<1>8. Untouched(c)
  <2>1. op[p].seen \in 0 .. stamp /\ c.stamp = op[p].seen /\ c.wrote = stamp + 1
      BY <1>1, <1>2 DEF WroteBack, InPlace, NewVersion
  <2>2. QED BY <1>s, <2>1 DEF Untouched
<1>9. Named(files', index', i)
  <2>1. index[i] # NoDir /\ index[i] \in CopiesIn(files, i) /\ \A e \in CopiesIn(files, i) \ {index[i]} : Untouched(files[i][e])
      BY <1>2, <1>5, <1>6 DEF Named
  <2>2. \A e \in CopiesIn(files, i) : e \in Dirs
      BY DEF CopiesIn
  <2>3. \A e \in CopiesIn(files', i) \ {index[i]} : Untouched(files'[i][e])
    <3>1. ASSUME NEW e \in CopiesIn(files', i) \ {index[i]}
          PROVE  Untouched(files'[i][e])
      <4>1. CASE e = d
          BY <1>3, <1>8, <4>1
      <4>2. CASE e # d
        <5>1. e \in CopiesIn(files, i) \ {index[i]} /\ files'[i][e] = files[i][e]
            BY <1>2, <1>3, <2>2, <3>1, <4>2
        <5>2. QED BY <2>1, <5>1
      <4>3. QED BY <4>1, <4>2
    <3>2. QED BY <3>1
  <2>4. index[i] \in CopiesIn(files', i)
      BY <1>3, <2>1
  <2>5. QED BY <2>1, <2>3, <2>4 DEF Named
<1>10. QED BY <1>4, <1>7, <1>9 DEF Tidy

LEMMA TidyUnlink ==
    ASSUME DurableInv, NEW p \in Procs, Tidy(files, index, op[p]), Unlink(p), ~SharingFaults
    PROVE  Tidy(files', index', op'[p])
<1>s. StoreShape /\ stamp \in Nat /\ files \in Files(stamp) /\ Working(files, op[p])
    BY DEF DurableInv, StoreShape
<1>0. index' = index
    BY DEF Unlink
<1>1. /\ op[p] \in Unlinks /\ op[p].id \in Ids /\ op[p].step = "unlink"
      /\ UnlinksDone(p) \/ \E d \in Dirs : Unlinked(p, d)
    BY <1>s, UnlinkSplits DEF UnlinkRaises
<1>2. PICK i, to, R : i = op[p].id /\ to = op[p].to /\ R = op[p].others
    OBVIOUS
<1>3. /\ \A j \in Ids \ {i} : Named(files, index, j)
      /\ CopiesIn(files, i) = {to} \cup R
      /\ to \notin R /\ i \in Ids
    BY <1>s, <1>1, <1>2 DEF Tidy, Working
<1>4. CASE UnlinksDone(p)
  <2>1. R = {} /\ files' = files /\ op'[p] = [op[p] EXCEPT !.step = "index"]
      BY <1>s, <1>2, <1>4, OnlyOne DEF UnlinksDone
  <2>2. /\ [op[p] EXCEPT !.step = "index"].step = "index" /\ [op[p] EXCEPT !.step = "index"].id = op[p].id
        /\ [op[p] EXCEPT !.step = "index"].to = op[p].to /\ [op[p] EXCEPT !.step = "index"].others = op[p].others
      BY <1>1 DEF Unlinks
  <2>3. op'[p].step = "index" /\ op'[p].id = i /\ op'[p].to = to /\ op'[p].others = R
      BY <1>2, <2>1, <2>2
  <2>4. QED BY <1>0, <1>3, <2>1, <2>3 DEF Tidy
<1>5. ASSUME NEW d \in Dirs, Unlinked(p, d)
      PROVE  Tidy(files', index', op'[p])
  <2>1. /\ d \in R /\ Without(files, files', i, {d})
        /\ op'[p] = [op[p] EXCEPT !.others = @ \ {d}]
      BY <1>s, <1>2, <1>5, OnlyOne DEF Unlinked
  <2>2. /\ [op[p] EXCEPT !.others = @ \ {d}].step = "unlink" /\ [op[p] EXCEPT !.others = @ \ {d}].id = op[p].id
        /\ [op[p] EXCEPT !.others = @ \ {d}].to = op[p].to
        /\ [op[p] EXCEPT !.others = @ \ {d}].others = op[p].others \ {d}
      BY <1>1 DEF Unlinks
  <2>3. op'[p].step = "unlink" /\ op'[p].id = i /\ op'[p].to = to /\ op'[p].others = R \ {d}
      BY <1>2, <2>1, <2>2
  <2>4. /\ CopiesIn(files', i) = CopiesIn(files, i) \ {d}
        /\ \A j \in Ids : j # i => CopiesIn(files', j) = CopiesIn(files, j)
        /\ \A j \in Ids, e \in Dirs : j # i => files'[j][e] = files[j][e]
    <3>1. i \in Ids /\ \A j \in Ids, e \in Dirs :
                         files'[j][e] = IF j = i /\ e \in {d} THEN NoCopy ELSE files[j][e]
        BY <1>3, <2>1 DEF Without
    <3>2. CopiesIn(files', i) = CopiesIn(files, i) \ {d}
        BY <3>1 DEF CopiesIn
    <3>3. \A j \in Ids, e \in Dirs : j # i => files'[j][e] = files[j][e]
        BY <3>1
    <3>4. \A j \in Ids : j # i => CopiesIn(files', j) = CopiesIn(files, j)
        BY <3>3 DEF CopiesIn
    <3>5. QED BY <3>2, <3>3, <3>4
  <2>5. CopiesIn(files', i) = {to} \cup (R \ {d})
      BY <1>3, <2>1, <2>4
  <2>6. \A j \in Ids \ {i} : Named(files', index', j)
      BY <1>0, <1>3, <2>4, NamedKept
  <2>7. QED BY <2>3, <2>5, <2>6 DEF Tidy
<1>6. QED BY <1>1, <1>4, <1>5

LEMMA TidyPrune ==
    ASSUME StoreShape, NEW p \in Procs, Tidy(files, index, op[p]), Prune(p)
    PROVE  Tidy(files', index', op'[p])
<1>1. /\ op[p] \in Prunes /\ op'[p] = [step |-> "look", ids |-> op[p].ids]
      /\ Without(files, files', op[p].id, op[p].others) /\ op[p].id \in Ids
    BY PruneShape
<1>2. PICK i, S, R : i = op[p].id /\ S = op[p].ids /\ R = op[p].others
    OBVIOUS
<1>3. op[p].step = "prune" /\ op'[p] = [step |-> "look", ids |-> S] /\ Without(files, files', i, R) /\ i \in Ids
    BY <1>1, <1>2 DEF Prunes
<1>4. op'[p].step = "look" /\ op'[p].ids = S
    BY <1>3
<1>5. /\ \A j \in Ids \ (S \cup {i}) : Single(files, j)
      /\ \A d, e \in CopiesIn(files, i) \ R : d = e
    BY <1>2, <1>3 DEF Tidy
<1>6. /\ CopiesIn(files', i) = CopiesIn(files, i) \ R
      /\ \A j \in Ids : j # i => CopiesIn(files', j) = CopiesIn(files, j)
    BY <1>3, CopiesAfterRemoval
<1>7. \A j \in Ids \ S : Single(files', j)
  <2>1. ASSUME NEW j \in Ids \ S
        PROVE  Single(files', j)
    <3>1. CASE j = i
        BY <1>5, <1>6, <3>1 DEF Single
    <3>2. CASE j # i
        BY <1>5, <1>6, <2>1, <3>2 DEF Single
    <3>3. QED BY <3>1, <3>2
  <2>2. QED BY <2>1
<1>8. QED BY <1>4, <1>7 DEF Tidy

LEMMA TidyStep ==
    ASSUME RestartInv, MaxAlive = 1, ~SharingFaults, [StoreNext]_storeVars
    PROVE  Lone' /\ TidyInv'
<1>s. StoreShape /\ Lone /\ DurableInv /\ \A p \in Procs : Alive(p) => Tidy(files, index, op[p])
    BY DEF RestartInv, DurableInv, TidyInv
<1>1. CASE UNCHANGED storeVars
  <2>1. at' = at /\ files' = files /\ index' = index /\ op' = op
      BY <1>1 DEF storeVars
  <2>2. QED BY <1>s, <2>1 DEF Lone, TidyInv, Alive
<1>2. ASSUME NEW p \in Procs, LockStep(p)
      PROVE  Lone' /\ TidyInv'
  <2>1. Lone' /\ (\A q \in Procs \ {p} : ~Alive(q)') /\ Alive(p)
    <3>1. Lone' /\ (\A q \in Procs \ {p} : ~Alive(q)') /\ (Construct(p) \/ Alive(p))
        BY <1>s, <1>2, LoneStep
    <3>2. ~Construct(p)
      <4>1. op'[p].step = "none"
          BY <1>2 DEF LockStep
      <4>2. Construct(p) => op'[p] = [step |-> "sweep"]
          BY <1>s, OtherShape
      <4>3. QED BY <4>1, <4>2
    <3>3. QED BY <3>1, <3>2
  <2>2. files' = files /\ index' = index /\ op' = op
      BY <1>2 DEF LockStep, FilesAlone
  <2>3. QED BY <1>s, <2>1, <2>2 DEF TidyInv
<1>3. ASSUME NEW p \in Procs, Die(p)
      PROVE  Lone' /\ TidyInv'
  <2>1. Lone' /\ \A q \in Procs \ {p} : ~Alive(q)'
      BY <1>s, <1>3, LoneStep
  <2>2. ~Alive(p)'
      BY <1>s, <1>3 DEF Die, Crash, Go, Alive, Gone, StoreShape, LockTypeOK
  <2>3. QED BY <2>1, <2>2 DEF TidyInv
<1>4. ASSUME NEW p \in Procs,
             \/ BeginMove(p) \/ BeginRefused(p) \/ BeginCreate(p)
             \/ WriteTemporary(p) \/ Rename(p) \/ Unlink(p) \/ UpdateIndex(p) \/ SaveIndex(p)
             \/ Construct(p) \/ Recover(p)
             \/ SweepTemporaries(p) \/ LookForDuplicates(p) \/ Choose(p) \/ Prune(p)
             \/ ScanDirectory(p) \/ RebuildIndex(p)
      PROVE  Lone' /\ TidyInv'
  <2>1. Lone' /\ (\A q \in Procs \ {p} : ~Alive(q)') /\ (Construct(p) \/ Alive(p))
      BY <1>s, <1>4, LoneStep
  <2>2. Construct(p) \/ Tidy(files, index, op[p])
      BY <1>s, <2>1
  <2>3. CASE \/ BeginMove(p) \/ BeginRefused(p) \/ BeginCreate(p) \/ WriteTemporary(p)
             \/ UpdateIndex(p) \/ SaveIndex(p) \/ RebuildIndex(p)
    <3>1. op[p].step # "none" \/ at[p] = "held"
        BY <2>3 DEF BeginMove, BeginRefused, BeginCreate, WriteTemporary, UpdateIndex, SaveIndex, RebuildIndex, At
    <3>2. Alive(p)
        BY <1>s, <3>1 DEF Lone, Alive, Gone
    <3>3. files' = files
        BY <2>3 DEF BeginMove, BeginRefused, BeginCreate, WriteTemporary, UpdateIndex, SaveIndex, RebuildIndex, FilesAlone
    <3>4. BeginMove(p) \/ BeginRefused(p) \/ BeginCreate(p) => op[p].step = "none"
        BY DEF BeginMove, BeginRefused, BeginCreate
    <3>5. \/ (BeginMove(p) \/ BeginRefused(p) \/ BeginCreate(p)) /\ op[p].step = "none"
          \/ WriteTemporary(p) \/ (NotRenamed(p) /\ op[p].step = "rename" /\ index' = index)
          \/ UpdateIndex(p) \/ SaveIndex(p) \/ RebuildIndex(p)
        BY ONLY <2>3, <3>4
    <3>6. Tidy(files, index, op[p])
        BY <1>s, <3>2
    <3>7. Tidy(files, index', op'[p])
        BY <1>s, <3>5, <3>6, TidyMoves
    <3>8. QED BY <2>1, <3>3, <3>7 DEF TidyInv
  <2>4. CASE \/ Construct(p) \/ Recover(p) \/ SweepTemporaries(p) \/ LookForDuplicates(p)
             \/ Choose(p) \/ ScanDirectory(p)
    <3>1. files' = files
        BY <2>4 DEF Construct, Recover, SweepTemporaries, LookForDuplicates, Choose, ScanDirectory, FilesAlone
    <3>2. Tidy(files, index', op'[p])
        BY <1>s, <2>2, <2>4, TidyRecovery
    <3>3. QED BY <2>1, <3>1, <3>2 DEF TidyInv
  <2>5. CASE Rename(p) \/ Unlink(p) \/ Prune(p)
    <3>1. Alive(p) /\ Tidy(files, index, op[p])
        BY <1>s, <2>5 DEF Rename, Unlink, Prune, At
    <3>2. CASE Rename(p)
      <4>1. op[p].step = "rename" /\ index' = index
          BY <3>2 DEF Rename, At
      <4>2. CASE Renamed(p)
        <5>1. Tidy(files', index', op'[p])
            BY <1>s, <3>1, <4>1, <4>2, TidyRename
        <5>2. QED BY <2>1, <5>1 DEF TidyInv
      <4>w. CASE WroteBack(p)
        <5>1. Tidy(files', index', op'[p])
            BY <1>s, <3>1, <4>1, <4>w, TidyWriteBack
        <5>2. QED BY <2>1, <5>1 DEF TidyInv
      <4>3. CASE NotRenamed(p)
        <5>1. files' = files
            BY <4>3 DEF NotRenamed, FilesAlone
        <5>2. Tidy(files, index', op'[p])
            BY <1>s, <3>1, <4>1, <4>3, TidyMoves
        <5>3. QED BY <2>1, <5>1, <5>2 DEF TidyInv
      <4>4. QED BY <1>s, <3>2, <4>2, <4>w, <4>3, RenameSplits
    <3>3. CASE Unlink(p)
      <4>1. Tidy(files', index', op'[p])
          BY <1>s, <3>1, <3>3, TidyUnlink
      <4>2. QED BY <2>1, <4>1 DEF TidyInv
    <3>4. CASE Prune(p)
      <4>1. Tidy(files', index', op'[p])
          BY <1>s, <3>1, <3>4, TidyPrune
      <4>2. QED BY <2>1, <4>1 DEF TidyInv
    <3>5. QED BY <2>5, <3>2, <3>3, <3>4
  <2>6. QED BY <1>4, <2>3, <2>4, <2>5
<1>5. QED BY <1>1, <1>2, <1>3, <1>4 DEF StoreNext

-----------------------------------------------------------------------------
(* The numbering of new tasks. *)

\* What create_task counts when the index is in order.
LEMMA ListedCounts ==
    ASSUME StoreShape, \A i \in Ids : Named(files, index, i), NEW n, Numbered(files, n)
    PROVE  Cardinality(Listed) = n
<1>0. n \in Nat /\ 1 .. n \subseteq Ids /\ \A i \in Ids : CopiesIn(files, i) # {} <=> i \in 1 .. n
    BY DEF Numbered
<1>1. CASE index = EmptyIndex
  <2>1. Listed = {i \in Ids : CopiesIn(files, i) # {}}
      BY <1>1, CopiesOf DEF Listed
  <2>2. Listed = 1 .. n
      BY <1>0, <2>1
  <2>3. QED BY <1>0, <2>2, FS_Interval
<1>2. CASE index # EmptyIndex
  <2>1. Listed = {i \in Ids : index[i] # NoDir /\ index[i] \in CopiesIn(files, i)}
      BY <1>2, CopiesOf DEF Listed
  <2>2. \A i \in Ids : index[i] # NoDir /\ index[i] \in CopiesIn(files, i) <=> CopiesIn(files, i) # {}
      BY DEF Named
  <2>3. Listed = 1 .. n
      BY <1>0, <2>1, <2>2
  <2>4. QED BY <1>0, <2>3, FS_Interval
<1>3. QED BY <1>1, <1>2

LEMMA CreateIsNumbered ==
    ASSUME StoreShape, NEW p \in Procs, Tidy(files, index, op[p]), \E n \in Nat : Numbered(files, n), BeginCreate(p)
    PROVE  /\ Copies(Cardinality(Listed) + 1) = {}
           /\ Numbered(files, Cardinality(Listed))
<1>1. at[p] = "held" /\ op[p].step = "none" /\ Cardinality(Listed) + 1 \in Ids
    BY DEF BeginCreate
<1>2. \A i \in Ids : Named(files, index, i)
    BY <1>1 DEF Tidy
<1>3. PICK n \in Nat : Numbered(files, n)
    OBVIOUS
<1>4. Cardinality(Listed) = n
    BY <1>2, <1>3, ListedCounts
<1>5. n + 1 \in Ids /\ n + 1 \notin 1 .. n
    BY <1>1, <1>4
<1>6. CopiesIn(files, n + 1) = {}
    BY <1>3, <1>5 DEF Numbered
<1>7. QED BY <1>3, <1>4, <1>5, <1>6, CopiesOf

\* The tasks that have copies are those a load finds.
LEMMA FilesOfLoaded ==
    ASSUME DurableInv, DurableInv', \A i \in Ids : Loaded(i)' = Loaded(i)
    PROVE  \A i \in Ids : CopiesIn(files', i) # {} <=> CopiesIn(files, i) # {}
<1>1. \A i \in Ids : CopiesIn(files, i) = {} <=> Loaded(i) = NoCopy
    BY LoadedIsNewest, CopiesOf DEF DurableInv, StoreShape
<1>2. \A i \in Ids : CopiesIn(files', i) = {} <=> Loaded(i)' = NoCopy
    BY LoadedIsNewest, CopiesOf DEF DurableInv, StoreShape
<1>3. QED BY <1>1, <1>2

LEMMA NumbersKept ==
    ASSUME NEW F, NEW G, \A i \in Ids : CopiesIn(G, i) # {} <=> CopiesIn(F, i) # {}
    PROVE  \A n : Numbered(F, n) => Numbered(G, n)
BY DEF Numbered

\* The first file of a new task takes the next number.
LEMMA NumberTaken ==
    ASSUME DurableInv, NEW p \in Procs, op[p].step = "rename", InPlace(p), \E n \in Nat : Numbered(files, n),
           NextNumber(files, op[p])
    PROVE  \E n \in Nat : Numbered(files', n)
<1>1. PICK i, d, c : i = op[p].id /\ d = op[p].to /\ c = NewVersion(p)
    OBVIOUS
<1>s. stamp \in Nat /\ files \in Files(stamp + 1) /\ Working(files, op[p])
    BY LaterFiles DEF DurableInv, StoreShape
<1>2. /\ i \in Ids /\ d \in Dirs /\ c \in Versions(stamp + 1) /\ stamp + 1 \in Nat
      /\ files' = Put(files, i, d, c) /\ op[p].task \in 0 .. stamp
    BY <1>s, <1>1 DEF InPlace
<1>3. /\ CopiesIn(files', i) # {}
      /\ \A j \in Ids : j # i => CopiesIn(files', j) = CopiesIn(files, j)
    BY <1>s, <1>2, CopiesAfterPut
<1>4. CASE op[p].task = 0
  <2>1. Numbered(files, i - 1)
      BY <1>1, <1>4 DEF NextNumber
  <2>2. PICK m \in Nat : m = i - 1 /\ i = m + 1
      BY <1>2, <2>1, StoreAssumption DEF Numbered
  <2>3. 1 .. m \subseteq Ids /\ \A j \in Ids : CopiesIn(files, j) # {} <=> j \in 1 .. m
      BY <2>1, <2>2 DEF Numbered
  <2>4. \A j : j \in 1 .. m + 1 <=> j \in 1 .. m \/ j = m + 1
      OBVIOUS
  <2>5. 1 .. m + 1 \subseteq Ids
      BY <1>2, <2>2, <2>3, <2>4
  <2>6. \A j \in Ids : CopiesIn(files', j) # {} <=> j \in 1 .. m + 1
      BY <1>3, <2>2, <2>3, <2>4
  <2>7. Numbered(files', m + 1) /\ m + 1 \in Nat
      BY <2>5, <2>6 DEF Numbered
  <2>8. QED BY <2>7
<1>5. CASE op[p].task # 0
  <2>1. CopiesIn(files, i) # {}
      BY <1>s, <1>1, <1>5 DEF Working
  <2>2. \A j \in Ids : CopiesIn(files', j) # {} <=> CopiesIn(files, j) # {}
      BY <1>3, <2>1
  <2>3. QED BY <2>2, NumbersKept
<1>6. QED BY <1>4, <1>5

\* No other step makes a new task's number stale.
LEMMA NextNumberStep ==
    ASSUME StoreShape, NEW p \in Procs, NextNumber(files, op[p]),
           BeginCreate(p) => Numbered(files, Cardinality(Listed)),
           \/ BeginMove(p) \/ BeginRefused(p) \/ BeginCreate(p)
           \/ WriteTemporary(p) \/ Rename(p) \/ Unlink(p) \/ UpdateIndex(p) \/ SaveIndex(p)
           \/ Construct(p) \/ Recover(p)
           \/ SweepTemporaries(p) \/ LookForDuplicates(p) \/ Choose(p) \/ Prune(p)
           \/ ScanDirectory(p) \/ RebuildIndex(p) \/ Die(p)
    PROVE  \/ op'[p].step \notin {"write", "rename"}
           \/ files' = files /\ NextNumber(files, op'[p])
<1>s. StoreShape /\ NextNumber(files, op[p])
    OBVIOUS
<1>n. stamp \in Nat
    BY <1>s DEF StoreShape
<1>1. CASE BeginMove(p) \/ BeginRefused(p)
  <2>1. PICK i \in Ids, d \in Dirs, k \in 1 .. stamp, seen \in 0 .. stamp, status \in Dirs :
           Step(p, Write(i, d, k, seen, status))
      BY <1>s, <1>1, BeginSplits DEF Rewrites
  <2>2. k # 0 /\ k \in 0 .. stamp
      BY <1>n
  <2>3. op'[p] = Write(i, d, k, seen, status)
      BY <1>s, <2>1, OnlyOne
  <2>4. op'[p].task = k
      BY <1>n, <2>2, <2>3, WriteIsWrite
  <2>5. files' = files
      BY <1>s, <1>1, BeginSplits DEF FilesAlone
  <2>6. QED BY <2>2, <2>4, <2>5 DEF NextNumber
<1>2. CASE BeginCreate(p)
  <2>1. PICK n \in Nat : n = Cardinality(Listed) /\ Numbered(files, n)
      BY <1>2 DEF Numbered
  <2>2. PICK i \in Ids : i = n + 1 /\ Step(p, Write(i, DirOrder[1], 0, 0, DirOrder[1]))
      BY <1>s, <1>2, <2>1, BeginSplits DEF Creates
  <2>3. op'[p] = Write(i, DirOrder[1], 0, 0, DirOrder[1]) /\ 0 \in 0 .. stamp
      BY <1>s, <1>n, <2>2, OnlyOne
  <2>4. op'[p].id = i
      BY <1>n, <2>3, FirstDirectory, WriteIsWrite
  <2>5. op'[p].id - 1 = n
      BY <2>1, <2>2, <2>4
  <2>6. files' = files
      BY <1>s, <1>2, BeginSplits DEF FilesAlone
  <2>7. QED BY <2>1, <2>5, <2>6 DEF NextNumber
<1>3. CASE WriteTemporary(p)
  <2>1. op[p] \in Writes(stamp) /\ op[p].step = "write" /\ files' = files
      BY <1>s, <1>3, OpOf DEF WriteTemporary, At, StoreShape, FilesAlone
  <2>2. op'[p] = [op[p] EXCEPT !.step = "rename"]
      BY <1>s, <1>3, OnlyOne DEF WriteTemporary
  <2>3. /\ [op[p] EXCEPT !.step = "rename"].id = op[p].id
        /\ [op[p] EXCEPT !.step = "rename"].task = op[p].task
      BY <2>1 DEF Writes
  <2>4. op'[p].id = op[p].id /\ op'[p].task = op[p].task
      BY <2>2, <2>3
  <2>5. QED BY <1>s, <2>1, <2>4 DEF NextNumber
<1>4. CASE Rename(p)
  <2>1. CASE Renamed(p)
    <3>1. op'[p] = AfterRename(p)
        BY <1>s, <2>1, OnlyOne DEF Renamed
    <3>2. AfterRename(p).step \in {"index", "unlink"}
        BY DEF AfterRename
    <3>3. op'[p].step \in {"index", "unlink"}
        BY ONLY <3>1, <3>2
    <3>4. QED BY <3>3
  <2>2. CASE NotRenamed(p) \/ WroteBack(p)
    <3>1. op'[p] = Idle
        BY <1>s, <2>2, OnlyOne DEF NotRenamed, WroteBack
    <3>2. QED BY <3>1 DEF Idle
  <2>3. QED BY <1>s, <1>4, <2>1, <2>2, RenameSplits
<1>5. CASE Unlink(p)
  <2>1. op[p] \in Unlinks /\ op[p].step = "unlink"
      BY <1>s, <1>5, UnlinkSplits
  <2>2. CASE UnlinksDone(p)
    <3>1. op'[p] = [op[p] EXCEPT !.step = "index"]
        BY <1>s, <2>2, OnlyOne DEF UnlinksDone
    <3>2. [op[p] EXCEPT !.step = "index"].step = "index"
        BY <2>1 DEF Unlinks
    <3>3. op'[p].step = "index"
        BY ONLY <3>1, <3>2
    <3>4. QED BY <3>3
  <2>3. ASSUME NEW d \in Dirs, Unlinked(p, d) \/ UnlinkRaises(p, d)
        PROVE  op'[p].step \in {"none", "unlink"}
    <3>1. op'[p] = Idle \/ op'[p] = [op[p] EXCEPT !.others = @ \ {d}]
        BY <1>s, <2>3, OnlyOne DEF Unlinked, UnlinkRaises
    <3>2. Idle.step = "none" /\ [op[p] EXCEPT !.others = @ \ {d}].step = "unlink"
        BY <2>1 DEF Idle, Unlinks
    <3>3. QED BY ONLY <3>1, <3>2
  <2>4. UnlinksDone(p) \/ \E d \in Dirs : Unlinked(p, d) \/ UnlinkRaises(p, d)
      BY <1>s, <1>5, UnlinkSplits
  <2>5. CASE \E d \in Dirs : Unlinked(p, d) \/ UnlinkRaises(p, d)
    <3>1. op'[p].step \in {"none", "unlink"}
        BY <2>3, <2>5
    <3>2. QED BY <3>1
  <2>6. QED BY <2>2, <2>4, <2>5
<1>6. CASE UpdateIndex(p) \/ RebuildIndex(p)
  <2>1. PICK x : Step(p, [step |-> "save", idx |-> x])
      BY <1>6 DEF UpdateIndex, RebuildIndex
  <2>2. op'[p] = [step |-> "save", idx |-> x]
      BY <1>s, <2>1, OnlyOne
  <2>3. QED BY <2>2
<1>7. CASE SaveIndex(p) \/ Die(p)
  <2>1. op'[p] = Idle
      BY <1>s, <1>7, OnlyOne DEF SaveIndex, Die
  <2>2. QED BY <2>1 DEF Idle
<1>8. CASE Construct(p) \/ Recover(p)
  <2>1. op'[p] = [step |-> "sweep"]
      BY <1>s, <1>8, OtherShape
  <2>2. QED BY <2>1
<1>9. CASE SweepTemporaries(p)
  <2>1. PICK S : op'[p] = [step |-> "look", ids |-> S]
      BY <1>s, <1>9, OtherShape
  <2>2. QED BY <2>1
<1>10. CASE LookForDuplicates(p)
  <2>1. /\ op[p] \in Looks
        /\ \/ op'[p] = [step |-> "scan", dir |-> 1, idx |-> EmptyIndex]
           \/ \E i \in Ids : Looked(p, i)
      BY <1>s, <1>10, LookShape
  <2>2. ASSUME NEW i \in Ids, Looked(p, i)
        PROVE  op'[p].step \in {"look", "choose"}
    <3>1. CASE op'[p] = [op[p] EXCEPT !.ids = @ \ {i}]
      <4>1. [op[p] EXCEPT !.ids = @ \ {i}].step = "look"
          BY <2>1 DEF Looks
      <4>2. QED BY ONLY <3>1, <4>1
    <3>2. CASE op'[p] = [step |-> "choose", ids |-> op[p].ids \ {i}, id |-> i, seen |-> Copies(i)]
        BY ONLY <3>2
    <3>3. QED BY <2>2, <3>1, <3>2, Zenon DEF Looked
  <2>3. op'[p] = [step |-> "scan", dir |-> 1, idx |-> EmptyIndex] => op'[p].step = "scan"
      OBVIOUS
  <2>4. QED BY <2>1, <2>2, <2>3
<1>11. CASE Choose(p) \/ ScanDirectory(p)
  <2>1. op'[p] \in Prunes \cup Scans
      BY <1>s, <1>11, ChooseShape, ScanShape
  <2>2. QED BY <2>1 DEF Prunes, Scans
<1>12. CASE Prune(p)
  <2>1. op'[p] = [step |-> "look", ids |-> op[p].ids]
      BY <1>s, <1>12, PruneShape
  <2>2. QED BY <2>1
<1>13. QED BY <1>1, <1>2, <1>3, <1>4, <1>5, <1>6, <1>7, <1>8, <1>9, <1>10, <1>11, <1>12

\* The tasks stay numbered from 1 without a gap.
LEMMA NumberedStep ==
    ASSUME DurableInv, DurableInv', Solo, NumberedInv, [StoreNext]_storeVars,
           \A p \in Procs : BeginCreate(p) => Numbered(files, Cardinality(Listed))
    PROVE  NumberedInv'
<1>s. /\ StoreShape /\ StoreShape' /\ (\E n \in Nat : Numbered(files, n))
      /\ \A p \in Procs : NextNumber(files, op[p])
    BY DEF DurableInv, NumberedInv
<1>1. \E n \in Nat : Numbered(files', n)
  <2>1. CASE \A i \in Ids : Loaded(i)' = Loaded(i)
      BY <1>s, <2>1, FilesOfLoaded, NumbersKept
  <2>2. ASSUME NEW p \in Procs, Rename(p), InPlace(p)
        PROVE  \E n \in Nat : Numbered(files', n)
      BY <1>s, <2>2, NumberTaken DEF Rename, At
  <2>3. ASSUME NEW p \in Procs, Rename(p), NotRenamed(p)
        PROVE  \A i \in Ids : Loaded(i)' = Loaded(i)
      BY <2>3, CopiesOf DEF NotRenamed, FilesAlone
  <2>4. CASE \E p \in Procs : Rename(p)
      BY <1>s, <2>1, <2>2, <2>3, <2>4, RenameSplits DEF Renamed, WroteBack
  <2>5. CASE ~\E p \in Procs : Rename(p)
    <3>1. \A i \in Ids : Loaded(i)' = Loaded(i)
      <4>1. CASE files' = files
          BY <4>1, CopiesOf
      <4>2. ASSUME NEW p \in Procs, Unlink(p) \/ Prune(p)
            PROVE  \A i \in Ids : Loaded(i)' = Loaded(i)
          BY <1>s, <4>2, UnlinkDurable, PruneDurable
      <4>3. CASE UNCHANGED storeVars
          BY <4>1, <4>3 DEF storeVars
      <4>4. ASSUME NEW p \in Procs,
                   \/ BeginMove(p) \/ BeginRefused(p) \/ BeginCreate(p)
                   \/ WriteTemporary(p) \/ UpdateIndex(p) \/ SaveIndex(p)
                   \/ Construct(p) \/ Recover(p)
                   \/ SweepTemporaries(p) \/ LookForDuplicates(p) \/ Choose(p)
                   \/ ScanDirectory(p) \/ RebuildIndex(p) \/ LockStep(p) \/ Die(p)
            PROVE  files' = files
          BY <4>4 DEF BeginMove, BeginRefused, BeginCreate, WriteTemporary, UpdateIndex, SaveIndex, Construct, Recover,
                      SweepTemporaries, LookForDuplicates, Choose, ScanDirectory, RebuildIndex, LockStep, Die,
                      FilesAlone
      <4>5. QED BY <2>5, <4>1, <4>2, <4>3, <4>4 DEF StoreNext
    <3>2. QED BY <2>1, <3>1
  <2>6. QED BY <2>4, <2>5
<1>2. \A q \in Procs : NextNumber(files', op'[q])
  <2>1. CASE UNCHANGED storeVars
      BY <1>s, <2>1 DEF storeVars
  <2>2. ASSUME NEW p \in Procs, LockStep(p)
        PROVE  \A q \in Procs : NextNumber(files', op'[q])
      BY <1>s, <2>2 DEF LockStep, FilesAlone
  <2>3. ASSUME NEW p \in Procs,
               \/ BeginMove(p) \/ BeginRefused(p) \/ BeginCreate(p)
               \/ WriteTemporary(p) \/ Rename(p) \/ Unlink(p) \/ UpdateIndex(p) \/ SaveIndex(p)
               \/ Construct(p) \/ Recover(p)
               \/ SweepTemporaries(p) \/ LookForDuplicates(p) \/ Choose(p) \/ Prune(p)
               \/ ScanDirectory(p) \/ RebuildIndex(p) \/ Die(p)
        PROVE  \A q \in Procs : NextNumber(files', op'[q])
    <3>1. NextNumber(files', op'[p])
      <4>1. \/ op'[p].step \notin {"write", "rename"}
            \/ files' = files /\ NextNumber(files, op'[p])
          BY <1>s, <2>3, NextNumberStep
      <4>2. QED BY <4>1 DEF NextNumber
    <3>2. \A q \in Procs \ {p} : op'[q] = op[q]
      <4>1. \E o : Step(p, o)
          BY <2>3 DEF BeginMove, BeginRefused, BeginCreate, WriteTemporary, Rename, Unlink, UpdateIndex, SaveIndex, Construct, Recover,
                      SweepTemporaries, LookForDuplicates, Choose, Prune, ScanDirectory, RebuildIndex, Die
      <4>2. QED BY <1>s, <4>1, OnlyOne
    <3>3. ASSUME NEW q \in Procs \ {p}
          PROVE  NextNumber(files', op'[q])
      <4>1. CASE op[q].step = "none"
          BY <3>2, <4>1 DEF NextNumber
      <4>2. CASE op[q].step # "none"
        <5>1. op[p].step = "none"
            BY <4>2 DEF Solo
        <5>2. ~(Rename(p) \/ Unlink(p) \/ Prune(p))
            BY <5>1 DEF Rename, Unlink, Prune, At
        <5>3. files' = files
            BY <2>3, <5>2 DEF BeginMove, BeginRefused, BeginCreate, WriteTemporary, UpdateIndex, SaveIndex, Construct, Recover,
                              SweepTemporaries, LookForDuplicates, Choose, ScanDirectory, RebuildIndex, Die,
                              FilesAlone
        <5>4. QED BY <1>s, <3>2, <5>3
      <4>3. QED BY <4>1, <4>2
    <3>4. QED BY <3>1, <3>3
  <2>4. QED BY <2>1, <2>2, <2>3 DEF StoreNext
<1>3. QED BY <1>1, <1>2 DEF NumberedInv

LEMMA RestartStep ==
    ASSUME RestartInv, MaxAlive = 1, ~SharingFaults, [StoreNext]_storeVars
    PROVE  /\ RestartInv'
           /\ [StoreWrites]_<<[i \in Ids |-> Loaded(i)], refused>>
<1>s. StoreShape /\ Solo /\ DurableInv /\ NumberedInv
    BY LoneIsSolo DEF RestartInv, DurableInv
<1>1. ASSUME NEW p \in Procs, BeginCreate(p)
      PROVE  Copies(Cardinality(Listed) + 1) = {} /\ Numbered(files, Cardinality(Listed))
  <2>1. Tidy(files, index, op[p])
      BY <1>1 DEF BeginCreate, RestartInv, TidyInv, Alive, Gone
  <2>2. QED BY <1>s, <1>1, <2>1, CreateIsNumbered DEF NumberedInv
<1>2. DurableInv' /\ (StoreWrites \/ (refused' = refused /\ \A i \in Ids : Loaded(i)' = Loaded(i)))
    BY <1>s, <1>1, DurableStep
<1>3. Lone' /\ TidyInv'
    BY TidyStep
<1>4. NumberedInv'
    BY <1>s, <1>1, <1>2, NumberedStep
<1>5. QED BY <1>2, <1>3, <1>4, StoreStutters DEF RestartInv

\* At the start every task has its one copy where the index says.
LEMMA TidyInitial ==
    ASSUME StoreInit
    PROVE  (\A i \in Ids : Named(files, index, i)) /\ NumberedInv
<1>1. \A i \in Ids : CopiesIn(files, i) = (IF i <= Preloaded THEN {DirOrder[1]} ELSE {})
  <2>1. ASSUME NEW i \in Ids, NEW d \in Dirs
        PROVE  files[i][d] # NoCopy <=> i <= Preloaded /\ d = DirOrder[1]
    <3> QED BY FirstFiles, FirstIsVersion
  <2>2. ASSUME NEW i \in Ids
        PROVE  CopiesIn(files, i) = (IF i <= Preloaded THEN {DirOrder[1]} ELSE {})
    <3>1. CASE i <= Preloaded
        BY <2>1, <3>1, FirstDirectory DEF CopiesIn
    <3>2. CASE ~(i <= Preloaded)
        BY <2>1, <3>2 DEF CopiesIn
    <3>3. QED BY <3>1, <3>2
  <2>3. QED BY <2>2
<1>2. \A i \in Ids : Named(files, index, i)
  <2>1. ASSUME NEW i \in Ids
        PROVE  Named(files, index, i)
    <3>1. index[i] = IF i <= Preloaded THEN DirOrder[1] ELSE NoDir
        BY DEF StoreInit
    <3>2. DirOrder[1] # NoDir
        BY FirstDirectory, NoDirIsNoStatus
    <3>3. QED BY <1>1, <3>1, <3>2 DEF Named
  <2>2. QED BY <2>1
<1>3. Numbered(files, Preloaded)
  <2>1. ASSUME NEW i \in Ids
        PROVE  CopiesIn(files, i) # {} <=> i \in 1 .. Preloaded
    <3>1. i \in Nat \ {0} /\ Preloaded \in Nat
        BY StoreAssumption
    <3>2. i <= Preloaded <=> i \in 1 .. Preloaded
        BY <3>1
    <3>3. CASE i <= Preloaded
        BY <1>1, <3>2, <3>3
    <3>4. CASE ~(i <= Preloaded)
        BY <1>1, <3>2, <3>4
    <3>5. QED BY <3>3, <3>4
  <2>2. QED BY <2>1, StoreAssumption DEF Numbered
<1>4. \A p \in Procs : op[p].step = "none"
    BY DEF StoreInit, Idle
<1>5. NumberedInv
    BY <1>3, <1>4, StoreAssumption DEF NumberedInv, NextNumber
<1>6. QED BY <1>2, <1>5

LEMMA RestartInitial ==
    ASSUME \A p, q \in Running : p = q
    PROVE  StoreInit => RestartInv /\ Durable!DurableInit
<1> SUFFICES ASSUME StoreInit PROVE RestartInv
    BY DurableInitial
<1>1. DurableInv
    BY DurableInitial
<1>2. \A p \in Procs : op[p] = Idle /\ op[p].step = "none" /\ (Alive(p) => p \in Running)
    BY DEF StoreInit, LockInit, Idle, Alive, Gone
<1>3. Lone
    BY <1>2 DEF Lone
<1>4. TidyInv
    BY <1>2, TidyInitial DEF TidyInv, Tidy
<1>5. QED BY <1>1, <1>3, <1>4, TidyInitial DEF RestartInv

\* A process that is in the middle of nothing has a directory in order.
LEMMA ReadyIsTidy == RestartInv => ReadyPoolIsClean
<1> SUFFICES ASSUME RestartInv, NEW p \in Procs, at[p] = "out", op[p].step = "none", NEW i \in Ids
             PROVE  /\ IF index[i] = NoDir THEN Copies(i) = {} ELSE index[i] \in Copies(i)
                    /\ \A d \in Copies(i) \ {index[i]} : Untouched(files[i][d])
    BY DEF ReadyPoolIsClean
<1>1. Tidy(files, index, op[p])
    BY DEF RestartInv, TidyInv, Alive, Gone
<1>2. QED BY <1>1, CopiesOf DEF Tidy, Named

\* Processes that live one after the other, each starting with recovery, die anywhere and leave
\* whatever a write was in the middle of: once a constructor of TaskPool is through,
\* task_index.json names a copy of every task, and any other copy is a refused archive's.
THEOREM RecoveredPoolIsClean ==
    ASSUME MaxAlive = 1, \A p, q \in Running : p = q, ~SharingFaults
    PROVE  StoreSpec => []ReadyPoolIsClean
<1>1. RestartInv /\ [StoreNext]_storeVars => RestartInv'
    BY RestartStep
<1>2. QED BY <1>1, ReadyIsTidy, RestartInitial, PTL DEF StoreSpec

\* The same of the run that puts the processes that restart next to those that never call a
\* constructor: nothing the one setting does is a step of the other.
THEOREM RestartSettingIsClean ==
    ASSUME MaxAlive = 1, \A p, q \in Running : p = q, ~SharingFaults
    PROVE  BothSpec => []RestartCleansPool
<1> DEFINE Inv == setting = "restart" => RestartInv
<1>1. BothInit => Inv
    BY RestartInitial DEF BothInit
<1>2. Inv /\ [BothNext]_vars => Inv'
  <2> SUFFICES ASSUME Inv, [BothNext]_vars, setting' = "restart" PROVE RestartInv'
      OBVIOUS
  <2>1. setting = "restart" /\ [StoreNext]_storeVars
      BY DEF BothNext, vars
  <2>2. QED BY <2>1, RestartStep
<1>3. Inv => RestartCleansPool
    BY ReadyIsTidy DEF RestartCleansPool
<1>4. QED BY <1>1, <1>2, <1>3, PTL DEF BothSpec

\* No crash between any two of their steps makes a task disappear, or a new task take the number
\* of one that is there.
THEOREM RecoveredPoolKeepsTasks ==
    ASSUME MaxAlive = 1, \A p, q \in Running : p = q, ~SharingFaults
    PROVE  StoreSpec => []TaskNeverDisappears
<1>1. RestartInv /\ [StoreNext]_storeVars => RestartInv'
    BY RestartStep
<1>2. RestartInv => TaskNeverDisappears
    BY NothingLost DEF RestartInv
<1>3. QED BY <1>1, <1>2, RestartInitial, PTL DEF StoreSpec

\* ... and what a load returns, across all the deaths and recoveries, changes by a refresh to
\* a newer version or by a refused archive, in one step either way.
THEOREM RecoveredPoolIsAtomic ==
    ASSUME MaxAlive = 1, \A p, q \in Running : p = q, ~SharingFaults
    PROVE  StoreSpec => ImplementsDurableStore
<1>1. RestartInv /\ [StoreNext]_storeVars => RestartInv'
    BY RestartStep
<1>2. RestartInv /\ [StoreNext]_storeVars => [StoreWrites]_<<[i \in Ids |-> Loaded(i)], refused>>
    BY RestartStep
<1>3. QED BY <1>1, <1>2, RestartInitial, PTL DEF StoreSpec, ImplementsDurableStore, Durable!DurableSpec, StoreWrites

-----------------------------------------------------------------------------
(* Processes that are all there from the start, call no constructor, and create tasks as    *)
(* well as move them: nothing keeps the index in order for them but the lock, under which   *)
(* one operation ends before the next begins.                                               *)

EveryoneAlive == \A p \in Procs : Alive(p)

\* The files and the index are in order for the process that is in the middle of an operation,
\* and for all of them when nobody is.
OrderInv ==
    \A p \in Procs : (\A q \in Procs \ {p} : op[q].step = "none") => Tidy(files, index, op[p])

\* As long as nobody has died, for a death leaves an operation unfinished.
TogetherInv ==
    /\ StoreShape
    /\ KeptInv
    /\ \A p \in Procs : at[p] # "new"
    /\ EveryoneAlive => SurvivorInv /\ OrderInv /\ NumberedInv

LEMMA NobodyReturns ==
    ASSUME LockTypeOK, \A p \in Procs : at[p] # "new", [LockNext]_lockVars
    PROVE  (\A p \in Procs : at'[p] # "new") /\ (EveryoneAlive' => EveryoneAlive)
<1>s. at \in [Procs -> Outside \cup Waiting \cup Owning \cup Gone \cup {"closed"}]
    BY DEF LockTypeOK
<1>1. CASE UNCHANGED lockVars
    BY <1>1 DEF lockVars, EveryoneAlive, Alive
<1>2. ASSUME NEW p \in Procs,
             Enter(p) \/ CreateExclusive(p) \/ WritePid(p) \/ CheckOwner(p) \/ RemoveStale(p)
             \/ CloseLock(p) \/ UnlinkLock(p) \/ Crash(p)
      PROVE  (\A q \in Procs : at'[q] # "new") /\ (EveryoneAlive' => EveryoneAlive)
  <2>1. /\ \E place \in {"try", "opened", "check", "held", "remove", "out", "closed", "dead"} :
              at' = [at EXCEPT ![p] = place]
        /\ Alive(p)
      BY <1>2 DEF Enter, CreateExclusive, WritePid, CheckOwner, RemoveStale, CloseLock, UnlinkLock, Crash, Go,
                  Alive, Gone
  <2>2. (\A q \in Procs : at'[q] # "new") /\ \A q \in Procs \ {p} : at'[q] = at[q]
      BY <1>s, <2>1
  <2>3. QED BY <2>1, <2>2 DEF EveryoneAlive, Alive
<1>3. ASSUME NEW p \in Procs, Boot(p)
      PROVE  FALSE
    BY <1>3 DEF Boot
<1>4. QED BY <1>1, <1>2, <1>3 DEF LockNext

LEMMA OrderStep ==
    ASSUME SurvivorInv, OrderInv, Daemons = {}, ~SharingFaults, [StoreNext]_storeVars, EveryoneAlive'
    PROVE  OrderInv'
<1>s. StoreShape /\ LockTypeOK /\ DurableInv /\ OwnersFile /\ Places /\ \A p \in Procs : at[p] # "new"
    BY DEF SurvivorInv, DurableInv, StoreShape, Places
<1>1. CASE UNCHANGED storeVars
  <2>1. files' = files /\ index' = index /\ op' = op
      BY <1>1 DEF storeVars
  <2>2. QED BY <2>1 DEF OrderInv
<1>2. ASSUME NEW p \in Procs, LockStep(p)
      PROVE  OrderInv'
  <2>1. files' = files /\ index' = index /\ op' = op
      BY <1>2 DEF LockStep, FilesAlone
  <2>2. QED BY <2>1 DEF OrderInv
<1>3. ASSUME NEW p \in Procs, Die(p)
      PROVE  FALSE
  <2>1. at'[p] = "dead"
      BY <1>s, <1>3 DEF Die, Crash, Go, LockTypeOK
  <2>2. QED BY <2>1 DEF EveryoneAlive, Alive, Gone
<1>4. ASSUME NEW p \in Procs, Construct(p) \/ Recover(p)
      PROVE  FALSE
    BY <1>s, <1>4 DEF Construct, Boot, Recover
<1>5. ASSUME NEW p \in Procs,
             \/ BeginMove(p) \/ BeginRefused(p) \/ BeginCreate(p)
             \/ WriteTemporary(p) \/ Rename(p) \/ Unlink(p) \/ UpdateIndex(p) \/ SaveIndex(p)
             \/ SweepTemporaries(p) \/ LookForDuplicates(p) \/ Choose(p) \/ Prune(p)
             \/ ScanDirectory(p) \/ RebuildIndex(p)
      PROVE  OrderInv'
  <2>1. op[p].step # "none" \/ at[p] = "held"
      BY <1>5 DEF BeginMove, BeginRefused, BeginCreate, WriteTemporary, Rename, Unlink, UpdateIndex, SaveIndex,
                  SweepTemporaries, LookForDuplicates, Choose, Prune, ScanDirectory, RebuildIndex, At
  <2>2. \A q \in Procs \ {p} : op[q].step = "none"
      BY <1>s, <2>1, WorksAlone
  <2>3. Tidy(files, index, op[p])
      BY <2>2 DEF OrderInv
  <2>4. \A q \in Procs \ {p} : op'[q].step = "none"
    <3>1. \E o : Step(p, o)
        BY <1>5 DEF BeginMove, BeginRefused, BeginCreate, WriteTemporary, Rename, Unlink, UpdateIndex, SaveIndex,
                    SweepTemporaries, LookForDuplicates, Choose, Prune, ScanDirectory, RebuildIndex
    <3>2. QED BY <1>s, <2>2, <3>1, OnlyOne
  <2>5. Tidy(files', index', op'[p])
    <3>1. CASE BeginMove(p) \/ BeginRefused(p) \/ BeginCreate(p) \/ WriteTemporary(p) \/ UpdateIndex(p) \/ SaveIndex(p) \/ RebuildIndex(p)
      <4>1. files' = files
          BY <3>1 DEF BeginMove, BeginRefused, BeginCreate, WriteTemporary, UpdateIndex, SaveIndex, RebuildIndex, FilesAlone
      <4>2. BeginMove(p) \/ BeginRefused(p) \/ BeginCreate(p) => op[p].step = "none"
          BY DEF BeginMove, BeginRefused, BeginCreate
      <4>3. \/ (BeginMove(p) \/ BeginRefused(p) \/ BeginCreate(p)) /\ op[p].step = "none"
            \/ WriteTemporary(p) \/ (NotRenamed(p) /\ op[p].step = "rename" /\ index' = index)
            \/ UpdateIndex(p) \/ SaveIndex(p) \/ RebuildIndex(p)
          BY ONLY <3>1, <4>2
      <4>4. Tidy(files, index', op'[p])
          BY <1>s, <2>3, <4>3, TidyMoves
      <4>5. QED BY <4>1, <4>4
    <3>2. CASE SweepTemporaries(p) \/ LookForDuplicates(p) \/ Choose(p) \/ ScanDirectory(p)
      <4>1. files' = files
          BY <3>2 DEF SweepTemporaries, LookForDuplicates, Choose, ScanDirectory, FilesAlone
      <4>2. Tidy(files, index', op'[p])
          BY <1>s, <2>3, <3>2, TidyRecovery
      <4>3. QED BY <4>1, <4>2
    <3>3. CASE Rename(p)
      <4>1. op[p].step = "rename" /\ index' = index
          BY <3>3 DEF Rename, At
      <4>2. CASE Renamed(p)
          BY <1>s, <2>3, <4>1, <4>2, TidyRename
      <4>w. CASE WroteBack(p)
          BY <1>s, <2>3, <4>1, <4>w, TidyWriteBack
      <4>3. CASE NotRenamed(p)
        <5>1. files' = files
            BY <4>3 DEF NotRenamed, FilesAlone
        <5>2. Tidy(files, index', op'[p])
            BY <1>s, <2>3, <4>1, <4>3, TidyMoves
        <5>3. QED BY <5>1, <5>2
      <4>4. QED BY <1>s, <3>3, <4>2, <4>w, <4>3, RenameSplits
    <3>4. CASE Unlink(p)
        BY <1>s, <2>3, <3>4, TidyUnlink
    <3>5. CASE Prune(p)
        BY <1>s, <2>3, <3>5, TidyPrune
    <3>6. QED BY <1>5, <3>1, <3>2, <3>3, <3>4, <3>5
  <2>6. ASSUME NEW q \in Procs \ {p}, \A r \in Procs \ {q} : op'[r].step = "none"
        PROVE  Tidy(files', index', op'[q])
    <3>1. op'[p].step = "none" /\ op'[q].step = "none"
        BY <2>4, <2>6
    <3>2. \A i \in Ids : Named(files', index', i)
        BY <2>5, <3>1 DEF Tidy
    <3>3. QED BY <3>1, <3>2 DEF Tidy
  <2>7. QED BY <2>5, <2>6 DEF OrderInv
<1>6. QED BY <1>1, <1>2, <1>3, <1>4, <1>5 DEF StoreNext

LEMMA TogetherStep ==
    ASSUME Daemons = {}, ~SharingFaults, TogetherInv, [StoreNext]_storeVars
    PROVE  /\ TogetherInv'
           /\ [EveryoneAlive => StoreWrites]_<<[i \in Ids |-> Loaded(i)], refused>>
<1>1. StoreShape' /\ KeptInv' /\ (\A p \in Procs : at'[p] # "new") /\ (EveryoneAlive' => EveryoneAlive)
    BY ShapeStep, LockSteps, KeptStep, NobodyReturns DEF TogetherInv, StoreShape
<1>2. ASSUME EveryoneAlive
      PROVE  /\ EveryoneAlive' => SurvivorInv' /\ OrderInv' /\ NumberedInv'
             /\ [StoreWrites]_<<[i \in Ids |-> Loaded(i)], refused>>
  <2>s. SurvivorInv /\ DurableInv /\ OrderInv /\ NumberedInv /\ Solo
      BY <1>2, SurvivorsAlone DEF TogetherInv, SurvivorInv
  <2>1. ASSUME NEW p \in Procs, BeginCreate(p)
        PROVE  Copies(Cardinality(Listed) + 1) = {} /\ Numbered(files, Cardinality(Listed))
    <3>1. \A q \in Procs \ {p} : op[q].step = "none"
        BY <2>s, <2>1, WorksAlone DEF BeginCreate, SurvivorInv
    <3>2. Tidy(files, index, op[p])
        BY <2>s, <3>1 DEF OrderInv
    <3>3. QED BY <2>s, <2>1, <3>2, CreateIsNumbered DEF NumberedInv, DurableInv
  <2>2. DurableInv' /\ (StoreWrites \/ (refused' = refused /\ \A i \in Ids : Loaded(i)' = Loaded(i)))
      BY <2>s, <2>1, DurableStep
  <2>3. ASSUME EveryoneAlive'
        PROVE  SurvivorInv'
    <3>1. OwnersFile'
      <4>1. NobodyDied'
          BY <2>3 DEF EveryoneAlive, NobodyDied, Alive, Gone
      <4>2. KeptInv' /\ NobodyDied' => OwnersFile'
          BY DEF KeptInv, OwnersFile, Owning
      <4>3. QED BY <1>1, <4>1, <4>2
    <3>2. 1 .. Preloaded \subseteq made'
        BY <2>s, MadeGrows DEF SurvivorInv
    <3>3. Places'
        BY <2>s, SurvivorPlaces DEF SurvivorInv, DurableInv
    <3>4. QED BY <2>2, <3>1, <3>2, <3>3 DEF SurvivorInv
  <2>4. NumberedInv'
      BY <2>s, <2>1, <2>2, NumberedStep
  <2>5. EveryoneAlive' => OrderInv'
      BY <2>s, OrderStep
  <2>6. QED BY <2>2, <2>3, <2>4, <2>5, StoreStutters
<1>3. TogetherInv'
    BY <1>1, <1>2 DEF TogetherInv
<1>4. QED BY <1>2, <1>3

LEMMA TogetherInitial ==
    ASSUME Running = Procs
    PROVE  StoreInit => TogetherInv
<1> SUFFICES ASSUME StoreInit PROVE TogetherInv
    OBVIOUS
<1>1. SurvivorInv /\ StoreShape /\ KeptInv
    BY SurvivorInitial, KeptInitial DEF SurvivorInv, DurableInv, StoreInit
<1>2. (\A i \in Ids : Named(files, index, i)) /\ NumberedInv
    BY TidyInitial
<1>3. \A p \in Procs : op[p].step = "none" /\ at[p] # "new"
    BY DEF StoreInit, LockInit, Idle
<1>4. OrderInv
    BY <1>2, <1>3 DEF OrderInv, Tidy
<1>5. QED BY <1>1, <1>2, <1>3, <1>4 DEF TogetherInv

\* Until the first of them dies, processes that create, move and rewrite tasks at the same
\* time, each step of one between any two of another, lose no task and give no two tasks one
\* number, and when none is in the middle of anything the index names a copy of every task,
\* the only one but for refused archives.  On either platform the lock is all it takes.
THEOREM TogetherNothingIsLost ==
    ASSUME Running = Procs, Daemons = {}, ~SharingFaults
    PROVE  StoreSpec => [](EveryoneAlive =>
                             /\ TaskNeverDisappears
                             /\ (\A p \in Procs : op[p].step = "none") => ReadyPoolIsClean)
<1>1. TogetherInv /\ [StoreNext]_storeVars => TogetherInv'
    BY TogetherStep
<1>2. TogetherInv => (EveryoneAlive =>
                         /\ TaskNeverDisappears
                         /\ (\A p \in Procs : op[p].step = "none") => ReadyPoolIsClean)
  <2> SUFFICES ASSUME TogetherInv, EveryoneAlive
               PROVE  TaskNeverDisappears /\ ((\A p \in Procs : op[p].step = "none") => ReadyPoolIsClean)
      OBVIOUS
  <2>1. TaskNeverDisappears
      BY NothingLost DEF TogetherInv, SurvivorInv
  <2>2. ASSUME \A p \in Procs : op[p].step = "none", NEW p \in Procs, NEW i \in Ids
        PROVE  /\ IF index[i] = NoDir THEN Copies(i) = {} ELSE index[i] \in Copies(i)
               /\ \A d \in Copies(i) \ {index[i]} : Untouched(files[i][d])
    <3>1. Tidy(files, index, op[p])
        BY <2>2 DEF TogetherInv, OrderInv
    <3>2. QED BY <2>2, <3>1, CopiesOf DEF Tidy, Named
  <2>3. QED BY <2>1, <2>2 DEF ReadyPoolIsClean
<1>3. QED BY <1>1, <1>2, TogetherInitial, PTL DEF StoreSpec

\* ... and what a load returns changes by the refreshed writes and the refused archives of the
\* atomic store, each in one step, and by nothing else.
THEOREM TogetherWritesAreAtomic ==
    ASSUME Running = Procs, Daemons = {}, ~SharingFaults
    PROVE  StoreSpec => [][EveryoneAlive => StoreWrites]_<<[i \in Ids |-> Loaded(i)], refused>>
<1>1. TogetherInv /\ [StoreNext]_storeVars => TogetherInv'
    BY TogetherStep
<1>2. TogetherInv /\ [StoreNext]_storeVars =>
          [EveryoneAlive => StoreWrites]_<<[i \in Ids |-> Loaded(i)], refused>>
    BY TogetherStep
<1>3. QED BY <1>1, <1>2, TogetherInitial, PTL DEF StoreSpec
=============================================================================
