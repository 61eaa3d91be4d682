-------------------------- MODULE OwnerFilesProofs --------------------------
(***************************************************************************)
(* Proof that HolderIsNamed and TornLockStays hold of OwnerFiles for any   *)
(* number of processes, whoever is killed and whenever, however their      *)
(* calls overlap, and its type correctness.                                *)
(***************************************************************************)
EXTENDS OwnerFiles, TLAPS

Acquiring == {"try", "write", "read", "judge", "link", "unlink"}
Releasing == {"check", "remove"}
Relying == {"write", "judge", "unlink", "remove"}
Quiet == {"off", "dead", "loop", "stages"}
Steps == Acquiring \cup Releasing \cup Quiet
Place == [step : Steps, lock : Locks \cup {None}, try : Int]
Base(p) == IF p \in Daemons THEN {"workspace", "daemon"} ELSE {}

\* Where a process is (r) says which tokens it has (t).
Fits(p, r, t) ==
    /\ \/ r.step \in Quiet /\ r.lock = None
       \/ r.step \in Acquiring \cup Releasing /\ r.lock \in Locks
    /\ r.step \in {"off", "dead"} => t = {}
    /\ r.step = "loop" => p \in Daemons /\ t = {"workspace", "daemon"}
    /\ r.step = "stages" => t = Base(p) \cup {"lifecycle"}
    /\ r.lock \in {"workspace", "daemon"} => p \in Daemons
    /\ r.lock = "workspace" => t = IF r.step \in Releasing THEN {"workspace"} ELSE {}
    /\ r.lock = "daemon" => t = IF r.step \in Releasing THEN {"workspace", "daemon"} ELSE {"workspace"}
    /\ r.lock = "lifecycle" => t = IF r.step \in Releasing THEN Base(p) \cup {"lifecycle"} ELSE Base(p)
    /\ r.step = "write" => r.lock # "daemon"
    /\ r.step = "link" => r.lock = "daemon"

\* What a process in the middle of a call knows of the file, if no other has changed it since.
KnowsFile(p) ==
    p \notin overtaken =>
      \A f \in Locks :
        /\ On(p, f, "write") => file[f] = Unwritten(p)
        /\ On(p, f, "judge") => file[f] = Named(judged[p])
        /\ On(p, f, "unlink") => /\ \A q \in Starters : f \notin tokens[q]
                                /\ (f = "workspace" => file[f].state = "named")
        /\ On(p, f, "remove") => file[f] = Named(p)

HeldNamed == \A p \in Starters : \A f \in tokens[p] : file[f] = Named(p)

FilesOfLocks == \E X : file \in [Locks -> X]

HolderInv ==
    /\ FilesOfLocks
    /\ run \in [Starters -> Place]
    /\ judged \in [Starters -> Starters]
    /\ tokens \in [Starters -> SUBSET Locks]
    /\ \A f \in Locks : file[f].state = "named" => \E p \in Starters : file[f] = Named(p)
    /\ \A p \in Starters : Fits(p, run[p], tokens[p])
    /\ ~crossed => HeldNamed /\ \A p \in Starters : KnowsFile(p)

LEMMA FilesUpdated ==
    ASSUME FilesOfLocks, NEW f \in Locks, NEW x, file' = [file EXCEPT ![f] = x]
    PROVE  FilesOfLocks' /\ file'[f] = x /\ \A g \in Locks \ {f} : file'[g] = file[g]
<1>1. PICK X : file \in [Locks -> X]
    BY DEF FilesOfLocks
<1>2. file' \in [Locks -> X \cup {x}] /\ file'[f] = x /\ \A g \in Locks \ {f} : file'[g] = file[g]
    BY <1>1
<1>3. QED BY <1>2 DEF FilesOfLocks

LEMMA FilesKept ==
    ASSUME FilesOfLocks, NEW f \in Locks
    PROVE  [file EXCEPT ![f] = file[f]] = file
BY DEF FilesOfLocks

LEMMA FilesDiffer ==
    ASSUME NEW p \in Starters, NEW q \in Starters
    PROVE  /\ Named(p) = Named(q) => p = q
           /\ Named(p) # Unwritten(q) /\ Named(p) # Missing /\ Unwritten(p) # Missing
           /\ Missing.state = "missing" /\ Named(p).state = "named" /\ Unwritten(p).state = "unwritten"
           /\ Named(p).owner = p
BY DEF Named, Unwritten, Missing

LEMMA DoingFields ==
    ASSUME NEW s \in Acquiring \cup Releasing, NEW f \in Locks, NEW n \in Int
    PROVE  /\ Attempt(s, f, n) \in Place
           /\ Attempt(s, f, n).step = s /\ Attempt(s, f, n).lock = f
BY DEF Attempt, Place, Steps

LEMMA OutsideFields ==
    ASSUME NEW s \in Quiet
    PROVE  Outside(s) \in Place /\ Outside(s).step = s /\ Outside(s).lock = None
BY DEF Outside, Attempt, Place, Steps

LEMMA ToFields ==
    ASSUME HolderInv, NEW p \in Starters, NEW s \in Steps
    PROVE  LET r == [run[p] EXCEPT !.step = s]
           IN r \in Place /\ r.step = s /\ r.lock = run[p].lock
BY DEF HolderInv, Place

LEMMA HolderInitial == OwnersInit => HolderInv
<1> SUFFICES ASSUME OwnersInit PROVE HolderInv
    OBVIOUS
<1>1. /\ \A f \in Locks : file[f] = Missing
      /\ \A p \in Starters : run[p] = Outside("off") /\ tokens[p] = {}
      /\ \A p \in Starters : run[p] \in Place /\ run[p].step = "off" /\ run[p].lock = None
    BY DEF OwnersInit, Outside, Attempt, Place, Steps, Quiet
<1>2. \A f \in Locks : file[f].state # "named"
    BY <1>1 DEF Missing
<1>3. \A p \in Starters : Fits(p, run[p], tokens[p])
    BY <1>1 DEF Fits, Quiet, None, Locks
<1>4. \A p \in Starters : KnowsFile(p)
    BY <1>1 DEF KnowsFile, On
<1>5. FilesOfLocks
    BY DEF OwnersInit, FilesOfLocks
<1>6. QED BY <1>1, <1>2, <1>3, <1>4, <1>5 DEF OwnersInit, HolderInv, HeldNamed

\* What a step of p does to the histories.
LEMMA HistoryFacts ==
    ASSUME NEW p \in Starters, Remembers(p)
    PROVE  /\ ~crossed' => ~crossed /\ ~(p \in overtaken /\ Acts(p))
           /\ \A q \in Starters \ {p} : q \in overtaken => q \in overtaken'
           /\ \A q \in Starters \ {p} : \A f \in Locks : HasLooked(q, f) /\ file'[f] # file[f] => q \in overtaken'
           /\ p \in overtaken /\ run[p].step = "judge" /\ run'[p].step = "unlink" => p \in overtaken'
<1>1. ~crossed' => ~crossed /\ ~(p \in overtaken /\ Acts(p))
    BY Zenon DEF Remembers
<1>2. QED BY <1>1 DEF Remembers

\* A step of p that changes neither file nor tokens.
LEMMA MoveStep ==
    ASSUME HolderInv, NEW p \in Starters, NEW r \in Place,
           run' = [run EXCEPT ![p] = r], UNCHANGED <<file, tokens>>,
           judged' \in [Starters -> Starters], \A q \in Starters \ {p} : judged'[q] = judged[q],
           Fits(p, r, tokens[p]), ~crossed' => ~crossed /\ KnowsFile(p)',
           \A q \in Starters \ {p} : q \in overtaken => q \in overtaken'
    PROVE  HolderInv'
<1>1. /\ run' \in [Starters -> Place] /\ run'[p] = r
      /\ \A q \in Starters \ {p} : run'[q] = run[q]
    BY DEF HolderInv
<1>2. \A q \in Starters : Fits(q, run'[q], tokens'[q])
    BY <1>1 DEF HolderInv
<1>3. ~crossed' => \A q \in Starters : KnowsFile(q)'
    BY <1>1 DEF HolderInv, KnowsFile, On
<1>4. Fits(p, run[p], tokens[p])' /\ \A q \in Starters : Fits(q, run[q], tokens[q])'
    BY <1>2 DEF Fits, Base
<1>5. FilesOfLocks' /\ (~crossed' => HeldNamed')
    BY <1>1 DEF HolderInv, HeldNamed, FilesOfLocks, Named
<1>6. QED BY <1>1, <1>3, <1>4, <1>5 DEF HolderInv

\* ... and leaves it where nothing rests on what it has seen.
LEMMA LeaveStep ==
    ASSUME HolderInv, NEW p \in Starters, NEW r \in Place,
           run' = [run EXCEPT ![p] = r], UNCHANGED <<file, judged, tokens>>,
           Fits(p, r, tokens[p]), r.step \notin Relying, ~crossed' => ~crossed,
           \A q \in Starters \ {p} : q \in overtaken => q \in overtaken'
    PROVE  HolderInv'
<1>1. run'[p] = r
    BY DEF HolderInv
<1>2. KnowsFile(p)'
    BY <1>1 DEF KnowsFile, On, Relying
<1>3. QED BY <1>2, MoveStep DEF HolderInv

\* A step of p on a file that nobody else holds.
LEMMA FileStep ==
    ASSUME HolderInv, NEW p \in Starters, NEW r \in Place, NEW f \in Locks, NEW t \in SUBSET Locks, NEW x,
           run' = [run EXCEPT ![p] = r], tokens' = [tokens EXCEPT ![p] = t],
           file' = [file EXCEPT ![f] = x], UNCHANGED judged,
           x.state = "named" => \E q \in Starters : x = Named(q),
           Fits(p, r, t), t \subseteq tokens[p] \cup {f}, Remembers(p),
           ~crossed' => /\ KnowsFile(p)' /\ x # file[f]
                        /\ \A q \in Starters \ {p} : f \notin tokens[q]
                        /\ f \in t => x = Named(p)
    PROVE  HolderInv'
<1>1. /\ run' \in [Starters -> Place] /\ run'[p] = r
      /\ \A q \in Starters \ {p} : run'[q] = run[q]
      /\ tokens' \in [Starters -> SUBSET Locks] /\ tokens'[p] = t
      /\ \A q \in Starters \ {p} : tokens'[q] = tokens[q]
    BY DEF HolderInv
<1>0. FilesOfLocks' /\ file'[f] = x /\ \A g \in Locks \ {f} : file'[g] = file[g]
    BY FilesUpdated DEF HolderInv
<1>2. \A q \in Starters : Fits(q, run[q], tokens[q])'
  <2>1. \A q \in Starters : Fits(q, run'[q], tokens'[q])
      BY <1>0, <1>1 DEF HolderInv
  <2>2. QED BY <2>1 DEF Fits, Base
<1>3. \A g \in Locks : file'[g].state = "named" => \E q \in Starters : file'[g] = Named(q)
    BY <1>0, <1>1 DEF HolderInv
<1>4. ASSUME ~crossed' PROVE HeldNamed' /\ \A q \in Starters : KnowsFile(q)'
  <2>1. ~crossed /\ HeldNamed /\ \A q \in Starters : KnowsFile(q)
      BY <1>4, HistoryFacts DEF HolderInv
  <2>2. ASSUME NEW q \in Starters \ {p}, q \notin overtaken', NEW g \in Locks
        PROVE  /\ On(q, g, "write")' => file'[g] = Unwritten(q)
               /\ On(q, g, "judge")' => file'[g] = Named(judged'[q])
               /\ On(q, g, "unlink")' => /\ \A o \in Starters : g \notin tokens'[o]
                                        /\ (g = "workspace" => file'[g].state = "named")
               /\ On(q, g, "remove")' => file'[g] = Named(q)
    <3>1. q \notin overtaken
        BY <2>2, HistoryFacts
    <3>2. CASE g = f
      <4>1. ~HasLooked(q, f)
          BY <1>0, <1>1, <1>4, <2>2, HistoryFacts
      <4>2. QED BY <3>2, <4>1, <1>0, <1>1 DEF On, HasLooked
    <3>3. CASE g # f
      <4>1. \A o \in Starters : g \in tokens'[o] => g \in tokens[o]
          BY <3>3, <1>0, <1>1
      <4>2. QED BY <3>1, <3>3, <2>1, <1>0, <1>1, <4>1 DEF On, KnowsFile
    <3>4. QED BY <3>2, <3>3
  <2>3. \A q \in Starters \ {p} : KnowsFile(q)'
      BY <2>2 DEF KnowsFile, On
  <2>4. \A g \in tokens'[p] : file'[g] = Named(p)
      BY <1>0, <1>1, <1>4, <2>1 DEF HeldNamed
  <2>5. \A q \in Starters \ {p} : \A g \in tokens'[q] : file'[g] = Named(q)
      BY <1>0, <1>1, <1>4, <2>1 DEF HeldNamed, HolderInv
  <2>6. HeldNamed'
      BY <2>4, <2>5 DEF HeldNamed, Named
  <2>7. QED BY <1>4, <2>3, <2>6
<1>5. QED BY <1>0, <1>1, <1>2, <1>3, <1>4 DEF HolderInv

\* A file that names nobody is held by nobody, and one that names p by nobody else.
LEMMA NamedHolders ==
    ASSUME HolderInv, ~crossed, NEW f \in Locks
    PROVE  /\ (\A p \in Starters : file[f] # Named(p)) => \A q \in Starters : f \notin tokens[q]
           /\ \A p, q \in Starters : file[f] = Named(p) /\ f \in tokens[q] => p = q
BY FilesDiffer DEF HolderInv, HeldNamed

LEMMA GotFits ==
    ASSUME HolderInv, NEW p \in Starters, NEW f \in Locks, run[p].lock = f, run[p].step \in Acquiring
    PROVE  /\ Got(f) \in Place /\ Got(f).step \notin Relying
           /\ Fits(p, Got(f), tokens[p] \cup {f})
<1>1. Fits(p, run[p], tokens[p])
    BY DEF HolderInv
<1>2. CASE f = "workspace"
    BY <1>1, <1>2 DEF Got, Attempt, Fits, Place, Steps, Base, Relying, Acquiring, Releasing, Quiet, Locks, None
<1>3. CASE f = "daemon"
    BY <1>1, <1>3 DEF Got, Outside, Attempt, Fits, Place, Steps, Base, Relying, Acquiring, Releasing, Quiet, Locks, None
<1>4. CASE f = "lifecycle"
    BY <1>1, <1>4 DEF Got, Outside, Attempt, Fits, Place, Steps, Base, Relying, Acquiring, Releasing, Quiet, Locks, None
<1>5. QED BY <1>2, <1>3, <1>4 DEF Locks

LEMMA RefusedFits ==
    ASSUME HolderInv, NEW p \in Starters, NEW f \in Locks, run[p].lock = f, run[p].step \in Acquiring
    PROVE  /\ TurnedAway(p, f) \in Place /\ TurnedAway(p, f).step \notin Relying
           /\ Fits(p, TurnedAway(p, f), tokens[p])
<1>1. Fits(p, run[p], tokens[p])
    BY DEF HolderInv
<1>2. CASE f = "workspace"
    BY <1>1, <1>2 DEF TurnedAway, Outside, Attempt, Fits, Place, Steps, Base, Relying, Acquiring, Releasing, Quiet, Locks, None
<1>3. CASE f = "daemon"
    BY <1>1, <1>3 DEF TurnedAway, Attempt, Fits, Place, Steps, Base, Relying, Acquiring, Releasing, Quiet, Locks, None
<1>4. CASE f = "lifecycle"
  <2>1. tokens[p] = Base(p) /\ TurnedAway(p, f) = Home(p)
      BY <1>1, <1>4 DEF Fits, TurnedAway, Acquiring, Releasing
  <2>2. QED BY <2>1 DEF Home, Outside, Attempt, Fits, Place, Steps, Base, Relying, Acquiring, Releasing, Quiet, None
<1>5. QED BY <1>2, <1>3, <1>4 DEF Locks

LEMMA FreedFits ==
    ASSUME HolderInv, NEW p \in Starters, NEW f \in Locks, run[p].lock = f, run[p].step \in Releasing
    PROVE  /\ Freed(p, f) \in Place /\ Freed(p, f).step \notin Relying
           /\ f \in tokens[p] /\ Fits(p, Freed(p, f), tokens[p] \ {f})
<1>1. Fits(p, run[p], tokens[p])
    BY DEF HolderInv
<1>2. CASE f = "workspace"
    BY <1>1, <1>2 DEF Freed, Outside, Attempt, Fits, Place, Steps, Base, Relying, Acquiring, Releasing, Quiet, Locks, None
<1>3. CASE f = "daemon"
    BY <1>1, <1>3 DEF Freed, Attempt, Fits, Place, Steps, Base, Relying, Acquiring, Releasing, Quiet, Locks, None
<1>4. CASE f = "lifecycle"
  <2>1. tokens[p] = Base(p) \cup {"lifecycle"} /\ Freed(p, f) = Home(p)
      BY <1>1, <1>4 DEF Fits, Freed
  <2>2. QED BY <2>1, <1>4 DEF Home, Outside, Attempt, Fits, Place, Steps, Base, Relying, Acquiring, Releasing, Quiet, None
<1>5. QED BY <1>2, <1>3, <1>4 DEF Locks

LEMMA AgainFits ==
    ASSUME HolderInv, NEW p \in Starters, run[p].lock \in Locks, run[p].step \in Acquiring
    PROVE  /\ Again(p) \in Place /\ Again(p).step \notin Relying
           /\ Fits(p, Again(p), tokens[p])
<1>1. CASE run[p].try = 1
  <2>1. /\ Again(p) = Attempt("try", run[p].lock, 2) /\ Again(p).step = "try"
        /\ Again(p).lock = run[p].lock /\ Again(p) \in Place
      BY <1>1 DEF Again, Attempt, Place, Steps, Acquiring
  <2>2. QED BY <2>1 DEF HolderInv, Fits, Relying, Acquiring, Releasing, Quiet
<1>2. CASE run[p].try # 1
    BY <1>2, RefusedFits DEF Again
<1>3. QED BY <1>1, <1>2

LEMMA QuietStep ==
    ASSUME HolderInv, NEW p \in Starters,
           Launch(p) \/ Iterate(p) \/ Shutdown(p) \/ (EndStages(p) /\ Remembers(p))
    PROVE  HolderInv'
<1> USE DEF Attempt, Place, Steps, Acquiring, Releasing, Relying, Locks
<1>1. Fits(p, run[p], tokens[p])
    BY DEF HolderInv
<1>2. CASE Launch(p)
  <2> DEFINE r == Attempt("try", IF p \in Daemons THEN "workspace" ELSE "lifecycle", 1)
  <2>1. /\ r \in Place /\ r.step = "try"
        /\ r.lock = IF p \in Daemons THEN "workspace" ELSE "lifecycle"
      OBVIOUS
  <2>2. Fits(p, r, tokens[p])
      BY <1>1, <1>2, <2>1 DEF Launch, Fits, Base, Quiet, None
  <2>3. QED BY <1>2, <2>1, <2>2, LeaveStep DEF Launch, Become
<1>3. CASE Iterate(p)
  <2> DEFINE r == Attempt("try", "lifecycle", 1)
  <2>1. r \in Place /\ r.step \notin Relying /\ Fits(p, r, tokens[p])
      BY <1>1, <1>3 DEF Iterate, Fits, Base, Quiet, None
  <2>2. QED BY <1>3, <2>1, LeaveStep DEF Iterate, Become
<1>4. CASE EndStages(p) /\ Remembers(p)
  <2> DEFINE r == Attempt("check", "lifecycle", 0)
  <2>1. r \in Place /\ r.step \notin Relying /\ Fits(p, r, tokens[p])
      BY <1>1, <1>4 DEF EndStages, Fits, Base, Quiet, None
  <2>2. QED BY <1>4, <2>1, LeaveStep, HistoryFacts DEF EndStages, Become
<1>5. CASE Shutdown(p)
  <2> DEFINE r == Attempt("check", "daemon", 0)
  <2>1. r \in Place /\ r.step \notin Relying /\ Fits(p, r, tokens[p])
      BY <1>1, <1>5 DEF Shutdown, Fits, Base, Quiet, None
  <2>2. QED BY <1>5, <2>1, LeaveStep DEF Shutdown, Become
<1>6. QED BY <1>2, <1>3, <1>4, <1>5

LEMMA CreateStep == ASSUME HolderInv, NEW p \in Starters, NEW f \in Locks, Create(p, f), Remembers(p) PROVE HolderInv'
<1>1. CASE file[f] = Missing
  <2> DEFINE r == [run[p] EXCEPT !.step = "write"]
  <2>1. r \in Place /\ r.step = "write" /\ r.lock = f
      BY ToFields DEF Create, On, Steps, Acquiring
  <2>2. /\ run' = [run EXCEPT ![p] = r] /\ tokens' = [tokens EXCEPT ![p] = tokens[p]]
        /\ file' = [file EXCEPT ![f] = Unwritten(p)] /\ UNCHANGED judged
      BY <1>1 DEF Create, To, Become, HolderInv
  <2> HIDE DEF r
  <2>3. Fits(p, r, tokens[p])
      BY <2>1 DEF HolderInv, Fits, Create, On, Quiet, Acquiring, Releasing
  <2>4. ~crossed' => \A q \in Starters : f \notin tokens[q]
      BY <1>1, FilesDiffer, NamedHolders, HistoryFacts
  <2>5. KnowsFile(p)'
    <3>1. run'[p] = r /\ file'[f] = Unwritten(p)
        BY <2>2, FilesUpdated DEF HolderInv
    <3>2. QED BY <2>1, <3>1 DEF KnowsFile, On
  <2>6. Unwritten(p).state # "named" /\ Unwritten(p) # file[f] /\ tokens[p] \in SUBSET Locks
      BY <1>1, FilesDiffer DEF HolderInv
  <2>7. QED BY <2>1, <2>2, <2>3, <2>4, <2>5, <2>6, FileStep
<1>2. CASE file[f] # Missing
  <2> DEFINE r == [run[p] EXCEPT !.step = "read"]
  <2>1. r \in Place /\ r.step = "read" /\ r.step \notin Relying
      BY ToFields DEF Steps, Acquiring, Relying
  <2>2. run' = [run EXCEPT ![p] = r] /\ UNCHANGED <<file, judged, tokens>>
      BY <1>2 DEF Create, To, Become
  <2>3. r.lock = f
      BY ToFields DEF Create, On, Steps, Acquiring
  <2> HIDE DEF r
  <2>4. Fits(p, r, tokens[p])
      BY <2>1, <2>3 DEF HolderInv, Fits, Create, On, Quiet, Acquiring, Releasing
  <2>5. QED BY <2>1, <2>2, <2>4, LeaveStep, HistoryFacts
<1>3. QED BY <1>1, <1>2

LEMMA WriteStep == ASSUME HolderInv, NEW p \in Starters, NEW f \in Locks, WriteOwner(p, f), Remembers(p) PROVE HolderInv'
<1> DEFINE t == tokens[p] \cup {f}
           x == IF file[f] = Unwritten(p) THEN Named(p) ELSE file[f]
<1>1. run[p].lock = f /\ run[p].step = "write" /\ Acts(p)
    BY DEF WriteOwner, On, Acts
<1>2. ~crossed' => file[f] = Unwritten(p) /\ x = Named(p) /\ x # file[f]
    BY <1>1, HistoryFacts, FilesDiffer DEF HolderInv, KnowsFile, On
<1>3. /\ run' = [run EXCEPT ![p] = Got(f)] /\ tokens' = [tokens EXCEPT ![p] = t]
      /\ file' = [file EXCEPT ![f] = x] /\ UNCHANGED judged
    BY DEF WriteOwner, Become, HolderInv
<1>4. x.state = "named" => \E q \in Starters : x = Named(q)
    BY DEF HolderInv
<1>5. ~crossed' => \A q \in Starters : f \notin tokens[q]
    BY <1>2, FilesDiffer, NamedHolders, HistoryFacts
<1>6. Got(f) \in Place /\ Got(f).step \notin Relying /\ Fits(p, Got(f), t)
    BY <1>1, GotFits DEF Acquiring
<1>7. KnowsFile(p)'
    BY <1>3, <1>6 DEF HolderInv, KnowsFile, On, Relying
<1>8. t \in SUBSET Locks /\ t \subseteq tokens[p] \cup {f}
    BY DEF HolderInv
<1> HIDE DEF t, x
<1>9. QED BY <1>2, <1>3, <1>4, <1>5, <1>6, <1>7, <1>8, FileStep

LEMMA ReadOwnerStep == ASSUME HolderInv, NEW p \in Starters, NEW f \in Locks, ReadOwner(p, f), Remembers(p) PROVE HolderInv'
<1> DEFINE r == [run[p] EXCEPT !.step = "judge"]
<1>1. r \in Place /\ r.step = "judge" /\ r.lock = f /\ run[p].lock = f /\ run[p].step \in {"read", "try"}
    BY ToFields DEF ReadOwner, Reads, On, Steps, Acquiring
<1>2. run' = [run EXCEPT ![p] = r] /\ UNCHANGED <<file, tokens>> /\ judged' = [judged EXCEPT ![p] = file[f].owner]
    BY DEF ReadOwner, To, Become
<1>3. PICK q \in Starters : file[f] = Named(q)
    BY DEF ReadOwner, HolderInv
<1>4. judged' \in [Starters -> Starters] /\ file[f] = Named(judged'[p]) /\ \A o \in Starters \ {p} : judged'[o] = judged[o]
    BY <1>2, <1>3, FilesDiffer DEF HolderInv
<1> HIDE DEF r
<1>5. Fits(p, r, tokens[p])
    BY <1>1 DEF HolderInv, Fits, Quiet, Acquiring, Releasing
<1>6. KnowsFile(p)'
  <2>1. run'[p].step = "judge" /\ run'[p].lock = f
      BY <1>1, <1>2 DEF HolderInv
  <2>2. file'[f] = Named(judged'[p])
      BY <1>2, <1>4
  <2>3. QED BY <2>1, <2>2 DEF KnowsFile, On
<1>7. QED BY <1>1, <1>2, <1>4, <1>5, <1>6, MoveStep, HistoryFacts

LEMMA ReadNothingStep == ASSUME HolderInv, NEW p \in Starters, NEW f \in Locks, ReadNothing(p, f), Remembers(p) PROVE HolderInv'
<1>1. run[p].lock = f /\ run[p].step \in {"read", "try"} /\ Fits(p, run[p], tokens[p])
    BY DEF ReadNothing, Reads, On, HolderInv
<1>2. CASE f = "workspace"
    BY <1>1, <1>2, RefusedFits, LeaveStep, HistoryFacts DEF ReadNothing, Become, Acquiring
<1>3. CASE f = "lifecycle"
  <2> DEFINE r == [run[p] EXCEPT !.step = "unlink"]
  <2>1. r \in Place /\ r.step = "unlink" /\ r.lock = f
      BY <1>1, ToFields DEF Steps, Acquiring
  <2>2. run' = [run EXCEPT ![p] = r] /\ UNCHANGED <<file, judged, tokens>>
      BY <1>3 DEF ReadNothing, To, Become
  <2> HIDE DEF r
  <2>3. Fits(p, r, tokens[p])
      BY <1>1, <2>1 DEF Fits, Quiet, Acquiring, Releasing
  <2>4. ~crossed => \A q \in Starters : f \notin tokens[q]
      BY FilesDiffer, NamedHolders DEF ReadNothing
  <2>5. ~crossed' => ~crossed /\ KnowsFile(p)'
    <3>1. run'[p] = r /\ f # "workspace"
        BY <1>3, <2>2 DEF HolderInv
    <3>2. QED BY <2>1, <2>2, <2>4, <3>1, HistoryFacts DEF KnowsFile, On
  <2>6. QED BY <2>1, <2>2, <2>3, <2>5, MoveStep, HistoryFacts DEF HolderInv
<1>4. CASE f = "daemon"
  <2> DEFINE r == [run[p] EXCEPT !.step = "link"]
  <2>1. r \in Place /\ r.step = "link" /\ r.lock = f /\ r.step \notin Relying
      BY <1>1, ToFields DEF Steps, Acquiring, Relying
  <2>2. run' = [run EXCEPT ![p] = r] /\ UNCHANGED <<file, judged, tokens>>
      BY <1>4 DEF ReadNothing, To, Become
  <2> HIDE DEF r
  <2>3. Fits(p, r, tokens[p])
      BY <1>1, <1>4, <2>1 DEF Fits, Quiet, Acquiring, Releasing
  <2>4. QED BY <2>1, <2>2, <2>3, LeaveStep, HistoryFacts
<1>5. QED BY <1>2, <1>3, <1>4 DEF Locks

LEMMA PublishStep == ASSUME HolderInv, NEW p \in Starters, Publish(p), Remembers(p) PROVE HolderInv'
<1>1. run[p].lock = "daemon" /\ run[p].step = "link" /\ "daemon" \in Locks
    BY DEF Publish, On, Locks
<1>2. CASE file["daemon"] = Missing
  <2> DEFINE t == tokens[p] \cup {"daemon"}
  <2>1. /\ run' = [run EXCEPT ![p] = Got("daemon")] /\ tokens' = [tokens EXCEPT ![p] = t]
        /\ file' = [file EXCEPT !["daemon"] = Named(p)] /\ UNCHANGED judged
      BY <1>2 DEF Publish, Become, HolderInv
  <2>2. ~crossed' => \A q \in Starters : "daemon" \notin tokens[q]
      BY <1>1, <1>2, FilesDiffer, NamedHolders, HistoryFacts
  <2>3. Got("daemon") \in Place /\ Got("daemon").step \notin Relying /\ Fits(p, Got("daemon"), t)
      BY <1>1, GotFits DEF Acquiring
  <2>4. KnowsFile(p)'
      BY <2>1, <2>3 DEF HolderInv, KnowsFile, On, Relying
  <2>5. t \in SUBSET Locks /\ t \subseteq tokens[p] \cup {"daemon"} /\ Named(p) # file["daemon"]
      BY <1>1, <1>2, FilesDiffer DEF HolderInv
  <2> HIDE DEF t
  <2>6. QED BY <1>1, <2>1, <2>2, <2>3, <2>4, <2>5, FileStep
<1>3. CASE file["daemon"] # Missing
    BY <1>1, <1>3, AgainFits, LeaveStep, HistoryFacts DEF Publish, Become, Acquiring
<1>4. QED BY <1>2, <1>3

LEMMA JudgeStep == ASSUME HolderInv, NEW p \in Starters, NEW f \in Locks, JudgeOwner(p, f), Remembers(p) PROVE HolderInv'
<1>1. run[p].lock = f /\ run[p].step = "judge" /\ Fits(p, run[p], tokens[p])
    BY DEF JudgeOwner, On, HolderInv
<1>2. CASE Exists(judged[p])
    BY <1>1, <1>2, RefusedFits, LeaveStep, HistoryFacts DEF JudgeOwner, Become, Acquiring
<1>3. CASE ~Exists(judged[p])
  <2> DEFINE r == [run[p] EXCEPT !.step = "unlink"]
  <2>1. r \in Place /\ r.step = "unlink" /\ r.lock = f
      BY <1>1, ToFields DEF Steps, Acquiring
  <2>2. run' = [run EXCEPT ![p] = r] /\ UNCHANGED <<file, judged, tokens>>
      BY <1>3 DEF JudgeOwner, To, Become
  <2> HIDE DEF r
  <2>3. Fits(p, r, tokens[p])
      BY <1>1, <2>1 DEF Fits, Quiet, Acquiring, Releasing
  <2>4. run'[p] = r
      BY <2>2 DEF HolderInv
  <2>5. ASSUME ~crossed', p \notin overtaken'
        PROVE  (\A q \in Starters : f \notin tokens[q]) /\ file[f].state = "named"
    <3>1. ~crossed /\ p \notin overtaken
        BY <2>5, <2>1, <2>4, <1>1, HistoryFacts
    <3>2. file[f] = Named(judged[p])
        BY <1>1, <3>1 DEF HolderInv, KnowsFile, On
    <3>3. judged[p] \in Starters /\ tokens[judged[p]] = {}
        BY <1>3 DEF HolderInv, Fits, Exists
    <3>4. QED BY <3>1, <3>2, <3>3, NamedHolders, FilesDiffer
  <2>6. ~crossed' => ~crossed /\ KnowsFile(p)'
      BY <2>1, <2>2, <2>4, <2>5, HistoryFacts DEF KnowsFile, On
  <2>7. QED BY <2>1, <2>2, <2>3, <2>6, MoveStep, HistoryFacts DEF HolderInv
<1>4. QED BY <1>2, <1>3

LEMMA UnlinkStep == ASSUME HolderInv, NEW p \in Starters, NEW f \in Locks, Unlink(p, f), Remembers(p) PROVE HolderInv'
<1>1. run[p].lock = f /\ run[p].step = "unlink"
    BY DEF Unlink, On
<1>2. /\ run' = [run EXCEPT ![p] = Again(p)] /\ tokens' = [tokens EXCEPT ![p] = tokens[p]] /\ UNCHANGED tokens
      /\ file' = [file EXCEPT ![f] = Missing] /\ UNCHANGED judged
    BY DEF Unlink, Become, HolderInv
<1>3. Again(p) \in Place /\ Again(p).step \notin Relying /\ Fits(p, Again(p), tokens[p])
    BY <1>1, AgainFits DEF Acquiring
<1>4. CASE file[f] = Missing
  <2>1. UNCHANGED file
      BY <1>2, <1>4, FilesKept DEF HolderInv
  <2>2. QED BY <1>2, <1>3, <2>1, LeaveStep, HistoryFacts
<1>5. CASE file[f] # Missing
  <2>1. Acts(p)
      BY <1>1, <1>5 DEF Acts
  <2>2. ~crossed' => \A q \in Starters : f \notin tokens[q]
      BY <1>1, <2>1, HistoryFacts DEF HolderInv, KnowsFile, On
  <2>3. KnowsFile(p)'
      BY <1>2, <1>3 DEF HolderInv, KnowsFile, On, Relying
  <2>4. Missing.state # "named" /\ tokens[p] \in SUBSET Locks
      BY DEF Missing, HolderInv
  <2>5. QED BY <1>2, <1>3, <1>5, <2>2, <2>3, <2>4, FileStep
<1>6. QED BY <1>4, <1>5

LEMMA CheckStep == ASSUME HolderInv, NEW p \in Starters, NEW f \in Locks, ReleaseCheck(p, f), Remembers(p) PROVE HolderInv'
<1>1. run[p].lock = f /\ run[p].step = "check" /\ Fits(p, run[p], tokens[p])
    BY DEF ReleaseCheck, On, HolderInv
<1>2. CASE file[f] = Named(p)
  <2> DEFINE r == [run[p] EXCEPT !.step = "remove"]
  <2>1. r \in Place /\ r.step = "remove" /\ r.lock = f
      BY <1>1, ToFields DEF Steps, Releasing
  <2>2. run' = [run EXCEPT ![p] = r] /\ UNCHANGED <<file, judged, tokens>>
      BY <1>2 DEF ReleaseCheck, To, Become
  <2> HIDE DEF r
  <2>3. Fits(p, r, tokens[p])
      BY <1>1, <2>1 DEF Fits, Quiet, Acquiring, Releasing
  <2>4. KnowsFile(p)'
      BY <1>2, <2>1, <2>2 DEF HolderInv, KnowsFile, On
  <2>5. QED BY <2>1, <2>2, <2>3, <2>4, MoveStep, HistoryFacts DEF HolderInv
<1>3. CASE file[f] # Named(p)
  <2> DEFINE t == tokens[p] \ {f}
             x == file[f]
  <2>1. f \in tokens[p] /\ Freed(p, f) \in Place /\ Fits(p, Freed(p, f), t)
      BY <1>1, FreedFits DEF Releasing
  <2>2. crossed
      BY <1>3, <2>1 DEF HolderInv, HeldNamed
  <2>3. crossed'
      BY <2>2, HistoryFacts
  <2>4. /\ run' = [run EXCEPT ![p] = Freed(p, f)] /\ tokens' = [tokens EXCEPT ![p] = t]
        /\ file' = [file EXCEPT ![f] = x] /\ UNCHANGED judged
      BY <1>3, FilesKept DEF ReleaseCheck, Become, HolderInv
  <2>5. t \in SUBSET Locks /\ t \subseteq tokens[p] \cup {f} /\ (x.state = "named" => \E q \in Starters : x = Named(q))
      BY DEF HolderInv
  <2> HIDE DEF t, x
  <2>6. QED BY <2>1, <2>3, <2>4, <2>5, FileStep
<1>4. QED BY <1>2, <1>3

LEMMA RemoveStep == ASSUME HolderInv, NEW p \in Starters, NEW f \in Locks, Remove(p, f), Remembers(p) PROVE HolderInv'
<1> DEFINE t == tokens[p] \ {f}
<1>1. run[p].lock = f /\ run[p].step = "remove"
    BY DEF Remove, On
<1>2. /\ run' = [run EXCEPT ![p] = Freed(p, f)] /\ tokens' = [tokens EXCEPT ![p] = t]
      /\ file' = [file EXCEPT ![f] = Missing] /\ UNCHANGED judged
    BY DEF Remove, Become, HolderInv
<1>3. f \in tokens[p] /\ Freed(p, f) \in Place /\ Freed(p, f).step \notin Relying /\ Fits(p, Freed(p, f), t)
    BY <1>1, FreedFits DEF Releasing
<1>4. ~crossed' => file[f] = Named(p) /\ Missing # file[f] /\ \A q \in Starters \ {p} : f \notin tokens[q]
  <2> SUFFICES ASSUME ~crossed' PROVE file[f] = Named(p) /\ Missing # file[f] /\ \A q \in Starters \ {p} : f \notin tokens[q]
      OBVIOUS
  <2>1. ~crossed
      BY HistoryFacts
  <2>2. file[f] = Named(p)
      BY <1>3, <2>1 DEF HolderInv, HeldNamed
  <2>3. QED BY <2>1, <2>2, NamedHolders, FilesDiffer
<1>5. KnowsFile(p)'
    BY <1>2, <1>3 DEF HolderInv, KnowsFile, On, Relying
<1>6. Missing.state # "named" /\ t \in SUBSET Locks /\ t \subseteq tokens[p] \cup {f} /\ f \notin t
    BY DEF Missing, HolderInv
<1> HIDE DEF t
<1>7. QED BY <1>2, <1>3, <1>4, <1>5, <1>6, FileStep

LEMMA KillStep == ASSUME HolderInv, NEW p \in Starters, Kill(p) PROVE HolderInv'
<1> DEFINE r == Outside("dead")
<1>1. r \in Place /\ r.step = "dead" /\ r.lock = None
    BY OutsideFields DEF Quiet
<1>2. /\ run' = [run EXCEPT ![p] = r] /\ tokens' = [tokens EXCEPT ![p] = {}]
      /\ UNCHANGED <<file, judged, overtaken, crossed>>
    BY DEF Kill, Become
<1> HIDE DEF r
<1>3. /\ run' \in [Starters -> Place] /\ run'[p] = r
      /\ tokens' \in [Starters -> SUBSET Locks] /\ tokens'[p] = {}
      /\ \A q \in Starters \ {p} : run'[q] = run[q] /\ tokens'[q] = tokens[q]
    BY <1>1, <1>2 DEF HolderInv
<1>4. \A q \in Starters : Fits(q, run[q], tokens[q])'
  <2>1. Fits(p, run'[p], tokens'[p])
      BY <1>1, <1>3 DEF Fits, Quiet, None, Locks
  <2>2. \A q \in Starters \ {p} : Fits(q, run'[q], tokens'[q])
      BY <1>3 DEF HolderInv
  <2>3. QED BY <2>1, <2>2 DEF Fits, Base
<1>5. ~crossed' => \A q \in Starters : KnowsFile(q)'
    BY <1>1, <1>2, <1>3 DEF HolderInv, KnowsFile, On
<1>6. FilesOfLocks' /\ (~crossed' => HeldNamed')
    BY <1>2, <1>3, ZenonT(60) DEF HolderInv, HeldNamed, Named, FilesOfLocks
<1>7. QED BY <1>2, <1>3, <1>4, <1>5, <1>6 DEF HolderInv

LEMMA HolderStep == ASSUME HolderInv, [OwnersNext]_ownerVars PROVE HolderInv'
<1>1. CASE UNCHANGED ownerVars
  <2>1. /\ file' = file /\ run' = run /\ judged' = judged /\ tokens' = tokens
        /\ overtaken' = overtaken /\ crossed' = crossed
      BY <1>1 DEF ownerVars
  <2>2. FilesOfLocks' /\ \A p \in Starters : Fits(p, run[p], tokens[p])'
      BY <2>1 DEF HolderInv, FilesOfLocks, Fits, Base
  <2>3. ~crossed' => HeldNamed' /\ \A p \in Starters : KnowsFile(p)'
      BY <2>1 DEF HolderInv, HeldNamed, KnowsFile, On, Named
  <2>4. QED BY <2>1, <2>2, <2>3 DEF HolderInv
<1>2. ASSUME NEW p \in Starters, NEW f \in Locks, Remembers(p),
             \/ Create(p, f) \/ WriteOwner(p, f) \/ ReadOwner(p, f) \/ ReadNothing(p, f)
             \/ JudgeOwner(p, f) \/ Unlink(p, f) \/ ReleaseCheck(p, f) \/ Remove(p, f)
      PROVE  HolderInv'
    BY <1>2, CreateStep, WriteStep, ReadOwnerStep, ReadNothingStep, JudgeStep, UnlinkStep, CheckStep, RemoveStep
<1>3. QED BY <1>1, <1>2, QuietStep, PublishStep, KillStep DEF OwnersNext, Proceed, Operates

\* Until a call acts on a file that another has changed since it looked, whoever has a token is
\* named by the file, however calls overlap and whoever is killed: a takeover never removes the
\* file of a live holder otherwise.
THEOREM HolderAlwaysNamed == OwnersSpec => []HolderIsNamed
<1>1. OwnersInit => HolderInv
    BY HolderInitial
<1>2. HolderInv /\ [OwnersNext]_ownerVars => HolderInv'
    BY HolderStep
<1>3. HolderInv => HolderIsNamed
    BY DEF HolderInv, HeldNamed, HolderIsNamed
<1>4. QED BY <1>1, <1>2, <1>3, PTL DEF OwnersSpec

\* Hence there is one resident daemon at most: the crossing of two calls is the only way to two.
THEOREM DaemonIsAlone == OwnersSpec => [](~crossed => OneDaemon)
<1>1. HolderIsNamed => (~crossed => OneDaemon)
    BY FilesDiffer DEF HolderIsNamed, OneDaemon
<1>2. QED BY <1>1, HolderAlwaysNamed, PTL

-----------------------------------------------------------------------------
(* Type correctness. *)

Places ==
    [step : {"off", "dead", "loop", "stages", "try", "write", "read", "judge", "link",
             "unlink", "check", "remove"},
     lock : Locks \cup {None}, try : 0 .. 2]

LEMMA AttemptPlace ==
    ASSUME NEW s \in {"try", "check"}, NEW f \in Locks, NEW n \in 0 .. 2
    PROVE  Attempt(s, f, n) \in Places
BY DEF Attempt, Places

LEMMA OutsidePlace == ASSUME NEW s \in Quiet PROVE Outside(s) \in Places
BY DEF Outside, Attempt, Places, Quiet

LEMMA HomePlace == ASSUME NEW p PROVE Home(p) \in Places
BY OutsidePlace DEF Home, Quiet

LEMMA NextPlaces ==
    ASSUME NEW p, NEW f \in Locks
    PROVE  Got(f) \in Places /\ TurnedAway(p, f) \in Places /\ Freed(p, f) \in Places
<1>1. Attempt("try", "daemon", 1) \in Places /\ Attempt("check", "workspace", 0) \in Places
    BY AttemptPlace DEF Locks
<1>2. Outside("loop") \in Places /\ Outside("stages") \in Places /\ Outside("off") \in Places
    BY OutsidePlace DEF Quiet
<1>3. f = "workspace" \/ f = "daemon" \/ f = "lifecycle"
    BY DEF Locks
<1>4. QED BY <1>1, <1>2, <1>3, HomePlace DEF Got, TurnedAway, Freed

LEMMA StepPlace ==
    ASSUME OwnersTypeOK, NEW p \in Starters,
           NEW s \in {"write", "read", "judge", "link", "unlink", "remove"}
    PROVE  [run[p] EXCEPT !.step = s] \in Places
<1>1. run[p] \in Places
    BY DEF OwnersTypeOK, Places
<1>2. QED BY <1>1 DEF Places

LEMMA AgainPlace ==
    ASSUME OwnersTypeOK, NEW p \in Starters, run[p].lock \in Locks PROVE Again(p) \in Places
BY AttemptPlace, NextPlaces DEF Again

Files == {Missing} \cup {Unwritten(p) : p \in Starters} \cup {Named(p) : p \in Starters}

LEMMA UpdateType ==
    ASSUME NEW D, NEW R, NEW g \in [D -> R], NEW d, NEW v \in R
    PROVE  [g EXCEPT ![d] = v] \in [D -> R]
OBVIOUS

\* A step of p: its place, and the file, reading and tokens it leaves.
LEMMA TypedStep ==
    ASSUME OwnersTypeOK, NEW p \in Starters, NEW r \in Places, Become(p, r),
           \/ UNCHANGED file
           \/ \E f \in Locks : \E x \in {Missing, Unwritten(p), Named(p), file[f]} : file' = [file EXCEPT ![f] = x],
           UNCHANGED judged \/ \E q \in Starters : judged' = [judged EXCEPT ![p] = q],
           UNCHANGED tokens \/ \E t \in SUBSET Locks : tokens' = [tokens EXCEPT ![p] = t],
           overtaken' \subseteq Starters /\ crossed' \in BOOLEAN
    PROVE  OwnersTypeOK'
<1>1. run' \in [Starters -> Places]
    BY DEF OwnersTypeOK, Become, Places
<1>2. judged' \in [Starters -> Starters]
    BY UpdateType DEF OwnersTypeOK
<1>3. tokens' \in [Starters -> SUBSET Locks]
  <2>1. tokens \in [Starters -> SUBSET Locks]
      BY DEF OwnersTypeOK
  <2>2. QED BY <2>1, UpdateType
<1>4. file' \in [Locks -> Files]
  <2>1. file \in [Locks -> Files]
      BY DEF OwnersTypeOK, Files
  <2>2. Missing \in Files /\ Unwritten(p) \in Files /\ Named(p) \in Files
      BY DEF Files
  <2>3. ASSUME NEW f \in Locks, NEW x \in {Missing, Unwritten(p), Named(p), file[f]},
               file' = [file EXCEPT ![f] = x]
        PROVE  file' \in [Locks -> Files]
      BY <2>1, <2>2, <2>3, UpdateType
  <2>4. QED BY <2>1, <2>3
<1>5. QED BY <1>1, <1>2, <1>3, <1>4 DEF OwnersTypeOK, Places, Files

LEMMA TypeInitial == OwnersInit => OwnersTypeOK
<1>1. Outside("off") \in Places
    BY OutsidePlace DEF Quiet
<1>2. OwnersInit => overtaken \subseteq Starters /\ crossed \in BOOLEAN
    BY Zenon DEF OwnersInit
<1>3. OwnersInit => /\ file \in [Locks -> {Missing} \cup {Unwritten(p) : p \in Starters} \cup {Named(p) : p \in Starters}]
                    /\ run \in [Starters -> Places]
                    /\ judged \in [Starters -> Starters]
                    /\ tokens \in [Starters -> SUBSET Locks]
    BY <1>1 DEF OwnersInit
<1>4. QED BY <1>2, <1>3 DEF OwnersTypeOK, Places

LEMMA TypedNext == OwnersTypeOK /\ [OwnersNext]_ownerVars => OwnersTypeOK'
<1> SUFFICES ASSUME OwnersTypeOK, [OwnersNext]_ownerVars PROVE OwnersTypeOK'
    OBVIOUS
<1>t. \A p \in Starters : tokens[p] \in SUBSET Locks
    BY DEF OwnersTypeOK
<1>h. overtaken' \subseteq Starters /\ crossed' \in BOOLEAN
  <2>1. overtaken \subseteq Starters /\ crossed \in BOOLEAN
      BY DEF OwnersTypeOK
  <2>2. CASE \E p \in Starters : Remembers(p)
      BY <2>2, Zenon DEF Remembers
  <2>3. CASE UNCHANGED <<overtaken, crossed>>
      BY <2>1, <2>3
  <2>4. QED BY <2>2, <2>3 DEF ownerVars, OwnersNext, Launch, Iterate, Shutdown, Kill, Proceed
<1>1. CASE UNCHANGED ownerVars
    BY <1>1 DEF ownerVars, OwnersTypeOK
<1>2. ASSUME NEW p \in Starters, Launch(p) \/ Iterate(p) PROVE OwnersTypeOK'
  <2>1. /\ Attempt("try", "workspace", 1) \in Places
        /\ Attempt("try", "lifecycle", 1) \in Places
      BY AttemptPlace DEF Locks
  <2>2. QED BY <1>2, <2>1, <1>h, TypedStep DEF Launch, Iterate
<1>3. ASSUME NEW p \in Starters, Shutdown(p) \/ EndStages(p) PROVE OwnersTypeOK'
  <2>1. Attempt("check", "daemon", 0) \in Places /\ Attempt("check", "lifecycle", 0) \in Places
      BY AttemptPlace DEF Locks
  <2>2. QED BY <1>3, <2>1, <1>h, TypedStep DEF Shutdown, EndStages
<1>4. ASSUME NEW p \in Starters, Kill(p) PROVE OwnersTypeOK'
  <2>1. Outside("dead") \in Places
      BY OutsidePlace DEF Quiet
  <2>2. QED BY <1>4, <2>1, <1>h, TypedStep DEF Kill
<1>5. ASSUME NEW p \in Starters, Publish(p) PROVE OwnersTypeOK'
  <2>1. "daemon" \in Locks /\ run[p].lock = "daemon"
      BY <1>5 DEF Publish, On, Locks
  <2>2. Got("daemon") \in Places /\ Again(p) \in Places
      BY <2>1, NextPlaces, AgainPlace
  <2>3. tokens[p] \cup {"daemon"} \in SUBSET Locks
      BY <1>t, <2>1
  <2>4. QED BY <1>5, <2>1, <2>2, <2>3, <1>h, TypedStep DEF Publish
<1>6. ASSUME NEW p \in Starters, NEW f \in Locks, Create(p, f) PROVE OwnersTypeOK'
  <2>1. UNCHANGED <<judged, tokens>> /\ (UNCHANGED file \/ file' = [file EXCEPT ![f] = Unwritten(p)])
      BY <1>6 DEF Create
  <2>2. \E s \in {"write", "read"} : Become(p, [run[p] EXCEPT !.step = s])
      BY <1>6 DEF Create, To
  <2>3. QED BY <2>1, <2>2, StepPlace, <1>h, TypedStep
<1>7. ASSUME NEW p \in Starters, NEW f \in Locks, WriteOwner(p, f) PROVE OwnersTypeOK'
  <2>1. \E x \in {Named(p), file[f]} : file' = [file EXCEPT ![f] = x]
      BY <1>7 DEF WriteOwner
  <2>2. tokens[p] \cup {f} \in SUBSET Locks /\ Got(f) \in Places
      BY <1>t, NextPlaces
  <2>3. QED BY <1>7, <2>1, <2>2, <1>h, TypedStep DEF WriteOwner
<1>8. ASSUME NEW p \in Starters, NEW f \in Locks, ReadOwner(p, f) PROVE OwnersTypeOK'
  <2>1. file[f].owner \in Starters
      BY <1>8, FilesDiffer DEF ReadOwner, OwnersTypeOK
  <2>2. [run[p] EXCEPT !.step = "judge"] \in Places
      BY StepPlace
  <2>3. QED BY <1>8, <2>1, <2>2, <1>h, TypedStep DEF ReadOwner, To
<1>9. ASSUME NEW p \in Starters, NEW f \in Locks, ReadNothing(p, f) PROVE OwnersTypeOK'
  <2>1. PICK r \in Places : Become(p, r)
    <3>1. TurnedAway(p, f) \in Places
        BY NextPlaces
    <3>2. [run[p] EXCEPT !.step = "unlink"] \in Places /\ [run[p] EXCEPT !.step = "link"] \in Places
        BY StepPlace
    <3>3. QED BY <1>9, <3>1, <3>2 DEF ReadNothing, To, Locks
  <2>2. QED BY <1>9, <2>1, <1>h, TypedStep DEF ReadNothing
<1>10. ASSUME NEW p \in Starters, NEW f \in Locks, JudgeOwner(p, f) PROVE OwnersTypeOK'
  <2>1. TurnedAway(p, f) \in Places /\ [run[p] EXCEPT !.step = "unlink"] \in Places
      BY NextPlaces, StepPlace
  <2>2. QED BY <1>10, <2>1, <1>h, TypedStep DEF JudgeOwner, To
<1>11. ASSUME NEW p \in Starters, NEW f \in Locks, Unlink(p, f) PROVE OwnersTypeOK'
  <2>1. Again(p) \in Places
      BY <1>11, AgainPlace DEF Unlink, On
  <2>2. QED BY <1>11, <2>1, <1>h, TypedStep DEF Unlink
<1>12. ASSUME NEW p \in Starters, NEW f \in Locks, ReleaseCheck(p, f) \/ Remove(p, f) PROVE OwnersTypeOK'
  <2>1. Freed(p, f) \in Places /\ [run[p] EXCEPT !.step = "remove"] \in Places
      BY NextPlaces, StepPlace
  <2>2. tokens[p] \ {f} \in SUBSET Locks
      BY <1>t
  <2>3. QED BY <1>12, <2>1, <2>2, <1>h, TypedStep DEF ReleaseCheck, Remove, To
<1>13. QED
    BY <1>1, <1>2, <1>3, <1>4, <1>5, <1>6, <1>7, <1>8, <1>9, <1>10, <1>11, <1>12
    DEF OwnersNext, Proceed, Operates

\* The lock files, the places of the processes, their readings and tokens stay well formed.
THEOREM OwnersTypeCorrect == OwnersSpec => []OwnersTypeOK
BY TypeInitial, TypedNext, PTL DEF OwnersSpec

-----------------------------------------------------------------------------
(* A torn workspace lock is nobody's to remove. *)

\* The only steps that touch the workspace lock before a crossing, and what they find.
LEMMA WorkspaceSteps ==
    ASSUME HolderInv, OwnersNext, ~crossed', file'["workspace"] # file["workspace"]
    PROVE  \E p \in Starters :
             \/ file["workspace"] = Missing
             \/ On(p, "workspace", "write") /\ file["workspace"] = Unwritten(p)
             \/ file["workspace"].state = "named"
<1>0. "workspace" \in Locks /\ \A f \in Locks \ {"workspace"} : \A x : file' # [file EXCEPT ![f] = x]
    BY FilesUpdated DEF HolderInv, Locks
<1>1. PICK p \in Starters :
         /\ Remembers(p)
         /\ Publish(p) \/ \E f \in Locks : Create(p, f) \/ WriteOwner(p, f) \/ Unlink(p, f) \/ Remove(p, f)
    BY DEF OwnersNext, Proceed, Operates, Launch, Iterate, Shutdown, Kill, EndStages, ReadOwner, ReadNothing, JudgeOwner, ReleaseCheck
<1>2. ~crossed /\ ~(p \in overtaken /\ Acts(p)) /\ HeldNamed /\ KnowsFile(p)
    BY <1>1, HistoryFacts DEF HolderInv
<1>3. CASE Publish(p)
  <2>1. file' = [file EXCEPT !["daemon"] = Named(p)] \/ file' = file
      BY <1>3 DEF Publish
  <2>2. "daemon" \in Locks \ {"workspace"}
      BY DEF Locks
  <2>3. QED BY <1>0, <2>1, <2>2
<1>4. ASSUME NEW f \in Locks, Create(p, f) PROVE file["workspace"] = Missing
    BY <1>0, <1>4 DEF Create
<1>5. ASSUME NEW f \in Locks, WriteOwner(p, f)
      PROVE  On(p, "workspace", "write") /\ file["workspace"] = Unwritten(p)
    BY <1>0, <1>5 DEF WriteOwner
<1>6. ASSUME NEW f \in Locks, Unlink(p, f) PROVE file["workspace"].state = "named"
  <2>1. f = "workspace" /\ file[f] # Missing /\ On(p, f, "unlink")
      BY <1>0, <1>6 DEF Unlink
  <2>2. p \notin overtaken
      BY <1>2, <2>1 DEF Acts, On
  <2>3. QED BY <1>0, <1>2, <2>1, <2>2 DEF KnowsFile
<1>7. ASSUME NEW f \in Locks, Remove(p, f) PROVE file["workspace"].state = "named"
  <2>1. f = "workspace" /\ file[f] # Missing /\ On(p, f, "remove")
      BY <1>0, <1>7 DEF Remove
  <2>2. p \notin overtaken
      BY <1>2, <2>1 DEF Acts, On
  <2>3. file[f] = Named(p)
      BY <1>0, <1>2, <2>1, <2>2 DEF KnowsFile
  <2>4. QED BY <2>1, <2>3, FilesDiffer
<1>8. QED BY <1>1, <1>3, <1>4, <1>5, <1>6, <1>7

\* A workspace lock whose creator is gone before its record was complete is changed by nobody,
\* until a call acts on what is out of date.
THEOREM TornWorkspaceLockStays == OwnersSpec => TornLockStays
<1>1. HolderInv /\ [OwnersNext]_ownerVars =>
        [\A p \in Starters :
           file["workspace"] = Unwritten(p) /\ ~Exists(p)
             => file'["workspace"] = file["workspace"] \/ crossed']_ownerVars
  <2> SUFFICES ASSUME HolderInv, OwnersNext, NEW p \in Starters,
                      file["workspace"] = Unwritten(p), ~Exists(p), ~crossed',
                      file'["workspace"] # file["workspace"]
               PROVE  FALSE
      BY DEF ownerVars
  <2>1. PICK q \in Starters : On(q, "workspace", "write") /\ Unwritten(q) = Unwritten(p)
      BY WorkspaceSteps, FilesDiffer
  <2>2. q = p
      BY <2>1 DEF Unwritten
  <2>3. QED BY <2>1, <2>2 DEF On, Exists
<1>2. OwnersSpec => []HolderInv
    BY HolderInitial, HolderStep, PTL DEF OwnersSpec
<1>3. QED BY <1>1, <1>2, PTL DEF OwnersSpec, TornLockStays
=============================================================================
