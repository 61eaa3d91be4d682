------------------------- MODULE RuntimeClaimProofs -------------------------
(* Theorems about RuntimeClaim, for any set of processes. *)
EXTENDS RuntimeClaim, TLAPS

\* The record tells how far the owner got: nobody has begun before it is readable, the
\* process between create and write owns it, and so does the one that is to complete it.
ClaimInv ==
    /\ ClaimTypeOK
    /\ claim.state \in {"absent", "blank"} => begun = 0
    /\ begun <= 1
    /\ \A p \in Procs : at[p] = "created" => claim = Blank(p)
    /\ \A p \in Procs : at[p] = "completing" => claim = Running(p)
    /\ \A p \in Procs : seen[p].state = "completed" => claim = seen[p]
    /\ \A p \in Procs : answer[p] = "completed" => seen[p].state = "completed"

\* Records in different states differ, and so do those of different processes.
LEMMA RecordsDiffer ==
    ASSUME NEW p \in Procs, NEW q \in Procs
    PROVE  /\ NoClaim.state = "absent"
           /\ Blank(p).state = "blank" /\ Blank(p).by = p
           /\ Running(p).state = "running" /\ Running(p).by = p
           /\ Completed(p).state = "completed" /\ Completed(p).by = p
           /\ Blank(p) \in Record /\ Running(p) \in Record /\ Completed(p) \in Record
           /\ Blank(p) = Blank(q) => p = q
           /\ Running(p) = Running(q) => p = q
           /\ Blank(p) # Running(q)
BY DEF NoClaim, Blank, Running, Completed, Record

LEMMA ClaimInitial == ClaimInit => ClaimInv
BY DEF ClaimInit, ClaimInv, ClaimTypeOK, Record, NoClaim

LEMMA ClaimInductive == ClaimInv /\ [ClaimStep]_claimVars => ClaimInv' /\ (claim.state = "completed" => claim' = claim)
<1> SUFFICES ASSUME ClaimInv, [ClaimStep]_claimVars
             PROVE  ClaimInv' /\ (claim.state = "completed" => claim' = claim)
    OBVIOUS
<1> USE DEF ClaimInv, ClaimTypeOK
<1>1. CASE UNCHANGED claimVars
    BY <1>1 DEF claimVars
<1>2. ASSUME NEW p \in Procs, Acquire(p)
      PROVE  ClaimInv' /\ (claim.state = "completed" => claim' = claim)
  <2>1. CASE claim = NoClaim
    <3>1. claim' = Blank(p) /\ at' = [at EXCEPT ![p] = "created"] /\ begun = 0
        BY <1>2, <2>1, RecordsDiffer DEF Acquire, Go
    <3>2. \A q \in Procs : at[q] # "created" /\ at[q] # "completing" /\ seen[q].state # "completed"
        BY <2>1, RecordsDiffer
    <3>3. QED BY <1>2, <2>1, <3>1, <3>2, RecordsDiffer DEF Acquire, AtIt, AtWork
  <2>2. CASE claim # NoClaim
    BY <1>2, <2>2 DEF Acquire, Go, AtIt, AtWork
  <2>3. QED BY <2>1, <2>2
<1>3. ASSUME NEW p \in Procs, WriteRecord(p)
      PROVE  ClaimInv' /\ (claim.state = "completed" => claim' = claim)
  <2>1. claim = Blank(p) /\ claim' = Running(p) /\ begun = 0 /\ begun' = 1
      BY <1>3, RecordsDiffer DEF WriteRecord
  <2>2. \A q \in Procs : q # p => at[q] # "created"
      BY <2>1, RecordsDiffer
  <2>3. \A q \in Procs : at[q] # "completing" /\ seen[q].state # "completed"
      BY <2>1, RecordsDiffer
  <2>4. QED BY <1>3, <2>1, <2>2, <2>3, RecordsDiffer DEF WriteRecord, Go, AtIt, AtWork
<1>4. ASSUME NEW p \in Procs, WriteFails(p)
      PROVE  ClaimInv' /\ (claim.state = "completed" => claim' = claim)
    BY <1>4 DEF WriteFails, Go
<1>5. ASSUME NEW p \in Procs, ReadRecord(p)
      PROVE  ClaimInv' /\ (claim.state = "completed" => claim' = claim)
  <2>1. seen' = [seen EXCEPT ![p] = claim] /\ claim' = claim /\ answer' = answer /\ begun' = begun
      BY <1>5 DEF ReadRecord
  <2>2. \A q \in Procs : answer[q] = "completed" => seen'[q].state = "completed"
      BY <2>1
  <2>3. QED BY <1>5, <2>1, <2>2 DEF ReadRecord, Go
<1>6. ASSUME NEW p \in Procs, GiveUp(p)
      PROVE  ClaimInv' /\ (claim.state = "completed" => claim' = claim)
    BY <1>6 DEF GiveUp, Answer, Go
<1>7. ASSUME NEW p \in Procs, Judge(p)
      PROVE  ClaimInv' /\ (claim.state = "completed" => claim' = claim)
    BY <1>7 DEF Judge, Answer, Go
<1>8. ASSUME NEW p \in Procs, Work(p)
      PROVE  ClaimInv' /\ (claim.state = "completed" => claim' = claim)
    BY <1>8 DEF Work, Go, AtIt, AtWork
<1>9. ASSUME NEW p \in Procs, CheckToken(p)
      PROVE  ClaimInv' /\ (claim.state = "completed" => claim' = claim)
    BY <1>9 DEF CheckToken, Go, AtIt, AtWork
<1>10. ASSUME NEW p \in Procs, Replace(p)
       PROVE  ClaimInv' /\ (claim.state = "completed" => claim' = claim)
  <2>1. claim = Running(p)
      BY <1>10 DEF Replace
  <2>2. \A q \in Procs : at[q] # "created" /\ (at[q] = "completing" => q = p) /\ seen[q].state # "completed"
      BY <2>1, RecordsDiffer
  <2>3. claim' = Completed(p) \/ claim' = claim
      BY <1>10 DEF Replace
  <2>4. QED BY <1>10, <2>1, <2>2, <2>3, RecordsDiffer DEF Replace, Go
<1>11. ASSUME NEW p \in Procs, Perish(p)
       PROVE  ClaimInv' /\ (claim.state = "completed" => claim' = claim)
    BY <1>11 DEF Perish, Go
<1>12. QED BY <1>1, <1>2, <1>3, <1>4, <1>5, <1>6, <1>7, <1>8, <1>9, <1>10, <1>11 DEF ClaimStep

LEMMA ClaimInvariant == ClaimSpec => []ClaimInv
BY ClaimInitial, ClaimInductive, PTL DEF ClaimSpec

\* The claim file, the readings and the places are well formed.
THEOREM ClaimTypeCorrect == ClaimSpec => []ClaimTypeOK
<1>1. ClaimInv => ClaimTypeOK
    BY DEF ClaimInv
<1>2. QED BY <1>1, ClaimInvariant, PTL

\* A scheduled attempt is begun at most once, by any number of processes, whatever fails.
THEOREM WorkBeginsOnce == ClaimSpec => []AtMostOneRun
<1>1. ClaimInv => AtMostOneRun
    BY DEF ClaimInv, AtMostOneRun
<1>2. QED BY <1>1, ClaimInvariant, PTL

\* A result, once recorded, is the result for everybody and for good.
THEOREM ResultIsFinal == ClaimSpec => CompletedIsFinal
<1>1. ClaimInv => \A p \in Procs : answer[p] = "completed" => claim.state = "completed" /\ seen[p] = claim
    BY DEF ClaimInv
<1>2. ClaimInv /\ [ClaimStep]_claimVars => [claim.state = "completed" => claim' = claim]_claimVars
    BY ClaimInductive
<1>3. QED BY <1>1, <1>2, ClaimInvariant, PTL DEF CompletedIsFinal, ClaimSpec

-----------------------------------------------------------------------------
(* An owner at its work is not reported as a crashed one. *)

\* Whoever is past the write owns the record, and what a reader has seen running is
\* still the same owner's record: only that owner completes it.
OwnerInv ==
    /\ \A p \in Procs : at[p] \in AtWork => claim = Running(p)
    /\ \A p \in Procs : seen[p].state = "running" =>
         claim.state \in {"running", "completed"} /\ claim.by = seen[p].by

LEMMA OwnerInitial == ClaimInit => OwnerInv
BY DEF ClaimInit, OwnerInv, NoClaim, AtWork

LEMMA OwnerInductive == ClaimInv /\ OwnerInv /\ [ClaimStep]_claimVars => OwnerInv'
<1> SUFFICES ASSUME ClaimInv, OwnerInv, [ClaimStep]_claimVars
             PROVE  OwnerInv'
    OBVIOUS
<1> USE DEF OwnerInv, AtWork
<1>t. at \in [Procs -> AtIt \cup {"idle", "reading", "read", "dead"}] /\ seen \in [Procs -> Record]
    BY DEF ClaimInv, ClaimTypeOK
<1>1. CASE UNCHANGED claimVars
    BY <1>1 DEF claimVars
<1>2. ASSUME NEW p \in Procs, Acquire(p)
      PROVE  OwnerInv'
  <2>1. CASE claim = NoClaim
    <3>1. \A q \in Procs : at[q] \notin AtWork /\ seen[q].state # "running"
        BY <2>1, RecordsDiffer
    <3>2. QED BY <1>t, <1>2, <2>1, <3>1 DEF Acquire, Go
  <2>2. CASE claim # NoClaim
    BY <1>t, <1>2, <2>2 DEF Acquire, Go
  <2>3. QED BY <2>1, <2>2
<1>3. ASSUME NEW p \in Procs, WriteRecord(p)
      PROVE  OwnerInv'
  <2>1. claim = Blank(p) /\ claim' = Running(p) /\ UNCHANGED seen
      BY <1>3 DEF WriteRecord, ClaimInv
  <2>2. \A q \in Procs : at[q] \notin AtWork /\ seen[q].state # "running"
      BY <2>1, RecordsDiffer
  <2>3. QED BY <1>t, <1>3, <2>1, <2>2, RecordsDiffer DEF WriteRecord, Go
<1>4. ASSUME NEW p \in Procs,
             WriteFails(p) \/ GiveUp(p) \/ Judge(p) \/ Work(p) \/ CheckToken(p) \/ Perish(p)
      PROVE  OwnerInv'
  <2>1. UNCHANGED <<claim, seen>>
      BY <1>4 DEF WriteFails, GiveUp, Judge, Work, CheckToken, Perish
  <2>2. \A q \in Procs : at'[q] \in AtWork => at[q] \in AtWork
      BY <1>t, <1>4 DEF WriteFails, GiveUp, Judge, Work, CheckToken, Perish, Answer, Go
  <2>3. QED BY <2>1, <2>2
<1>5. ASSUME NEW p \in Procs, ReadRecord(p)
      PROVE  OwnerInv'
  <2>1. claim' = claim /\ seen' = [seen EXCEPT ![p] = claim] /\ at' = [at EXCEPT ![p] = "read"]
      BY <1>5 DEF ReadRecord, Go
  <2>2. \A q \in Procs : seen'[q] = claim \/ seen'[q] = seen[q]
      BY <1>t, <2>1
  <2>3. QED BY <1>t, <2>1, <2>2
<1>6. ASSUME NEW p \in Procs, Replace(p)
      PROVE  OwnerInv'
  <2>1. claim = Running(p) /\ at' = [at EXCEPT ![p] = "idle"] /\ UNCHANGED seen
      BY <1>6 DEF Replace, Go, ClaimInv
  <2>2. claim' = Completed(p) \/ claim' = claim
      BY <1>6 DEF Replace
  <2>3. \A q \in Procs : q # p => at[q] \notin AtWork
      BY <2>1, RecordsDiffer
  <2>4. QED BY <1>t, <2>1, <2>2, <2>3, RecordsDiffer
<1>7. QED BY <1>1, <1>2, <1>3, <1>4, <1>5, <1>6 DEF ClaimStep

\* The only answers "recovery_required" come from a reader that gave up on a blank record
\* and from one that saw a dead owner; in neither is the owner at work.
LEMMA AlarmIsTrue ==
    ASSUME ClaimInv, OwnerInv, [ClaimStep]_claimVars, NEW p \in Procs,
           at[p] \in {"reading", "read"}, at'[p] = "idle", answer'[p] = "recovery_required"
    PROVE  at[claim.by] \notin AtWork
<1>t. /\ at \in [Procs -> AtIt \cup {"idle", "reading", "read", "dead"}]
      /\ answer \in [Procs -> {"none", "acquired", "completed", "busy", "recovery_required"}]
      /\ claim \in Record
    BY DEF ClaimInv, ClaimTypeOK
<1>1. PICK q \in Procs : GiveUp(q) \/ Judge(q) \/ Replace(q) \/ WriteFails(q) \/ CheckToken(q) \/ Work(q)
  <2>1. ASSUME NEW q \in Procs, Acquire(q) \/ WriteRecord(q) \/ ReadRecord(q) \/ Perish(q)
        PROVE  FALSE
      BY <1>t, <2>1 DEF Acquire, WriteRecord, ReadRecord, Perish, Go
  <2>2. QED BY <2>1 DEF ClaimStep, claimVars
<1>2. p = q /\ (GiveUp(p) \/ Judge(p))
    BY <1>t, <1>1 DEF GiveUp, Judge, Replace, WriteFails, CheckToken, Work, Answer, Go
<1>3. CASE GiveUp(p)
  <2>1. claim.state = "blank"
      BY <1>3 DEF GiveUp
  <2>2. PICK r \in Procs : claim = Blank(r)
      BY <1>t, <2>1, RecordsDiffer DEF Record
  <2>3. claim.by = r /\ at[r] \notin AtWork
      BY <2>2, RecordsDiffer DEF OwnerInv
  <2>4. QED BY <2>3
<1>4. CASE Judge(p)
  <2>1. seen[p].state = "running" /\ at[seen[p].by] = "dead"
      BY <1>t, <1>4 DEF Judge, Answer, Alive
  <2>2. claim.by = seen[p].by
      BY <2>1 DEF OwnerInv
  <2>3. QED BY <2>1, <2>2 DEF AtWork
<1>5. QED BY <1>2, <1>3, <1>4

\* No owner that lives and has begun to work is ever reported as one that needs recovery,
\* by any number of askers and however long the creator's write takes.
THEOREM WorkingOwnerNotAlarmed == ClaimSpec => OwnerAtWorkNotAlarmed
<1>1. ClaimInv /\ OwnerInv /\ [ClaimStep]_claimVars =>
        [\A p \in Procs :
           /\ at[p] \in {"reading", "read"} /\ at'[p] = "idle" /\ answer'[p] = "recovery_required"
           => at[claim.by] \notin AtWork]_claimVars
    BY AlarmIsTrue
<1>2. ClaimSpec => []OwnerInv
    BY ClaimInvariant, OwnerInitial, OwnerInductive, PTL DEF ClaimSpec
<1>3. QED BY <1>1, <1>2, ClaimInvariant, PTL DEF OwnerAtWorkNotAlarmed, ClaimSpec
=============================================================================
