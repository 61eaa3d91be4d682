--------------------------- MODULE TaskPoolProofs ---------------------------
(***************************************************************************)
(* What holds of the task pool for every set of tasks, clients, dependency *)
(* relation, lease length and bound.                                       *)
(***************************************************************************)
EXTENDS TaskPool, TLAPS

Object == Record \cup {Absent}

LEMMA AbsentIsNoRecord == Absent \notin Record
BY DEF Absent, Record, Statuses

LEMMA NewTaskType == NewTask \in Record
BY DEF NewTask, Record, NoClaim, Statuses

LEMMA ClearLeaseType == ASSUME NEW r \in Record PROVE ClearLease(r) \in Record
BY DEF ClearLease, Record, NoClaim

LEMMA StatusType ==
    ASSUME NEW r \in Record, NEW s \in Statuses
    PROVE  [r EXCEPT !.status = s] \in Record /\ [r EXCEPT !.status = s].status = s
BY DEF Record

LEMMA BlockedType ==
    ASSUME NEW r \in Record, NEW s \in Statuses, NEW b \in AllBlockTypes \cup {"none"}
    PROVE  /\ [r EXCEPT !.status = s, !.block = b] \in Record
           /\ [r EXCEPT !.status = s, !.block = b].status = s
BY DEF Record

LEMMA NewLeaseType ==
    ASSUME NEW r \in Record, NEW term \in Terms, now \in Nat, issued \in Nat
    PROVE  /\ NewLease(r, term) \in Record
           /\ NewLease(r, term).lease # 0
           /\ NewLease(r, term).status = "active"
           /\ NewLease(r, term).claim = issued + 1
<1>1. term \in Nat \ {0} /\ issued + 1 \in Nat /\ now + term \in Nat /\ r.token + 1 \in Nat /\ now + term # 0
  BY TermsAssumption DEF Record
<1>2. NewLease(r, term) \in Record
  BY <1>1 DEF NewLease, Record, Statuses
<1> QED
  BY <1>1, <1>2 DEF NewLease, Record

LEMMA MovedType ==
    ASSUME NEW r \in Record, NEW t, NEW s \in Statuses PROVE Moved(t, s, r) \in Record
BY StatusType, ClearLeaseType DEF Moved

LEMMA RetriedType ==
    ASSUME NEW r \in Record, NEW n \in Nat
    PROVE  [r EXCEPT !.status = "pending", !.retryAt = n] \in Record
BY DEF Record, Statuses

LEMMA FailedType ==
    ASSUME NEW r \in Record, NEW f, now \in Nat PROVE Failed(r, f) \in Record
<1> DEFINE tried == ClearLease([r EXCEPT !.retry = r.retry + 1])
<1>1. tried \in Record
  <2>1. [r EXCEPT !.retry = r.retry + 1] \in Record
    BY DEF Record
  <2> QED
    BY <2>1, ClearLeaseType
<1> HIDE DEF tried
<1>2. /\ [tried EXCEPT !.status = "blocked", !.block = ManualGate] \in Record
      /\ [tried EXCEPT !.status = "blocked", !.block = "external_condition_blocked"] \in Record
  BY <1>1, BlockedType DEF Statuses, AllBlockTypes, ManualGate
<1>3. [tried EXCEPT !.status = "graveyard"] \in Record
  BY <1>1, StatusType DEF Statuses
<1>4. [tried EXCEPT !.status = "pending", !.retryAt = now + 1] \in Record
  <2>1. now + 1 \in Nat
    OBVIOUS
  <2> QED
    BY <1>1, <2>1, RetriedType
<1>5. Failed(r, f) \in {[tried EXCEPT !.status = "blocked", !.block = ManualGate],
                        [tried EXCEPT !.status = "blocked", !.block = "external_condition_blocked"],
                        [tried EXCEPT !.status = "graveyard"],
                        [tried EXCEPT !.status = "pending", !.retryAt = now + 1]}
  BY DEF Failed, tried
<1> QED
  BY <1>2, <1>3, <1>4, <1>5

-----------------------------------------------------------------------------
(* Type correctness. *)

\* What TypeOK says of the records and Task objects, and of the rest of the state.
Records ==
    /\ store \in [Tasks -> Record \cup {Absent}]
    /\ \A t \in Tasks : sweep[t] # "none" => Known(t)
Objects == copy \in [Clients -> [Tasks -> Record \cup {Absent}]]
Rest ==
    /\ sweep \in [Tasks -> {"none", "unblock", "bury"}]
    /\ now \in Nat /\ issued \in Nat
    /\ newest \in [Tasks -> Nat]

LEMMA TypeParts == TypeOK <=> Records /\ Objects /\ Rest /\ CredentialsIssued
BY DEF TypeOK, Records, Objects, Rest

LEMMA TypeInit == Init => TypeOK
BY DEF Init, TypeOK, NoClaim, CredentialsIssued, Known, Holds

LEMMA SaveType ==
    ASSUME Records, NEW t \in Tasks, NEW r \in Record, Save(t, r),
           \A u \in Tasks : sweep'[u] # "none" => sweep[u] # "none"
    PROVE  Records'
BY AbsentIsNoRecord DEF Records, Save, Known

LEMMA KeepType ==
    ASSUME Objects, NEW c \in Clients, NEW t \in Tasks, NEW r \in Record \cup {Absent}, Keep(c, t, r)
    PROVE  Objects'
BY DEF Objects, Keep

LEMMA IssueType ==
    ASSUME Rest, NEW t \in Tasks, Issue(t), UNCHANGED <<sweep, now>> PROVE Rest'
BY DEF Rest, Issue

LEMMA UpdatedType ==
    ASSUME NEW r \in Record, NEW s \in Statuses, NEW flag \in BOOLEAN
    PROVE  [r EXCEPT !.status = s, !.final = r.final \/ flag,
                     !.result = IF r.claim # NoClaim THEN r.claim ELSE r.result] \in Record
<1>1. (r.final \/ flag) \in BOOLEAN
  OBVIOUS
<1>2. (IF r.claim # NoClaim THEN r.claim ELSE r.result) \in Nat
  BY DEF Record
<1> QED
  BY <1>1, <1>2 DEF Record

LEMMA ShapeStep == TypeOK /\ [Next]_vars => Records' /\ Objects' /\ Rest'
<1> SUFFICES ASSUME TypeOK, [Next]_vars PROVE Records' /\ Objects' /\ Rest'
  OBVIOUS
<1>1. Records /\ Objects /\ Rest
  BY TypeParts
<1>2. ASSUME NEW t \in Tasks, Known(t) PROVE store[t] \in Record
  BY <1>1, <1>2 DEF Records, Known
<1>3. ASSUME NEW c \in Clients, NEW t \in Tasks, Holds(c, t) PROVE copy[c][t] \in Record
  BY <1>1, <1>3 DEF Objects, Holds
<1>4. ASSUME UNCHANGED store, \A u \in Tasks : sweep'[u] # "none" => sweep[u] # "none"
      PROVE  Records'
  BY <1>1, <1>4 DEF Records, Known
<1>5. ASSUME UNCHANGED copy PROVE Objects'
  BY <1>1, <1>5 DEF Objects
<1>6. ASSUME UNCHANGED <<sweep, now, issued, newest>> PROVE Rest'
  BY <1>1, <1>6 DEF Rest
<1>7. CASE UNCHANGED vars
  BY <1>7, <1>4, <1>5, <1>6 DEF vars
<1>8. CASE Tick
  BY <1>8, <1>1, <1>4, <1>5 DEF Tick, Rest
<1>9. CASE ReclaimStale
  <2>1. ASSUME NEW t \in Tasks, Known(t)
        PROVE  ClearLease([store[t] EXCEPT !.status = "pending"]) \in Record
    BY <1>2, <2>1, StatusType, ClearLeaseType DEF Statuses
  <2>2. Records'
    BY <1>9, <1>1, <2>1, AbsentIsNoRecord DEF ReclaimStale, Reclaimed, Records, Known
  <2> QED
    BY <1>9, <2>2, <1>5, <1>6 DEF ReclaimStale, Reclaimed, NoIssue
<1>10. ASSUME NEW t \in Tasks, Create(t) PROVE Records' /\ Objects' /\ Rest'
  BY <1>10, <1>1, <1>5, <1>6, SaveType, NewTaskType DEF Create
<1>11. ASSUME NEW t \in Tasks, Reopen(t) PROVE Records' /\ Objects' /\ Rest'
  <2>1. [store[t] EXCEPT !.status = "pending", !.block = "none", !.final = FALSE] \in Record
    BY <1>2, <1>11 DEF Reopen, Record, Statuses
  <2> QED
    BY <1>11, <2>1, <1>1, <1>5, <1>6, SaveType DEF Reopen, NoIssue
<1>12. ASSUME NEW t \in Tasks, PlanUnblock(t) \/ PlanBury(t) PROVE Records' /\ Objects' /\ Rest'
  <2>1. Records'
    BY <1>12, <1>1 DEF PlanUnblock, PlanBury, Records, Rest, Known
  <2> QED
    BY <1>12, <2>1, <1>1, <1>5 DEF PlanUnblock, PlanBury, Rest
<1>13. ASSUME NEW t \in Tasks, DoUnblock(t) PROVE Records' /\ Objects' /\ Rest'
  <2>1. Known(t) /\ store[t] \in Record
    BY <1>1, <1>2, <1>13 DEF DoUnblock, Records
  <2>2. [store[t] EXCEPT !.status = "pending", !.block = "none"] \in Record
    BY <2>1, BlockedType DEF Statuses
  <2>3. Rest' /\ (\A u \in Tasks : sweep'[u] # "none" => sweep[u] # "none")
    BY <1>1, <1>13 DEF DoUnblock, Rest
  <2>4. Records'
    BY <1>13, <2>2, <2>3, <1>1, <1>4, SaveType DEF DoUnblock
  <2> QED
    BY <1>13, <2>3, <2>4, <1>5 DEF DoUnblock
<1>14. ASSUME NEW t \in Tasks, DoBury(t) PROVE Records' /\ Objects' /\ Rest'
  <2>1. Known(t) /\ store[t] \in Record
    BY <1>1, <1>2, <1>14 DEF DoBury, Records
  <2>2. Moved(t, "graveyard", store[t]) \in Record
    BY <2>1, MovedType DEF Statuses
  <2>3. Rest' /\ (\A u \in Tasks : sweep'[u] # "none" => sweep[u] # "none")
    BY <1>1, <1>14 DEF DoBury, Rest
  <2>4. Records'
    BY <1>14, <2>2, <2>3, <1>1, <1>4, SaveType DEF DoBury
  <2> QED
    BY <1>14, <2>3, <2>4, <1>5 DEF DoBury
<1>15. ASSUME NEW t \in Tasks, NEW b \in BlockTypes, Block(t, b) PROVE Records' /\ Objects' /\ Rest'
  <2>1. ClearLease([store[t] EXCEPT !.status = "blocked", !.block = b]) \in Record
    BY <1>2, <1>15, BlockedType, ClearLeaseType, TypesAssumption DEF Block, Statuses
  <2> QED
    BY <1>15, <2>1, <1>1, <1>5, <1>6, SaveType DEF Block, NoIssue
<1>16. ASSUME NEW t \in Tasks, NEW f \in FailTypes, Fail(t, f) PROVE Records' /\ Objects' /\ Rest'
  <2>1. Failed(store[t], f) \in Record
    BY <1>1, <1>2, <1>16, FailedType DEF Fail, Rest
  <2> QED
    BY <1>16, <2>1, <1>1, <1>5, <1>6, SaveType DEF Fail, NoIssue
<1>17. ASSUME NEW t \in Tasks, NEW c \in Clients, Read(c, t) PROVE Records' /\ Objects' /\ Rest'
  BY <1>17, <1>1, <1>2, <1>4, <1>6, KeepType DEF Read
<1>18. ASSUME NEW t \in Tasks, NEW c \in Clients, ArchiveRefused(c, t) PROVE Records' /\ Objects' /\ Rest'
  BY <1>18, <1>1, <1>3, <1>5, <1>6, SaveType DEF ArchiveRefused, NoIssue
<1>19. ASSUME NEW t \in Tasks, NEW c \in Clients, NEW term \in Terms, Claim(c, t, term)
       PROVE  Records' /\ Objects' /\ Rest'
  <2>1. NewLease(store[t], term) \in Record
    BY <1>1, <1>2, <1>19, NewLeaseType DEF Claim, Rest
  <2> QED
    BY <1>19, <2>1, <1>1, SaveType, KeepType, IssueType DEF Claim
<1>20. ASSUME NEW t \in Tasks, NEW c \in Clients, NEW term \in Terms, Renew(c, t, term)
       PROVE  Records' /\ Objects' /\ Rest'
  <2>1. [store[t] EXCEPT !.lease = now + term] \in Record
    BY <1>1, <1>2, <1>20, TermsAssumption DEF Renew, Record, Rest
  <2> QED
    BY <1>20, <2>1, <1>1, <1>6, SaveType, KeepType DEF Renew, NoIssue
<1>21. ASSUME NEW t \in Tasks, NEW c \in Clients, NEW s \in Statuses, NEW flag \in BOOLEAN,
              Update(c, t, s, flag)
       PROVE  Records' /\ Objects' /\ Rest'
  <2> DEFINE r == [copy[c][t] EXCEPT !.status = s, !.final = copy[c][t].final \/ flag,
                     !.result = IF copy[c][t].claim # NoClaim THEN copy[c][t].claim ELSE copy[c][t].result]
  <2>1. r \in Record
    BY <1>3, <1>21, UpdatedType DEF Update
  <2>2. Save(t, r) /\ Keep(c, t, r) /\ UNCHANGED <<sweep, now, issued, newest>>
    BY <1>21 DEF Update, NoIssue
  <2> HIDE DEF r
  <2> QED
    BY <2>1, <2>2, <1>1, <1>6, SaveType, KeepType
<1>22. ASSUME NEW t \in Tasks, NEW c \in Clients, NEW s \in MoveTargets, MoveCopy(c, t, s)
       PROVE  Records' /\ Objects' /\ Rest'
  <2>1. store[t] \in Record /\ copy[c][t] \in Record /\ s \in Statuses
    BY <1>2, <1>3, <1>22, TargetsAssumption DEF MoveCopy
  <2>2. PICK r \in Record : Save(t, r)
    <3>1. ASSUME NEW term \in Terms PROVE NewLease(store[t], term) \in Record
      BY <1>1, <2>1, NewLeaseType DEF Rest
    <3>2. Moved(t, s, copy[c][t]) \in Record
      BY <2>1, MovedType
    <3> QED
      BY <1>22, <3>1, <3>2 DEF MoveCopy, MoveWithLease
  <2>3. Rest'
    BY <1>1, <1>6, <1>22, IssueType DEF MoveCopy, MoveWithLease, NoIssue
  <2>4. store'[t] \in Record /\ Keep(c, t, store'[t]) /\ UNCHANGED sweep
    BY <1>1, <1>22, <2>2 DEF MoveCopy, Save, Records
  <2> QED
    BY <2>2, <2>3, <2>4, <1>1, SaveType, KeepType
<1>23. ASSUME NEW t \in Tasks, NEW c \in Clients, NEW s \in MoveTargets, MoveByClaim(c, t, s)
       PROVE  Records' /\ Objects' /\ Rest'
  <2>1. Moved(t, s, store[t]) \in Record
    BY <1>2, <1>23, MovedType, TargetsAssumption DEF MoveByClaim
  <2>2. Save(t, Moved(t, s, store[t])) /\ Keep(c, t, store'[t]) /\ UNCHANGED <<sweep, now, issued, newest>>
    BY <1>23 DEF MoveByClaim, NoIssue
  <2>3. store'[t] \in Record
    BY <1>1, <2>1, <2>2 DEF Save, Records
  <2> QED
    BY <2>1, <2>2, <2>3, <1>1, <1>6, SaveType, KeepType
<1> QED
  BY <1>7, <1>8, <1>9, <1>10, <1>11, <1>12, <1>13, <1>14, <1>15, <1>16, <1>17, <1>18, <1>19,
     <1>20, <1>21, <1>22, <1>23 DEF Next

LEMMA NewLeaseUpTo ==
    ASSUME NEW r \in Record, NEW term, issued \in Nat, UpTo(r, issued)
    PROVE  UpTo(NewLease(r, term), issued + 1)
BY DEF NewLease, UpTo, Record

LEMMA ClearedUpTo ==
    ASSUME NEW r \in Record, NEW n \in Nat, UpTo(r, n)
    PROVE  UpTo(ClearLease(r), n)
BY DEF ClearLease, UpTo, Record, NoClaim

LEMMA StatusUpTo ==
    ASSUME NEW r \in Record, NEW s \in Statuses, NEW n \in Nat, UpTo(r, n)
    PROVE  UpTo([r EXCEPT !.status = s], n)
BY DEF UpTo, Record

LEMMA MovedUpTo ==
    ASSUME NEW r \in Record, NEW t, NEW s \in Statuses, NEW n \in Nat, UpTo(r, n)
    PROVE  Moved(t, s, r) \in Record /\ UpTo(Moved(t, s, r), n)
BY StatusType, MovedType, StatusUpTo, ClearedUpTo DEF Moved

LEMMA FailedUpTo ==
    ASSUME NEW r \in Record, NEW f, issued \in Nat, UpTo(r, issued)
    PROVE  UpTo(Failed(r, f), issued)
<1> DEFINE tried == ClearLease([r EXCEPT !.retry = r.retry + 1])
<1>1. tried \in Record /\ UpTo(tried, issued)
  <2>1. [r EXCEPT !.retry = r.retry + 1] \in Record /\ UpTo([r EXCEPT !.retry = r.retry + 1], issued)
    BY DEF Record, UpTo
  <2> QED
    BY <2>1, ClearLeaseType, ClearedUpTo
<1> HIDE DEF tried
<1>2. Failed(r, f) \in {[tried EXCEPT !.status = "blocked", !.block = ManualGate],
                        [tried EXCEPT !.status = "blocked", !.block = "external_condition_blocked"],
                        [tried EXCEPT !.status = "graveyard"],
                        [tried EXCEPT !.status = "pending", !.retryAt = now + 1]}
  BY DEF Failed, tried
<1> QED
  BY <1>1, <1>2 DEF Record, UpTo

\* Nothing in a record or an object is newer than the last claim issued.
LEMMA CredentialsStep == TypeOK /\ [Next]_vars => CredentialsIssued'
<1> DEFINE Stored == \A u \in Tasks : Known(u)' => UpTo(store'[u], issued')
           Copied == \A d \in Clients, u \in Tasks : Holds(d, u)' => UpTo(copy'[d][u], issued')
           Latest == \A u \in Tasks : newest'[u] <= issued'
<1> SUFFICES ASSUME TypeOK, [Next]_vars PROVE Stored /\ Copied /\ Latest
  BY DEF CredentialsIssued
<1>1. /\ store \in [Tasks -> Record \cup {Absent}] /\ copy \in [Clients -> [Tasks -> Record \cup {Absent}]]
      /\ issued \in Nat /\ now \in Nat /\ newest \in [Tasks -> Nat] /\ CredentialsIssued
  BY DEF TypeOK
<1>2. ASSUME NEW t \in Tasks, Known(t) PROVE store[t] \in Record /\ UpTo(store[t], issued)
  BY <1>1, <1>2 DEF Known, CredentialsIssued
<1>3. ASSUME NEW c \in Clients, NEW t \in Tasks, Holds(c, t)
      PROVE  copy[c][t] \in Record /\ UpTo(copy[c][t], issued)
  BY <1>1, <1>3 DEF Holds, CredentialsIssued
<1>4. ASSUME issued' = issued, UNCHANGED store PROVE Stored
  BY <1>1, <1>4 DEF CredentialsIssued, Known
<1>5. ASSUME issued' = issued, UNCHANGED copy PROVE Copied
  BY <1>1, <1>5 DEF CredentialsIssued, Holds
<1>6. ASSUME UNCHANGED <<issued, newest>> PROVE Latest
  BY <1>1, <1>6 DEF CredentialsIssued
<1>7. ASSUME NEW t \in Tasks, NEW r \in Record, Save(t, r), UpTo(r, issued), issued' = issued PROVE Stored
  BY <1>1, <1>2, <1>7 DEF Save, Known
<1>8. ASSUME NEW c \in Clients, NEW t \in Tasks, NEW r \in Record, Keep(c, t, r), UpTo(r, issued), issued' = issued
      PROVE  Copied
  BY <1>1, <1>3, <1>8 DEF Keep, Holds
<1>9. ASSUME NEW t \in Tasks, Issue(t) PROVE Latest /\ issued' = issued + 1
  BY <1>1, <1>9 DEF Issue, CredentialsIssued
<1>10. ASSUME NEW t \in Tasks, NEW r \in Record, Save(t, r), UpTo(r, issued + 1), issued' = issued + 1 PROVE Stored
  <2>1. ASSUME NEW u \in Tasks, u # t, Known(u)' PROVE UpTo(store'[u], issued')
    <3>1. store'[u] = store[u] /\ Known(u)
      BY <1>1, <1>10, <2>1 DEF Save, Known
    <3> QED
      BY <1>1, <1>2, <1>10, <3>1 DEF UpTo, Record
  <2>2. store'[t] = r
    BY <1>1, <1>10 DEF Save
  <2> QED
    BY <1>10, <2>1, <2>2
<1>11. ASSUME NEW c \in Clients, NEW t \in Tasks, NEW r \in Record, Keep(c, t, r), UpTo(r, issued + 1), issued' = issued + 1
       PROVE  Copied
  <2>1. ASSUME NEW d \in Clients, NEW u \in Tasks, d # c \/ u # t, Holds(d, u)' PROVE UpTo(copy'[d][u], issued')
    <3>1. copy'[d][u] = copy[d][u] /\ Holds(d, u)
      BY <1>1, <1>11, <2>1 DEF Keep, Holds
    <3> QED
      BY <1>1, <1>3, <1>11, <3>1 DEF UpTo, Record
  <2>2. copy'[c][t] = r
    BY <1>1, <1>11 DEF Keep
  <2> QED
    BY <1>11, <2>1, <2>2
<1>12. CASE UNCHANGED vars
  BY <1>12, <1>4, <1>5, <1>6 DEF vars
<1>13. CASE Tick
  BY <1>13, <1>4, <1>5, <1>6 DEF Tick
<1>14. CASE ReclaimStale
  <2>1. ASSUME NEW u \in Tasks, Known(u)' PROVE UpTo(store'[u], issued')
    <3>1. Known(u) /\ store'[u] \in {store[u], Reclaimed(store[u])}
      BY <1>1, <1>14, <2>1 DEF ReclaimStale, Known
    <3>2. UpTo(Reclaimed(store[u]), issued)
      BY <1>1, <1>2, <3>1, StatusType, StatusUpTo, ClearedUpTo DEF Reclaimed, Statuses
    <3> QED
      BY <1>2, <1>14, <3>1, <3>2 DEF ReclaimStale, NoIssue
  <2> QED
    BY <1>14, <2>1, <1>5, <1>6 DEF ReclaimStale, NoIssue
<1>15. ASSUME NEW t \in Tasks, Create(t) PROVE Stored /\ Copied /\ Latest
  <2>1. UpTo(NewTask, issued)
    BY <1>1 DEF NewTask, UpTo, NoClaim
  <2> QED
    BY <1>15, <2>1, <1>5, <1>6, <1>7, NewTaskType DEF Create
<1>16. ASSUME NEW t \in Tasks, Reopen(t) PROVE Stored /\ Copied /\ Latest
  <2>1. /\ [store[t] EXCEPT !.status = "pending", !.block = "none", !.final = FALSE] \in Record
        /\ UpTo([store[t] EXCEPT !.status = "pending", !.block = "none", !.final = FALSE], issued)
    BY <1>2, <1>16 DEF Reopen, Record, Statuses, UpTo
  <2> QED
    BY <1>16, <2>1, <1>5, <1>6, <1>7 DEF Reopen, NoIssue
<1>17. ASSUME NEW t \in Tasks, PlanUnblock(t) \/ PlanBury(t) PROVE Stored /\ Copied /\ Latest
  BY <1>17, <1>4, <1>5, <1>6 DEF PlanUnblock, PlanBury
<1>18. ASSUME NEW t \in Tasks, DoUnblock(t) PROVE Stored /\ Copied /\ Latest
  <2>1. Known(t)
    BY <1>18 DEF DoUnblock, TypeOK
  <2>2. /\ [store[t] EXCEPT !.status = "pending", !.block = "none"] \in Record
        /\ UpTo([store[t] EXCEPT !.status = "pending", !.block = "none"], issued)
    BY <1>2, <2>1 DEF Record, Statuses, UpTo
  <2> QED
    BY <1>18, <2>2, <1>4, <1>5, <1>6, <1>7 DEF DoUnblock
<1>19. ASSUME NEW t \in Tasks, DoBury(t) PROVE Stored /\ Copied /\ Latest
  <2>1. Known(t)
    BY <1>19 DEF DoBury, TypeOK
  <2>2. Moved(t, "graveyard", store[t]) \in Record /\ UpTo(Moved(t, "graveyard", store[t]), issued)
    BY <1>1, <1>2, <2>1, MovedUpTo DEF Statuses
  <2> QED
    BY <1>19, <2>2, <1>4, <1>5, <1>6, <1>7 DEF DoBury
<1>20. ASSUME NEW t \in Tasks, NEW b \in BlockTypes, Block(t, b) PROVE Stored /\ Copied /\ Latest
  <2>1. b \in AllBlockTypes \cup {"none"}
    BY TypesAssumption
  <2>2. /\ ClearLease([store[t] EXCEPT !.status = "blocked", !.block = b]) \in Record
        /\ UpTo(ClearLease([store[t] EXCEPT !.status = "blocked", !.block = b]), issued)
    <3>1. store[t] \in Record /\ UpTo(store[t], issued)
      BY <1>2, <1>20 DEF Block
    <3>2. /\ [store[t] EXCEPT !.status = "blocked", !.block = b] \in Record
          /\ UpTo([store[t] EXCEPT !.status = "blocked", !.block = b], issued)
      BY <2>1, <3>1 DEF Record, Statuses, UpTo
    <3> QED
      BY <1>1, <3>2, ClearLeaseType, ClearedUpTo
  <2> QED
    BY <1>20, <2>2, <1>5, <1>6, <1>7 DEF Block, NoIssue
<1>21. ASSUME NEW t \in Tasks, NEW f \in FailTypes, Fail(t, f) PROVE Stored /\ Copied /\ Latest
  <2>1. Failed(store[t], f) \in Record /\ UpTo(Failed(store[t], f), issued)
    BY <1>1, <1>2, <1>21, FailedType, FailedUpTo DEF Fail
  <2> QED
    BY <1>21, <2>1, <1>5, <1>6, <1>7 DEF Fail, NoIssue
<1>22. ASSUME NEW t \in Tasks, NEW c \in Clients, Read(c, t) PROVE Stored /\ Copied /\ Latest
  BY <1>22, <1>2, <1>4, <1>6, <1>8 DEF Read
<1>23. ASSUME NEW t \in Tasks, NEW c \in Clients, ArchiveRefused(c, t) PROVE Stored /\ Copied /\ Latest
  BY <1>23, <1>3, <1>5, <1>6, <1>7 DEF ArchiveRefused, NoIssue
<1>24. ASSUME NEW t \in Tasks, NEW c \in Clients, NEW term \in Terms, Claim(c, t, term)
       PROVE  Stored /\ Copied /\ Latest
  <2>1. NewLease(store[t], term) \in Record /\ UpTo(NewLease(store[t], term), issued + 1)
    BY <1>1, <1>2, <1>24, NewLeaseType, NewLeaseUpTo DEF Claim
  <2> QED
    BY <1>24, <2>1, <1>9, <1>10, <1>11 DEF Claim
<1>25. ASSUME NEW t \in Tasks, NEW c \in Clients, NEW term \in Terms, Renew(c, t, term)
       PROVE  Stored /\ Copied /\ Latest
  <2>1. /\ [store[t] EXCEPT !.lease = now + term] \in Record
        /\ UpTo([store[t] EXCEPT !.lease = now + term], issued)
    BY <1>1, <1>2, <1>25, TermsAssumption DEF Renew, Record, UpTo
  <2> QED
    BY <1>25, <2>1, <1>6, <1>7, <1>8 DEF Renew, NoIssue
<1>26. ASSUME NEW t \in Tasks, NEW c \in Clients, NEW s \in Statuses, NEW flag \in BOOLEAN,
              Update(c, t, s, flag)
       PROVE  Stored /\ Copied /\ Latest
  <2> DEFINE r == [copy[c][t] EXCEPT !.status = s, !.final = copy[c][t].final \/ flag,
                     !.result = IF copy[c][t].claim # NoClaim THEN copy[c][t].claim ELSE copy[c][t].result]
  <2>1. r \in Record
    BY <1>3, <1>26, UpdatedType DEF Update
  <2>2. UpTo(r, issued)
    BY <1>3, <1>26 DEF Update, Record, UpTo
  <2>3. Save(t, r) /\ Keep(c, t, r) /\ UNCHANGED <<sweep, now, issued, newest>>
    BY <1>26 DEF Update, NoIssue
  <2> HIDE DEF r
  <2> QED
    BY <2>1, <2>2, <2>3, <1>6, <1>7, <1>8
<1>27. ASSUME NEW t \in Tasks, NEW c \in Clients, NEW s \in MoveTargets, MoveCopy(c, t, s)
       PROVE  Stored /\ Copied /\ Latest
  <2>1. store[t] \in Record /\ copy[c][t] \in Record /\ s \in Statuses
        /\ UpTo(store[t], issued) /\ UpTo(copy[c][t], issued)
    BY <1>2, <1>3, <1>27, TargetsAssumption DEF MoveCopy
  <2>2. Keep(c, t, store'[t])
    BY <1>27 DEF MoveCopy
  <2>3. CASE MoveWithLease(t)
    <3>1. PICK term \in Terms : Save(t, NewLease(store[t], term))
      BY <2>3 DEF MoveWithLease
    <3>2. NewLease(store[t], term) \in Record /\ UpTo(NewLease(store[t], term), issued + 1)
      BY <1>1, <2>1, NewLeaseType, NewLeaseUpTo
    <3>3. store'[t] = NewLease(store[t], term)
      BY <1>1, <3>1 DEF Save
    <3> QED
      BY <2>2, <2>3, <3>1, <3>2, <3>3, <1>9, <1>10, <1>11 DEF MoveWithLease
  <2>4. CASE Save(t, Moved(t, s, copy[c][t])) /\ NoIssue
    <3>1. Moved(t, s, copy[c][t]) \in Record /\ UpTo(Moved(t, s, copy[c][t]), issued)
      BY <2>1, <1>1, MovedUpTo
    <3>2. store'[t] = Moved(t, s, copy[c][t])
      BY <1>1, <2>4 DEF Save
    <3> QED
      BY <2>2, <2>4, <3>1, <3>2, <1>6, <1>7, <1>8 DEF NoIssue
  <2> QED
    BY <1>27, <2>3, <2>4 DEF MoveCopy
<1>28. ASSUME NEW t \in Tasks, NEW c \in Clients, NEW s \in MoveTargets, MoveByClaim(c, t, s)
       PROVE  Stored /\ Copied /\ Latest
  <2>1. Moved(t, s, store[t]) \in Record /\ UpTo(Moved(t, s, store[t]), issued)
    BY <1>1, <1>2, <1>28, MovedUpTo, TargetsAssumption DEF MoveByClaim
  <2>2. store'[t] = Moved(t, s, store[t])
    BY <1>1, <1>28 DEF MoveByClaim, Save
  <2> QED
    BY <1>28, <2>1, <2>2, <1>6, <1>7, <1>8 DEF MoveByClaim, NoIssue
<1> QED
  BY <1>12, <1>13, <1>14, <1>15, <1>16, <1>17, <1>18, <1>19, <1>20, <1>21, <1>22, <1>23, <1>24,
     <1>25, <1>26, <1>27, <1>28 DEF Next

LEMMA TypeStep == TypeOK /\ [Next]_vars => TypeOK'
BY ShapeStep, CredentialsStep DEF TypeOK, Records, Objects, Rest

\* Every record and every Task object the callers hold stays well formed, and none of
\* their credentials is from the future.
THEOREM TypeCorrect == Spec => []TypeOK
BY TypeInit, TypeStep, PTL DEF Spec

-----------------------------------------------------------------------------
(* An active task has an owner. *)

\* A claim comes with an expiry, in the store and in every Task object ...
Stamped(r) == r.claim # NoClaim => r.lease # 0
Owned(r) == Stamped(r) /\ (r.status = "active" => r.claim # NoClaim)

\* ... and that is what makes "active records are claimed" inductive: whoever writes
\* an active object back must hold the claim that is in the store.
LeaseInv ==
    /\ TypeOK
    /\ \A t \in Tasks : Known(t) => Owned(store[t])
    /\ \A c \in Clients, t \in Tasks : Holds(c, t) => Stamped(copy[c][t])

LEMMA ClearLeaseOwned ==
    ASSUME NEW r \in Record, r.status # "active"
    PROVE  Owned(ClearLease(r)) /\ ClearLease(r).claim = NoClaim /\ ClearLease(r).status = r.status
BY DEF ClearLease, Record, Owned, Stamped

LEMMA NewLeaseOwned ==
    ASSUME NEW r \in Record, NEW term \in Terms, now \in Nat, issued \in Nat
    PROVE  Owned(NewLease(r, term))
BY NewLeaseType DEF Owned, Stamped, NoClaim

LEMMA MovedOwned ==
    ASSUME NEW r \in Record, NEW t, NEW s \in Statuses, s # "active"
    PROVE  /\ Moved(t, s, r) \in Record
           /\ Owned(Moved(t, s, r))
           /\ Moved(t, s, r).claim = NoClaim
           /\ Moved(t, s, r).status = s
<1>1. [r EXCEPT !.status = s] \in Record /\ [r EXCEPT !.status = s].status = s
  BY StatusType
<1> QED
  BY <1>1, ClearLeaseOwned, ClearLeaseType DEF Moved

LEMMA FailedOwned ==
    ASSUME NEW r \in Record, NEW f, now \in Nat
    PROVE  Owned(Failed(r, f)) /\ Failed(r, f).claim = NoClaim /\ Failed(r, f).status # "active"
<1> DEFINE tried == ClearLease([r EXCEPT !.retry = r.retry + 1])
<1>1. tried \in Record /\ tried.claim = NoClaim
  <2>1. [r EXCEPT !.retry = r.retry + 1] \in Record
    BY DEF Record
  <2> QED
    BY <2>1, ClearLeaseType DEF ClearLease, Record
<1> HIDE DEF tried
<1>2. Failed(r, f) \in {[tried EXCEPT !.status = "blocked", !.block = ManualGate],
                        [tried EXCEPT !.status = "blocked", !.block = "external_condition_blocked"],
                        [tried EXCEPT !.status = "graveyard"],
                        [tried EXCEPT !.status = "pending", !.retryAt = now + 1]}
  BY DEF Failed, tried
<1> QED
  BY <1>1, <1>2 DEF Record, Owned, Stamped

LEMMA SaveOwned ==
    ASSUME LeaseInv, NEW t \in Tasks, NEW r \in Record, Save(t, r), Owned(r)
    PROVE  \A u \in Tasks : Known(u)' => Owned(store[u])'
BY DEF LeaseInv, TypeOK, Save, Known, Owned, Stamped

LEMMA KeepStamped ==
    ASSUME LeaseInv, NEW c \in Clients, NEW t \in Tasks, NEW r \in Record, Keep(c, t, r), Stamped(r)
    PROVE  \A d \in Clients, u \in Tasks : Holds(d, u)' => Stamped(copy[d][u])'
BY DEF LeaseInv, TypeOK, Keep, Holds, Stamped

LEMMA LeaseInit == Init => LeaseInv
BY TypeInit DEF Init, LeaseInv, Known, Holds

LEMMA LeaseStep == ASSUME "active" \notin MoveTargets PROVE LeaseInv /\ [Next]_vars => LeaseInv'
<1> DEFINE StoreOwned == \A u \in Tasks : Known(u) => Owned(store[u])
           CopyStamped == \A d \in Clients, u \in Tasks : Holds(d, u) => Stamped(copy[d][u])
<1> SUFFICES ASSUME LeaseInv, [Next]_vars PROVE StoreOwned' /\ CopyStamped'
  BY TypeStep DEF LeaseInv
<1>1. TypeOK /\ StoreOwned /\ CopyStamped /\ now \in Nat /\ issued \in Nat
  BY DEF LeaseInv, TypeOK
<1>2. ASSUME NEW t \in Tasks, Known(t) PROVE store[t] \in Record /\ Owned(store[t])
  BY <1>1, <1>2 DEF TypeOK, Known
<1>3. ASSUME NEW c \in Clients, NEW t \in Tasks, Holds(c, t)
      PROVE  copy[c][t] \in Record /\ Stamped(copy[c][t])
  BY <1>1, <1>3 DEF TypeOK, Holds
<1>4. ASSUME UNCHANGED store PROVE StoreOwned'
  BY <1>1, <1>4 DEF Known, Owned, Stamped
<1>5. ASSUME UNCHANGED copy PROVE CopyStamped'
  BY <1>1, <1>5 DEF Holds, Stamped
<1>6. CASE UNCHANGED vars \/ Tick
  BY <1>6, <1>4, <1>5 DEF vars, Tick
<1>7. CASE ReclaimStale
  <2>1. ASSUME NEW t \in Tasks, Known(t)
        PROVE  Owned(ClearLease([store[t] EXCEPT !.status = "pending"]))
    BY <1>2, <2>1, ClearLeaseOwned, StatusType DEF Statuses
  <2>2. StoreOwned'
    BY <1>7, <1>1, <2>1 DEF ReclaimStale, Reclaimed, Known, Owned, Stamped
  <2> QED
    BY <1>7, <2>2, <1>5 DEF ReclaimStale, Reclaimed
<1>8. ASSUME NEW t \in Tasks, Create(t) PROVE StoreOwned' /\ CopyStamped'
  <2>1. Owned(NewTask)
    BY DEF NewTask, Owned, Stamped
  <2> QED
    BY <1>8, <2>1, <1>5, SaveOwned, NewTaskType DEF Create
<1>9. ASSUME NEW t \in Tasks, Reopen(t) PROVE StoreOwned' /\ CopyStamped'
  <2> DEFINE r == [store[t] EXCEPT !.status = "pending", !.block = "none", !.final = FALSE]
  <2>1. r \in Record /\ Owned(r)
    BY <1>2, <1>9 DEF Reopen, Record, Statuses, Owned, Stamped
  <2>2. Save(t, r) /\ UNCHANGED copy
    BY <1>9 DEF Reopen
  <2> HIDE DEF r
  <2> QED
    BY <2>1, <2>2, <1>5, SaveOwned
<1>10. ASSUME NEW t \in Tasks, PlanUnblock(t) \/ PlanBury(t) PROVE StoreOwned' /\ CopyStamped'
  BY <1>10, <1>4, <1>5 DEF PlanUnblock, PlanBury
<1>11. ASSUME NEW t \in Tasks, DoUnblock(t) PROVE StoreOwned' /\ CopyStamped'
  <2> DEFINE r == [store[t] EXCEPT !.status = "pending", !.block = "none"]
  <2>1. Known(t)
    BY <1>1, <1>11 DEF DoUnblock, TypeOK
  <2>2. r \in Record /\ Owned(r)
    BY <1>2, <2>1 DEF Record, Statuses, Owned, Stamped
  <2>3. (Save(t, r) \/ UNCHANGED store) /\ UNCHANGED copy
    BY <1>11 DEF DoUnblock
  <2> HIDE DEF r
  <2> QED
    BY <2>2, <2>3, <1>4, <1>5, SaveOwned
<1>12. ASSUME NEW t \in Tasks, DoBury(t) PROVE StoreOwned' /\ CopyStamped'
  <2>1. Known(t)
    BY <1>1, <1>12 DEF DoBury, TypeOK
  <2>2. Moved(t, "graveyard", store[t]) \in Record /\ Owned(Moved(t, "graveyard", store[t]))
    BY <1>2, <2>1, MovedOwned DEF Statuses
  <2> QED
    BY <1>12, <2>2, <1>4, <1>5, SaveOwned DEF DoBury
<1>13. ASSUME NEW t \in Tasks, NEW b \in BlockTypes, Block(t, b) PROVE StoreOwned' /\ CopyStamped'
  <2> DEFINE r == [store[t] EXCEPT !.status = "blocked", !.block = b]
  <2>1. r \in Record /\ r.status = "blocked"
    <3>1. store[t] \in Record
      BY <1>2, <1>13 DEF Block
    <3>2. "blocked" \in Statuses /\ b \in AllBlockTypes \cup {"none"}
      BY TypesAssumption DEF Statuses
    <3> QED
      BY <3>1, <3>2, BlockedType
  <2>2. Save(t, ClearLease(r)) /\ UNCHANGED copy
    BY <1>13 DEF Block
  <2> HIDE DEF r
  <2> QED
    BY <2>1, <2>2, <1>5, SaveOwned, ClearLeaseOwned, ClearLeaseType
<1>14. ASSUME NEW t \in Tasks, NEW f \in FailTypes, Fail(t, f) PROVE StoreOwned' /\ CopyStamped'
  BY <1>14, <1>1, <1>2, <1>5, SaveOwned, FailedOwned, FailedType DEF Fail
<1>15. ASSUME NEW t \in Tasks, NEW c \in Clients, Read(c, t) PROVE StoreOwned' /\ CopyStamped'
  BY <1>15, <1>2, <1>4, KeepStamped DEF Read, Owned
<1>16. ASSUME NEW t \in Tasks, NEW c \in Clients, ArchiveRefused(c, t) PROVE StoreOwned' /\ CopyStamped'
  BY <1>16, <1>3, <1>5, SaveOwned DEF ArchiveRefused, ArchivableCopy, Owned
<1>17. ASSUME NEW t \in Tasks, NEW c \in Clients, NEW term \in Terms, Claim(c, t, term)
       PROVE  StoreOwned' /\ CopyStamped'
  <2>1. NewLease(store[t], term) \in Record /\ Owned(NewLease(store[t], term))
    BY <1>1, <1>2, <1>17, NewLeaseType, NewLeaseOwned DEF Claim
  <2> QED
    BY <1>17, <2>1, SaveOwned, KeepStamped DEF Claim, Owned
<1>18. ASSUME NEW t \in Tasks, NEW c \in Clients, NEW term \in Terms, Renew(c, t, term)
       PROVE  StoreOwned' /\ CopyStamped'
  <2> DEFINE r == [store[t] EXCEPT !.lease = now + term]
  <2>1. r \in Record /\ Owned(r)
    BY <1>1, <1>2, <1>18, TermsAssumption DEF Renew, Record, Owned, Stamped
  <2>2. Save(t, r) /\ Keep(c, t, r)
    BY <1>18 DEF Renew
  <2> HIDE DEF r
  <2> QED
    BY <2>1, <2>2, SaveOwned, KeepStamped DEF Owned
<1>19. ASSUME NEW t \in Tasks, NEW c \in Clients, NEW s \in Statuses, NEW flag \in BOOLEAN,
              Update(c, t, s, flag)
       PROVE  StoreOwned' /\ CopyStamped'
  <2> DEFINE mine == copy[c][t]
             r == [mine EXCEPT !.status = s, !.final = mine.final \/ flag,
                     !.result = IF mine.claim # NoClaim THEN mine.claim ELSE mine.result]
  <2>1. r \in Record
    BY <1>3, <1>19, UpdatedType DEF Update
  <2>2. r.claim = mine.claim /\ r.lease = mine.lease /\ r.status = s
    BY <1>3, <1>19 DEF Update, Record
  <2>3. s = "active" => mine.claim # NoClaim
    BY <1>2, <1>3, <1>19 DEF Update, FencePasses, Owned
  <2>4. Owned(r)
    BY <1>3, <1>19, <2>2, <2>3 DEF Update, Owned, Stamped
  <2>5. Save(t, r) /\ Keep(c, t, r)
    BY <1>19 DEF Update
  <2> HIDE DEF r
  <2> QED
    BY <2>1, <2>4, <2>5, SaveOwned, KeepStamped DEF Owned
<1>20. ASSUME NEW t \in Tasks, NEW c \in Clients, NEW s \in MoveTargets, MoveCopy(c, t, s)
       PROVE  StoreOwned' /\ CopyStamped'
  <2>1. copy[c][t] \in Record /\ s \in Statuses /\ s # "active"
    BY <1>3, <1>20, TargetsAssumption DEF MoveCopy
  <2>2. Save(t, Moved(t, s, copy[c][t])) /\ Keep(c, t, store'[t])
    BY <1>20, <2>1 DEF MoveCopy, Materialises
  <2>3. store'[t] = Moved(t, s, copy[c][t])
    BY <1>1, <2>2 DEF Save, TypeOK
  <2> QED
    BY <2>1, <2>2, <2>3, MovedOwned, SaveOwned, KeepStamped DEF Owned
<1>21. ASSUME NEW t \in Tasks, NEW c \in Clients, NEW s \in MoveTargets, MoveByClaim(c, t, s)
       PROVE  StoreOwned' /\ CopyStamped'
  <2>1. store[t] \in Record /\ s \in Statuses /\ s # "active"
    BY <1>2, <1>21, TargetsAssumption DEF MoveByClaim
  <2>2. Save(t, Moved(t, s, store[t])) /\ Keep(c, t, store'[t])
    BY <1>21 DEF MoveByClaim
  <2>3. store'[t] = Moved(t, s, store[t])
    BY <1>1, <2>2 DEF Save, TypeOK
  <2> QED
    BY <2>1, <2>2, <2>3, MovedOwned, SaveOwned, KeepStamped DEF Owned
<1> QED
  BY <1>6, <1>7, <1>8, <1>9, <1>10, <1>11, <1>12, <1>13, <1>14, <1>15, <1>16, <1>17, <1>18,
     <1>19, <1>20, <1>21 DEF Next

\* As long as no caller passes "active" to move_task, no interleaving of the pool's
\* operations and of write-backs of stale objects leaves an active task unowned.
THEOREM ActiveAlwaysLeased ==
    ASSUME "active" \notin MoveTargets
    PROVE  Spec => []ActiveIsLeased
<1>1. LeaseInv => ActiveIsLeased
  BY DEF LeaseInv, ActiveIsLeased, Owned, Stamped
<1> QED
  BY LeaseInit, LeaseStep, <1>1, PTL DEF Spec

-----------------------------------------------------------------------------
(* No lease is taken from under its holder. *)

LEMMA SaveOnly ==
    ASSUME TypeOK, NEW t \in Tasks, NEW r, Save(t, r), NEW u \in Tasks
    PROVE  store'[u] = IF u = t THEN r ELSE store[u]
BY DEF TypeOK, Save

LEMMA MovedClaim ==
    ASSUME NEW r \in Record, NEW t, NEW s \in Statuses
    PROVE  Moved(t, s, r).claim \in {r.claim, NoClaim}
<1>1. [r EXCEPT !.status = s] \in Record /\ [r EXCEPT !.status = s].claim = r.claim
  BY DEF Record
<1> QED
  BY <1>1 DEF Moved, ClearLease, Record

LEMMA LeaseKept ==
    ASSUME TypeOK, [Next]_vars, NEW u \in Tasks, Known(u), Live(store[u])
    PROVE  store'[u].claim \in {store[u].claim, NoClaim}
<1> DEFINE Kept == store'[u].claim \in {store[u].claim, NoClaim}
<1>1. /\ store[u] \in Record /\ now \in Nat
      /\ store[u].status = "active" /\ store[u].claim # NoClaim /\ ~Expired(store[u])
  BY DEF TypeOK, Known, Live, Expired, Record
<1>2. ASSUME NEW t \in Tasks, NEW r, Save(t, r), t = u => r.claim \in {store[u].claim, NoClaim}
      PROVE  Kept
  BY <1>2, SaveOnly
<1>3. ASSUME NEW t \in Tasks, t # u, NEW r, Save(t, r) PROVE Kept
  BY <1>3, SaveOnly
<1>4. CASE UNCHANGED vars \/ Tick
  BY <1>4 DEF vars, Tick
<1>5. CASE ReclaimStale
  BY <1>5, <1>1 DEF ReclaimStale, Reclaimed
<1>6. ASSUME NEW t \in Tasks, Create(t) PROVE Kept
  BY <1>6, <1>3 DEF Create
<1>7. ASSUME NEW t \in Tasks, Reopen(t) PROVE Kept
  BY <1>7, <1>1, <1>3 DEF Reopen
<1>8. ASSUME NEW t \in Tasks, PlanUnblock(t) \/ PlanBury(t) PROVE Kept
  BY <1>8 DEF PlanUnblock, PlanBury
<1>9. ASSUME NEW t \in Tasks, DoUnblock(t) PROVE Kept
  BY <1>9, <1>1, <1>3 DEF DoUnblock, Unblockable
<1>10. ASSUME NEW t \in Tasks, DoBury(t) PROVE Kept
  <2>1. Moved(u, "graveyard", store[u]).claim \in {store[u].claim, NoClaim}
    BY <1>1, MovedClaim DEF Statuses
  <2> QED
    BY <1>10, <2>1, <1>2 DEF DoBury
<1>11. ASSUME NEW t \in Tasks, NEW b \in BlockTypes, Block(t, b) PROVE Kept
  <2>1. ClearLease([store[u] EXCEPT !.status = "blocked", !.block = b]).claim = NoClaim
    BY <1>1 DEF ClearLease, Record
  <2> QED
    BY <1>11, <2>1, <1>2 DEF Block
<1>12. ASSUME NEW t \in Tasks, NEW f \in FailTypes, Fail(t, f) PROVE Kept
  <2>1. Failed(store[u], f).claim = NoClaim
    BY <1>1, FailedOwned
  <2> QED
    BY <1>12, <2>1, <1>2 DEF Fail
<1>13. ASSUME NEW t \in Tasks, NEW c \in Clients, Read(c, t) PROVE Kept
  BY <1>13 DEF Read
<1>14. ASSUME NEW t \in Tasks, NEW c \in Clients, ArchiveRefused(c, t) PROVE Kept
  BY <1>14, <1>1, <1>2 DEF ArchiveRefused, FencePasses
<1>15. ASSUME NEW t \in Tasks, NEW c \in Clients, NEW term \in Terms, Claim(c, t, term) PROVE Kept
  BY <1>15, <1>1, <1>3 DEF Claim
<1>16. ASSUME NEW t \in Tasks, NEW c \in Clients, NEW term \in Terms, Renew(c, t, term) PROVE Kept
  <2>1. [store[u] EXCEPT !.lease = now + term].claim = store[u].claim
    BY <1>1 DEF Record
  <2> QED
    BY <1>16, <2>1, <1>2 DEF Renew
<1>17. ASSUME NEW t \in Tasks, NEW c \in Clients, NEW s \in Statuses, NEW flag \in BOOLEAN,
              Update(c, t, s, flag)
       PROVE  Kept
  <2> DEFINE r == [copy[c][t] EXCEPT !.status = s, !.final = copy[c][t].final \/ flag,
                     !.result = IF copy[c][t].claim # NoClaim THEN copy[c][t].claim ELSE copy[c][t].result]
  <2>1. copy[c][t] \in Record
    BY <1>17 DEF Update, TypeOK, Holds
  <2>2. r.claim = copy[c][t].claim
    BY <2>1 DEF Record
  <2>3. Save(t, r) /\ (store[t].claim = NoClaim \/ copy[c][t].claim = store[t].claim)
    BY <1>17 DEF Update, FencePasses
  <2> HIDE DEF r
  <2> QED
    BY <2>2, <2>3, <1>1, <1>2
<1>18. ASSUME NEW t \in Tasks, NEW c \in Clients, NEW s \in MoveTargets, MoveCopy(c, t, s) PROVE Kept
  <2>1. copy[c][t] \in Record /\ s \in Statuses
    BY <1>18, TargetsAssumption DEF MoveCopy, TypeOK, Holds
  <2>2. Moved(t, s, copy[c][t]).claim \in {copy[c][t].claim, NoClaim}
    BY <2>1, MovedClaim
  <2>3. store[t].claim = NoClaim \/ copy[c][t].claim = store[t].claim
    BY <1>18 DEF MoveCopy, MoveAllowed, FencePasses
  <2>4. CASE Materialises(t, s, copy[c][t].claim)
    BY <1>18, <2>4, <1>1, <1>3 DEF MoveCopy, MoveWithLease, Materialises
  <2>5. CASE ~Materialises(t, s, copy[c][t].claim)
    BY <1>18, <2>2, <2>3, <2>5, <1>1, <1>2 DEF MoveCopy
  <2> QED
    BY <2>4, <2>5
<1>19. ASSUME NEW t \in Tasks, NEW c \in Clients, NEW s \in MoveTargets, MoveByClaim(c, t, s) PROVE Kept
  <2>1. Moved(u, s, store[u]).claim \in {store[u].claim, NoClaim}
    BY <1>1, MovedClaim, TargetsAssumption
  <2> QED
    BY <1>19, <2>1, <1>2 DEF MoveByClaim
<1> QED
  BY <1>4, <1>5, <1>6, <1>7, <1>8, <1>9, <1>10, <1>11, <1>12, <1>13, <1>14, <1>15, <1>16,
     <1>17, <1>18, <1>19 DEF Next

\* While a lease is live no step of anybody hands the task to another claim.
THEOREM NoLeaseTaken == Spec => LiveLeaseNotTaken
<1>1. TypeOK /\ [Next]_vars =>
        [\A t \in Tasks :
           Known(t) /\ Live(store[t]) => store'[t].claim \in {store[t].claim, NoClaim}]_vars
  BY LeaseKept
<1> QED
  BY TypeCorrect, <1>1, PTL DEF Spec, LiveLeaseNotTaken

-----------------------------------------------------------------------------
(* The newest claim is the one that holds the task. *)

\* When callers leave the status of their objects alone, a claim travels with the
\* active status in every object as well, and that is what keeps an old claim from
\* slipping back into the store with a stale object.
Pure(r) == r.status = "active" <=> r.claim # NoClaim

NewestInv ==
    /\ TypeOK
    /\ NewestClaimHoldsTask
    /\ \A c \in Clients, t \in Tasks : Holds(c, t) => Pure(copy[c][t])

\* The store may be written with an unclaimed record, or under the claim it has.
Agrees(r, claim) == IF r.status = "active" THEN r.claim = claim /\ claim # NoClaim ELSE r.claim = NoClaim

LEMMA SaveAgrees ==
    ASSUME NewestInv, NEW t \in Tasks, NEW r \in Record, Save(t, r), UNCHANGED newest,
           Agrees(r, newest[t])
    PROVE  NewestClaimHoldsTask'
BY DEF NewestInv, NewestClaimHoldsTask, TypeOK, Save, Known, Agrees

LEMMA ClaimAgrees ==
    ASSUME NewestInv, NEW t \in Tasks, NEW term \in Terms, store[t] \in Record,
           Save(t, NewLease(store[t], term)), Issue(t)
    PROVE  NewestClaimHoldsTask'
<1>1. NewLease(store[t], term).status = "active" /\ NewLease(store[t], term).claim = issued + 1
  BY NewLeaseType DEF NewestInv, TypeOK
<1>2. issued + 1 # NoClaim
  BY DEF NewestInv, TypeOK, NoClaim
<1> QED
  BY <1>1, <1>2 DEF NewestInv, NewestClaimHoldsTask, TypeOK, Save, Issue, Known

LEMMA KeepPure ==
    ASSUME NewestInv, NEW c \in Clients, NEW t \in Tasks, NEW r, Keep(c, t, r), Pure(r)
    PROVE  \A d \in Clients, u \in Tasks : Holds(d, u)' => Pure(copy[d][u])'
BY DEF NewestInv, TypeOK, Keep, Holds, Pure

LEMMA NewestInit == Init => NewestInv
BY TypeInit DEF Init, NewestInv, NewestClaimHoldsTask, Known, Holds

LEMMA NewestStep ==
    ASSUME "active" \notin MoveTargets, EditTargets = {}
    PROVE  NewestInv /\ [Next]_vars => NewestInv'
<1> DEFINE CopyPure == \A d \in Clients, u \in Tasks : Holds(d, u) => Pure(copy[d][u])
<1> SUFFICES ASSUME NewestInv, [Next]_vars PROVE NewestClaimHoldsTask' /\ CopyPure'
  BY TypeStep DEF NewestInv
<1>1. TypeOK /\ NewestClaimHoldsTask /\ CopyPure /\ now \in Nat /\ issued \in Nat
  BY DEF NewestInv, TypeOK
<1>2. ASSUME NEW t \in Tasks, Known(t)
      PROVE  store[t] \in Record /\ Agrees(store[t], newest[t]) /\ Pure(store[t])
  BY <1>1, <1>2 DEF TypeOK, Known, NewestClaimHoldsTask, Agrees, Pure
<1>3. ASSUME NEW c \in Clients, NEW t \in Tasks, Holds(c, t)
      PROVE  copy[c][t] \in Record /\ Pure(copy[c][t])
  BY <1>1, <1>3 DEF TypeOK, Holds
<1>4. ASSUME UNCHANGED <<store, newest>> PROVE NewestClaimHoldsTask'
  BY <1>1, <1>4 DEF NewestClaimHoldsTask, Known
<1>5. ASSUME UNCHANGED copy PROVE CopyPure'
  BY <1>1, <1>5 DEF Holds, Pure
<1>6. CASE UNCHANGED vars \/ Tick
  BY <1>6, <1>4, <1>5 DEF vars, Tick
<1>7. CASE ReclaimStale
  <2>1. ASSUME NEW t \in Tasks, Known(t)
        PROVE  /\ ClearLease([store[t] EXCEPT !.status = "pending"]).claim = NoClaim
               /\ ClearLease([store[t] EXCEPT !.status = "pending"]).status = "pending"
    <3>1. store[t] \in Record /\ "pending" \in Statuses
      BY <1>2, <2>1 DEF Statuses
    <3>2. /\ [store[t] EXCEPT !.status = "pending"] \in Record
          /\ [store[t] EXCEPT !.status = "pending"].status = "pending"
      BY <3>1, StatusType
    <3> QED
      BY <3>2, ClearLeaseOwned
  <2>2. NewestClaimHoldsTask'
    BY <1>7, <1>1, <2>1 DEF ReclaimStale, Reclaimed, NewestClaimHoldsTask, Known, NoIssue
  <2> QED
    BY <1>7, <2>2, <1>5 DEF ReclaimStale, Reclaimed
<1>8. ASSUME NEW t \in Tasks, Create(t) PROVE NewestClaimHoldsTask' /\ CopyPure'
  <2>1. Agrees(NewTask, newest[t])
    BY DEF NewTask, Agrees
  <2> QED
    BY <1>8, <2>1, <1>5, SaveAgrees, NewTaskType DEF Create
<1>9. ASSUME NEW t \in Tasks, Reopen(t) PROVE NewestClaimHoldsTask' /\ CopyPure'
  <2> DEFINE r == [store[t] EXCEPT !.status = "pending", !.block = "none", !.final = FALSE]
  <2>1. r \in Record /\ Agrees(r, newest[t])
    BY <1>2, <1>9 DEF Reopen, Record, Statuses, Agrees
  <2>2. Save(t, r) /\ UNCHANGED <<copy, newest>>
    BY <1>9 DEF Reopen, NoIssue
  <2> HIDE DEF r
  <2> QED
    BY <2>1, <2>2, <1>5, SaveAgrees
<1>10. ASSUME NEW t \in Tasks, PlanUnblock(t) \/ PlanBury(t) PROVE NewestClaimHoldsTask' /\ CopyPure'
  BY <1>10, <1>4, <1>5 DEF PlanUnblock, PlanBury
<1>11. ASSUME NEW t \in Tasks, DoUnblock(t) PROVE NewestClaimHoldsTask' /\ CopyPure'
  <2> DEFINE r == [store[t] EXCEPT !.status = "pending", !.block = "none"]
  <2>1. Known(t)
    BY <1>1, <1>11 DEF DoUnblock, TypeOK
  <2>2. r \in Record /\ (Unblockable(t) => Agrees(r, newest[t]))
    BY <1>2, <2>1 DEF Record, Statuses, Agrees, Unblockable
  <2>3. ((Unblockable(t) /\ Save(t, r)) \/ UNCHANGED store) /\ UNCHANGED <<copy, newest>>
    BY <1>11 DEF DoUnblock
  <2> HIDE DEF r
  <2> QED
    BY <2>2, <2>3, <1>4, <1>5, SaveAgrees
<1>12. ASSUME NEW t \in Tasks, DoBury(t) PROVE NewestClaimHoldsTask' /\ CopyPure'
  <2> DEFINE r == Moved(t, "graveyard", store[t])
  <2>1. Known(t)
    BY <1>1, <1>12 DEF DoBury, TypeOK
  <2>2. r \in Record /\ Agrees(r, newest[t])
    BY <1>2, <2>1, MovedOwned DEF Statuses, Agrees
  <2> QED
    BY <1>12, <2>2, <1>4, <1>5, SaveAgrees DEF DoBury
<1>13. ASSUME NEW t \in Tasks, NEW b \in BlockTypes, Block(t, b) PROVE NewestClaimHoldsTask' /\ CopyPure'
  <2> DEFINE r == [store[t] EXCEPT !.status = "blocked", !.block = b]
  <2>1. r \in Record /\ r.status = "blocked"
    <3>1. store[t] \in Record
      BY <1>2, <1>13 DEF Block
    <3>2. "blocked" \in Statuses /\ b \in AllBlockTypes \cup {"none"}
      BY TypesAssumption DEF Statuses
    <3> QED
      BY <3>1, <3>2, BlockedType
  <2>2. Save(t, ClearLease(r)) /\ UNCHANGED <<copy, newest>>
    BY <1>13 DEF Block, NoIssue
  <2> HIDE DEF r
  <2> QED
    BY <2>1, <2>2, <1>5, SaveAgrees, ClearLeaseOwned, ClearLeaseType DEF Agrees
<1>14. ASSUME NEW t \in Tasks, NEW f \in FailTypes, Fail(t, f) PROVE NewestClaimHoldsTask' /\ CopyPure'
  <2>1. Failed(store[t], f) \in Record /\ Agrees(Failed(store[t], f), newest[t])
    BY <1>1, <1>2, <1>14, FailedOwned, FailedType DEF Fail, Agrees
  <2> QED
    BY <1>14, <2>1, <1>5, SaveAgrees DEF Fail, NoIssue
<1>15. ASSUME NEW t \in Tasks, NEW c \in Clients, Read(c, t) PROVE NewestClaimHoldsTask' /\ CopyPure'
  BY <1>15, <1>2, <1>4, KeepPure DEF Read
<1>16. ASSUME NEW t \in Tasks, NEW c \in Clients, ArchiveRefused(c, t)
       PROVE  NewestClaimHoldsTask' /\ CopyPure'
  <2>1. copy[c][t] \in Record /\ Agrees(copy[c][t], newest[t])
    BY <1>3, <1>16 DEF ArchiveRefused, ArchivableCopy, Pure, Agrees
  <2> QED
    BY <1>16, <2>1, <1>5, SaveAgrees DEF ArchiveRefused, NoIssue
<1>17. ASSUME NEW t \in Tasks, NEW c \in Clients, NEW term \in Terms, Claim(c, t, term)
       PROVE  NewestClaimHoldsTask' /\ CopyPure'
  <2>1. store[t] \in Record
    BY <1>2, <1>17 DEF Claim
  <2>2. Pure(NewLease(store[t], term))
    BY <1>1, <2>1, NewLeaseType DEF Pure, NoClaim
  <2> QED
    BY <1>17, <2>1, <2>2, ClaimAgrees, KeepPure DEF Claim
<1>18. ASSUME NEW t \in Tasks, NEW c \in Clients, NEW term \in Terms, Renew(c, t, term)
       PROVE  NewestClaimHoldsTask' /\ CopyPure'
  <2> DEFINE r == [store[t] EXCEPT !.lease = now + term]
  <2>1. r \in Record /\ Agrees(r, newest[t]) /\ Pure(r)
    BY <1>1, <1>2, <1>18, TermsAssumption DEF Renew, Record, Agrees, Pure
  <2>2. Save(t, r) /\ Keep(c, t, r) /\ UNCHANGED newest
    BY <1>18 DEF Renew, NoIssue
  <2> HIDE DEF r
  <2> QED
    BY <2>1, <2>2, SaveAgrees, KeepPure
<1>19. ASSUME NEW t \in Tasks, NEW c \in Clients, NEW s \in Statuses, NEW flag \in BOOLEAN,
              Update(c, t, s, flag)
       PROVE  NewestClaimHoldsTask' /\ CopyPure'
  <2> DEFINE mine == copy[c][t]
             r == [mine EXCEPT !.status = s, !.final = mine.final \/ flag,
                     !.result = IF mine.claim # NoClaim THEN mine.claim ELSE mine.result]
  <2>1. r \in Record
    BY <1>3, <1>19, UpdatedType DEF Update
  <2>2. r.claim = mine.claim /\ r.status = s /\ s = mine.status
    BY <1>3, <1>19 DEF Update, Record
  <2>3. Pure(r)
    BY <1>3, <1>19, <2>2 DEF Update, Pure
  <2>4. s = "active" => store[t].claim = mine.claim /\ store[t].claim # NoClaim
    BY <1>2, <1>3, <1>19, <2>2 DEF Update, FencePasses, Pure
  <2>5. Agrees(r, newest[t])
    <3>1. CASE s = "active"
      <4>1. store[t].status = "active" /\ store[t].claim = newest[t] /\ newest[t] # NoClaim
        BY <1>2, <1>19, <2>4, <3>1 DEF Update, Agrees, Pure
      <4> QED
        BY <2>2, <2>4, <3>1, <4>1 DEF Agrees
    <3>2. CASE s # "active"
      BY <2>2, <2>3, <3>2 DEF Agrees, Pure
    <3> QED
      BY <3>1, <3>2
  <2>6. Save(t, r) /\ Keep(c, t, r) /\ UNCHANGED newest
    BY <1>19 DEF Update, NoIssue
  <2> HIDE DEF r
  <2> QED
    BY <2>1, <2>3, <2>5, <2>6, SaveAgrees, KeepPure
<1>20. ASSUME NEW t \in Tasks, NEW c \in Clients, NEW s \in MoveTargets, MoveCopy(c, t, s)
       PROVE  NewestClaimHoldsTask' /\ CopyPure'
  <2> DEFINE r == Moved(t, s, copy[c][t])
  <2>1. copy[c][t] \in Record /\ s \in Statuses /\ s # "active"
    BY <1>3, <1>20, TargetsAssumption DEF MoveCopy
  <2>2. r \in Record /\ Agrees(r, newest[t]) /\ Pure(r)
    BY <2>1, MovedOwned DEF Agrees, Pure
  <2>3. Save(t, r) /\ Keep(c, t, store'[t]) /\ UNCHANGED newest
    BY <1>20, <2>1 DEF MoveCopy, Materialises, NoIssue
  <2>4. store'[t] = r
    BY <1>1, <2>3 DEF Save, TypeOK
  <2> HIDE DEF r
  <2> QED
    BY <2>2, <2>3, <2>4, SaveAgrees, KeepPure
<1>21. ASSUME NEW t \in Tasks, NEW c \in Clients, NEW s \in MoveTargets, MoveByClaim(c, t, s)
       PROVE  NewestClaimHoldsTask' /\ CopyPure'
  <2> DEFINE r == Moved(t, s, store[t])
  <2>1. store[t] \in Record /\ s \in Statuses /\ s # "active"
    BY <1>2, <1>21, TargetsAssumption DEF MoveByClaim
  <2>2. r \in Record /\ Agrees(r, newest[t]) /\ Pure(r)
    BY <2>1, MovedOwned DEF Agrees, Pure
  <2>3. Save(t, r) /\ Keep(c, t, store'[t]) /\ UNCHANGED newest
    BY <1>21 DEF MoveByClaim, NoIssue
  <2>4. store'[t] = r
    BY <1>1, <2>3 DEF Save, TypeOK
  <2> HIDE DEF r
  <2> QED
    BY <2>2, <2>3, <2>4, SaveAgrees, KeepPure
<1> QED
  BY <1>6, <1>7, <1>8, <1>9, <1>10, <1>11, <1>12, <1>13, <1>14, <1>15, <1>16, <1>17, <1>18,
     <1>19, <1>20, <1>21 DEF Next

\* When callers do not rewrite the status of their objects, an active task is held by
\* the newest claim issued for it and no other record carries a claim at all.
THEOREM NewestClaimAlwaysHolds ==
    ASSUME "active" \notin MoveTargets, EditTargets = {}
    PROVE  Spec => []NewestClaimHoldsTask
<1>1. NewestInv => NewestClaimHoldsTask
  BY DEF NewestInv
<1> QED
  BY NewestInit, NewestStep, <1>1, PTL DEF Spec

-----------------------------------------------------------------------------
(* What no step may do to a record: tokens and the transition table. *)

LEMMA MovedKeeps ==
    ASSUME NEW r \in Record, NEW t, NEW s \in Statuses
    PROVE  Moved(t, s, r).token = r.token /\ Moved(t, s, r).status = s
<1>1. [r EXCEPT !.status = s] \in Record /\ [r EXCEPT !.status = s].token = r.token
  BY DEF Record
<1> QED
  BY <1>1, StatusType DEF Moved, ClearLease, Record

LEMMA FailedKeeps ==
    ASSUME NEW r \in Record, NEW f, now \in Nat
    PROVE  Failed(r, f).token = r.token /\ Failed(r, f).retry = r.retry + 1
<1> DEFINE tried == ClearLease([r EXCEPT !.retry = r.retry + 1])
<1>1. tried \in Record /\ tried.token = r.token /\ tried.retry = r.retry + 1
  <2>1. [r EXCEPT !.retry = r.retry + 1] \in Record
    BY DEF Record
  <2> QED
    BY <2>1, ClearLeaseType DEF ClearLease, Record
<1> HIDE DEF tried
<1>2. Failed(r, f) \in {[tried EXCEPT !.status = "blocked", !.block = ManualGate],
                        [tried EXCEPT !.status = "blocked", !.block = "external_condition_blocked"],
                        [tried EXCEPT !.status = "graveyard"],
                        [tried EXCEPT !.status = "pending", !.retryAt = now + 1]}
  BY DEF Failed, tried
<1> QED
  BY <1>1, <1>2 DEF Record

LEMMA UpdatedKeeps ==
    ASSUME NEW r \in Record, NEW s \in Statuses, NEW flag \in BOOLEAN
    PROVE  LET w == [r EXCEPT !.status = s, !.final = r.final \/ flag,
                              !.result = IF r.claim # NoClaim THEN r.claim ELSE r.result]
           IN w.token = r.token /\ w.status = s
BY DEF Record

LEMMA NewLeaseKeeps ==
    ASSUME NEW r \in Record, NEW term
    PROVE  NewLease(r, term).token = r.token + 1 /\ NewLease(r, term).status = "active"
BY DEF NewLease, Record

\* What one step may do to the record of a known task u: its token goes back only
\* while nobody holds u; its status follows the table unless u is blocked, a failure
\* is counted, or a refused archiving writes the caller's object back.
TokenKept(u) == store[u].claim # NoClaim => store'[u].token >= store[u].token
TableKept(u) ==
    \/ store'[u].status = "blocked" \/ store'[u].retry = store[u].retry + 1
    \/ Reachable(store[u].status, store'[u].status)

LEMMA StepOnRecord ==
    ASSUME TypeOK, [Next]_vars, NEW u \in Tasks, Known(u)
    PROVE  TokenKept(u) /\ (TableKept(u) \/ \E c \in Clients : ArchiveRefused(c, u))
<1> DEFINE Kept == TokenKept(u) /\ (TableKept(u) \/ \E c \in Clients : ArchiveRefused(c, u))
<1>1. store[u] \in Record /\ now \in Nat /\ store[u].token \in Nat
  BY DEF TypeOK, Known, Record
<1>2. ASSUME store'[u] = store[u] PROVE Kept
  BY <1>1, <1>2 DEF TokenKept, TableKept, Reachable
<1>3. ASSUME NEW t \in Tasks, t # u, NEW r, Save(t, r) PROVE Kept
  BY <1>2, <1>3, SaveOnly
<1>4. ASSUME NEW r, Save(u, r), store[u].claim # NoClaim => r.token = store[u].token,
             \/ r.status = "blocked" \/ r.retry = store[u].retry + 1
             \/ Reachable(store[u].status, r.status)
      PROVE  Kept
  <2>1. store'[u] = r
    BY <1>4, SaveOnly
  <2>2. TableKept(u)
    BY <2>1, <1>4 DEF TableKept
  <2> QED
    BY <2>1, <2>2, <1>1, <1>4 DEF TokenKept
<1>5. CASE UNCHANGED vars \/ Tick
  BY <1>5, <1>2 DEF vars, Tick
<1>6. CASE ReclaimStale
  <2>1. CASE Expired(store[u])
    <3>1. store'[u] = Reclaimed(store[u])
      BY <1>6, <2>1 DEF ReclaimStale
    <3>2. Reclaimed(store[u]).token = store[u].token /\ Reclaimed(store[u]).status = "pending"
      BY <1>1 DEF Reclaimed, ClearLease, Record
    <3>3. TableKept(u)
      BY <2>1, <3>1, <3>2 DEF TableKept, Expired, Reachable, AllowedTransitions
    <3> QED
      BY <1>1, <3>1, <3>2, <3>3 DEF TokenKept
  <2>2. CASE ~Expired(store[u])
    BY <1>2, <1>6, <2>2 DEF ReclaimStale
  <2> QED
    BY <2>1, <2>2
<1>7. ASSUME NEW t \in Tasks, Create(t) PROVE Kept
  BY <1>7, <1>3 DEF Create
<1>8. ASSUME NEW t \in Tasks, Reopen(t) PROVE Kept
  <2> DEFINE r == [store[u] EXCEPT !.status = "pending", !.block = "none", !.final = FALSE]
  <2>1. r.token = store[u].token /\ r.status = "pending"
    BY <1>1 DEF Record
  <2>2. t = u => Save(u, r) /\ Reachable(store[u].status, "pending")
    BY <1>8 DEF Reopen, Reachable, AllowedTransitions
  <2> HIDE DEF r
  <2> QED
    BY <1>8, <2>1, <2>2, <1>3, <1>4 DEF Reopen
<1>9. ASSUME NEW t \in Tasks, PlanUnblock(t) \/ PlanBury(t) PROVE Kept
  BY <1>9, <1>2 DEF PlanUnblock, PlanBury
<1>10. ASSUME NEW t \in Tasks, DoUnblock(t) PROVE Kept
  <2> DEFINE r == [store[u] EXCEPT !.status = "pending", !.block = "none"]
  <2>1. r.token = store[u].token /\ r.status = "pending"
    BY <1>1 DEF Record
  <2>2. t = u => UNCHANGED store \/ (Save(u, r) /\ Reachable(store[u].status, "pending"))
    BY <1>10 DEF DoUnblock, Unblockable, Reachable, AllowedTransitions
  <2>3. t # u => UNCHANGED store \/ \E w : Save(t, w)
    BY <1>10 DEF DoUnblock
  <2> HIDE DEF r
  <2> QED
    BY <2>1, <2>2, <2>3, <1>2, <1>3, <1>4
<1>11. ASSUME NEW t \in Tasks, DoBury(t) PROVE Kept
  <2>1. /\ Moved(u, "graveyard", store[u]).token = store[u].token
        /\ Moved(u, "graveyard", store[u]).status = "graveyard"
    BY <1>1, MovedKeeps DEF Statuses
  <2>2. t = u => \/ UNCHANGED store
                 \/ Save(u, Moved(u, "graveyard", store[u])) /\ Reachable(store[u].status, "graveyard")
    BY <1>11 DEF DoBury, MoveAllowed
  <2>3. t # u => UNCHANGED store \/ \E w : Save(t, w)
    BY <1>11 DEF DoBury
  <2> QED
    BY <2>1, <2>2, <2>3, <1>2, <1>3, <1>4
<1>12. ASSUME NEW t \in Tasks, NEW b \in BlockTypes, Block(t, b) PROVE Kept
  <2> DEFINE r == ClearLease([store[u] EXCEPT !.status = "blocked", !.block = b])
  <2>1. r.token = store[u].token /\ r.status = "blocked"
    BY <1>1 DEF ClearLease, Record
  <2>2. t = u => Save(u, r)
    BY <1>12 DEF Block
  <2> HIDE DEF r
  <2> QED
    BY <1>12, <2>1, <2>2, <1>3, <1>4 DEF Block
<1>13. ASSUME NEW t \in Tasks, NEW f \in FailTypes, Fail(t, f) PROVE Kept
  BY <1>13, <1>1, <1>3, <1>4, FailedKeeps DEF Fail
<1>14. ASSUME NEW t \in Tasks, NEW c \in Clients, Read(c, t) PROVE Kept
  BY <1>14, <1>2 DEF Read
<1>15. ASSUME NEW t \in Tasks, NEW c \in Clients, ArchiveRefused(c, t) PROVE Kept
  <2>1. CASE t = u
    <3>1. store'[u] = copy[c][u] /\ (store[u].claim # NoClaim => copy[c][u].token = store[u].token)
      BY <1>15, <2>1, SaveOnly DEF ArchiveRefused, FencePasses
    <3> QED
      BY <1>1, <1>15, <2>1, <3>1 DEF TokenKept
  <2>2. CASE t # u
    BY <1>15, <2>2, <1>3 DEF ArchiveRefused
  <2> QED
    BY <2>1, <2>2
<1>16. ASSUME NEW t \in Tasks, NEW c \in Clients, NEW term \in Terms, Claim(c, t, term) PROVE Kept
  <2>1. CASE t = u
    <3>1. store'[u] = NewLease(store[u], term)
      BY <1>16, <2>1, SaveOnly DEF Claim
    <3>2. Reachable(store[u].status, "active")
      BY <1>16, <2>1 DEF Claim, Expired, Reachable, AllowedTransitions
    <3>3. store'[u].token = store[u].token + 1 /\ store'[u].status = "active"
      BY <1>1, <3>1, NewLeaseKeeps
    <3> QED
      BY <1>1, <3>2, <3>3 DEF TokenKept, TableKept
  <2>2. CASE t # u
    BY <1>16, <2>2, <1>3 DEF Claim
  <2> QED
    BY <2>1, <2>2
<1>17. ASSUME NEW t \in Tasks, NEW c \in Clients, NEW term \in Terms, Renew(c, t, term) PROVE Kept
  <2> DEFINE r == [store[u] EXCEPT !.lease = now + term]
  <2>1. r.token = store[u].token /\ r.status = store[u].status
    BY <1>1 DEF Record
  <2>2. t = u => Save(u, r)
    BY <1>17 DEF Renew
  <2>3. t # u => \E w : Save(t, w)
    BY <1>17 DEF Renew
  <2> HIDE DEF r
  <2> QED
    BY <2>1, <2>2, <2>3, <1>3, <1>4 DEF Reachable
<1>18. ASSUME NEW t \in Tasks, NEW c \in Clients, NEW s \in Statuses, NEW flag \in BOOLEAN,
              Update(c, t, s, flag)
       PROVE  Kept
  <2> DEFINE r == [copy[c][t] EXCEPT !.status = s, !.final = copy[c][t].final \/ flag,
                     !.result = IF copy[c][t].claim # NoClaim THEN copy[c][t].claim ELSE copy[c][t].result]
  <2>1. copy[c][t] \in Record
    BY <1>18 DEF Update, TypeOK, Holds
  <2>2. r.token = copy[c][t].token /\ r.status = s
    BY <2>1, UpdatedKeeps
  <2>3. /\ Save(t, r) /\ Reachable(store[t].status, s)
        /\ store[t].claim # NoClaim => copy[c][t].token = store[t].token
    BY <1>18 DEF Update, FencePasses
  <2> HIDE DEF r
  <2> QED
    BY <2>2, <2>3, <1>3, <1>4
<1>19. ASSUME NEW t \in Tasks, NEW c \in Clients, NEW s \in MoveTargets, MoveCopy(c, t, s) PROVE Kept
  <2>1. copy[c][t] \in Record /\ s \in Statuses
    BY <1>19, TargetsAssumption DEF MoveCopy, TypeOK, Holds
  <2>2. Moved(t, s, copy[c][t]).token = copy[c][t].token /\ Moved(t, s, copy[c][t]).status = s
    BY <2>1, MovedKeeps
  <2>3. /\ Reachable(store[t].status, s)
        /\ store[t].claim # NoClaim => copy[c][t].token = store[t].token
    BY <1>19 DEF MoveCopy, MoveAllowed, FencePasses
  <2>4. CASE Materialises(t, s, copy[c][t].claim)
    <3>1. PICK term \in Terms : Save(t, NewLease(store[t], term))
      BY <1>19, <2>4 DEF MoveCopy, MoveWithLease
    <3>2. CASE t = u
      <4>1. store'[u].token = store[u].token + 1 /\ store'[u].status = "active"
        BY <1>1, <3>1, <3>2, SaveOnly, NewLeaseKeeps
      <4> QED
        BY <1>1, <2>3, <2>4, <3>2, <4>1 DEF TokenKept, TableKept, Materialises
    <3> QED
      BY <3>1, <3>2, <1>3
  <2>5. CASE ~Materialises(t, s, copy[c][t].claim)
    <3>1. Save(t, Moved(t, s, copy[c][t]))
      BY <1>19, <2>5 DEF MoveCopy
    <3> QED
      BY <3>1, <2>2, <2>3, <1>3, <1>4
  <2> QED
    BY <2>4, <2>5
<1>20. ASSUME NEW t \in Tasks, NEW c \in Clients, NEW s \in MoveTargets, MoveByClaim(c, t, s) PROVE Kept
  <2>1. Moved(u, s, store[u]).token = store[u].token /\ Moved(u, s, store[u]).status = s
    BY <1>1, MovedKeeps, TargetsAssumption
  <2>2. Save(t, Moved(t, s, store[t])) /\ Reachable(store[t].status, s)
    BY <1>20 DEF MoveByClaim, MoveAllowed
  <2> QED
    BY <2>1, <2>2, <1>3, <1>4
<1> QED
  BY <1>5, <1>6, <1>7, <1>8, <1>9, <1>10, <1>11, <1>12, <1>13, <1>14, <1>15, <1>16, <1>17,
     <1>18, <1>19, <1>20 DEF Next

\* Nobody's write, however stale the object, takes the fencing token of a claimed task
\* back: update_task and move_task compare it, every other writer keeps or raises it.
THEOREM TokenNeverGoesBack == Spec => TokenMonotoneWhileClaimed
<1>1. TypeOK /\ [Next]_vars =>
        [\A t \in Tasks :
           Known(t) /\ store[t].claim # NoClaim => store'[t].token >= store[t].token]_vars
  BY StepOnRecord DEF TokenKept
<1> QED
  BY TypeCorrect, <1>1, PTL DEF Spec, TokenMonotoneWhileClaimed

\* A refused archiving is the only operation that takes a record out of the published
\* table without blocking it or counting a failure, whatever callers pass or edit.
THEOREM OnlyRefusalsLeaveTheTable ==
    Spec => [][\A t \in Tasks :
                 Known(t) => TableKept(t) \/ \E c \in Clients : ArchiveRefused(c, t)]_vars
<1>1. TypeOK /\ [Next]_vars =>
        [\A t \in Tasks :
           Known(t) => TableKept(t) \/ \E c \in Clients : ArchiveRefused(c, t)]_vars
  BY StepOnRecord
<1> QED
  BY TypeCorrect, <1>1, PTL DEF Spec

\* So where nobody archives, every status change is in the published table.
THEOREM TransitionsAlwaysAllowed ==
    ASSUME "archived" \notin MoveTargets
    PROVE  Spec => TransitionsAreAllowed
<1>1. TypeOK /\ [Next]_vars =>
        [\A t \in Tasks :
           Known(t) /\ store'[t].status # "blocked" /\ store'[t].retry # store[t].retry + 1
             => Reachable(store[t].status, store'[t].status)]_vars
  BY StepOnRecord DEF TableKept, ArchiveRefused
<1> QED
  BY TypeCorrect, <1>1, PTL DEF Spec, TransitionsAreAllowed

-----------------------------------------------------------------------------
(* The pool as a lease service. *)

\* How a step may change the records: a lease is granted, or one record is replaced and becomes
\* active only if it was, or the expired ones go back to the queue, or no record changes.
Granted(t, term) ==
    /\ Known(t) /\ (store[t].status = "pending" \/ Expired(store[t]))
    /\ Save(t, NewLease(store[t], term)) /\ Issue(t) /\ now' = now
Replaced(t, r) ==
    /\ r \in Record /\ Save(t, r)
    /\ r.status = "active" => Known(t) /\ store[t].status = "active"
    /\ NoIssue /\ now' = now

LEMMA RecordSteps ==
    ASSUME "active" \notin MoveTargets, EditTargets = {}, NewestInv, [Next]_vars
    PROVE  \/ \E t \in Tasks, term \in Terms : Granted(t, term)
           \/ \E t \in Tasks, r \in Record : Replaced(t, r)
           \/ ReclaimStale
           \/ UNCHANGED <<store, issued, newest>> /\ now' \in {now, now + 1}
<1> DEFINE Goal == \/ \E t \in Tasks, term \in Terms : Granted(t, term)
                   \/ \E t \in Tasks, r \in Record : Replaced(t, r)
                   \/ ReclaimStale
                   \/ UNCHANGED <<store, issued, newest>> /\ now' \in {now, now + 1}
<1>1. TypeOK /\ NewestClaimHoldsTask /\ now \in Nat /\ issued \in Nat
  BY DEF NewestInv, TypeOK
<1>2. ASSUME NEW t \in Tasks, Known(t)
      PROVE  store[t] \in Record /\ Pure(store[t])
  BY <1>1, <1>2 DEF TypeOK, Known, NewestClaimHoldsTask, Pure
<1>3. ASSUME NEW c \in Clients, NEW t \in Tasks, Holds(c, t)
      PROVE  copy[c][t] \in Record /\ Pure(copy[c][t])
  BY <1>1, <1>3 DEF NewestInv, TypeOK, Holds
<1>4. ASSUME NEW t \in Tasks, NEW r \in Record, Replaced(t, r) PROVE Goal
  BY <1>4
<1>5. ASSUME UNCHANGED store, NoIssue, now' = now PROVE Goal
  BY <1>5 DEF NoIssue
<1>6. CASE UNCHANGED vars
  BY <1>6, <1>5 DEF vars, NoIssue
<1>7. CASE Tick
  BY <1>7 DEF Tick
<1>8. ASSUME NEW t \in Tasks, Create(t) PROVE Goal
  BY <1>8, <1>4, NewTaskType DEF Create, Replaced, NewTask, NoIssue
<1>9. ASSUME NEW t \in Tasks, Reopen(t) PROVE Goal
  <2> DEFINE r == [store[t] EXCEPT !.status = "pending", !.block = "none", !.final = FALSE]
  <2>1. r \in Record /\ r.status = "pending"
    BY <1>2, <1>9 DEF Reopen, Record, Statuses
  <2>2. Save(t, r) /\ NoIssue /\ now' = now
    BY <1>9 DEF Reopen
  <2> HIDE DEF r
  <2> QED
    BY <2>1, <2>2, <1>4 DEF Replaced
<1>10. ASSUME NEW t \in Tasks, PlanUnblock(t) \/ PlanBury(t) PROVE Goal
  BY <1>10, <1>5 DEF PlanUnblock, PlanBury, NoIssue
<1>11. ASSUME NEW t \in Tasks, DoUnblock(t) PROVE Goal
  <2> DEFINE r == [store[t] EXCEPT !.status = "pending", !.block = "none"]
  <2>1. Known(t)
    BY <1>1, <1>11 DEF DoUnblock, TypeOK
  <2>2. r \in Record /\ r.status = "pending"
    BY <1>2, <2>1 DEF Record, Statuses
  <2>3. (Save(t, r) \/ UNCHANGED store) /\ NoIssue /\ now' = now
    BY <1>11 DEF DoUnblock, NoIssue
  <2> HIDE DEF r
  <2> QED
    BY <2>2, <2>3, <1>4, <1>5 DEF Replaced
<1>12. ASSUME NEW t \in Tasks, DoBury(t) PROVE Goal
  <2> DEFINE r == Moved(t, "graveyard", store[t])
  <2>1. Known(t)
    BY <1>1, <1>12 DEF DoBury, TypeOK
  <2>2. r \in Record /\ r.status = "graveyard"
    BY <1>2, <2>1, MovedOwned DEF Statuses
  <2>3. (Save(t, r) \/ UNCHANGED store) /\ NoIssue /\ now' = now
    BY <1>12 DEF DoBury, NoIssue
  <2> HIDE DEF r
  <2> QED
    BY <2>2, <2>3, <1>4, <1>5 DEF Replaced
<1>13. ASSUME NEW t \in Tasks, NEW b \in BlockTypes, Block(t, b) PROVE Goal
  <2> DEFINE r == [store[t] EXCEPT !.status = "blocked", !.block = b]
  <2>1. r \in Record /\ r.status = "blocked"
    <3>1. store[t] \in Record
      BY <1>2, <1>13 DEF Block
    <3>2. "blocked" \in Statuses /\ b \in AllBlockTypes \cup {"none"}
      BY TypesAssumption DEF Statuses
    <3> QED
      BY <3>1, <3>2, BlockedType
  <2>2. Save(t, ClearLease(r)) /\ NoIssue /\ now' = now
    BY <1>13 DEF Block
  <2> HIDE DEF r
  <2>3. ClearLease(r) \in Record /\ ClearLease(r).status = "blocked"
    BY <2>1, ClearLeaseType, ClearLeaseOwned
  <2> QED
    BY <2>2, <2>3, <1>4 DEF Replaced
<1>14. ASSUME NEW t \in Tasks, NEW f \in FailTypes, Fail(t, f) PROVE Goal
  <2>1. Failed(store[t], f) \in Record /\ Failed(store[t], f).status # "active"
    BY <1>1, <1>2, <1>14, FailedOwned, FailedType DEF Fail
  <2> QED
    BY <1>14, <2>1, <1>4 DEF Fail, Replaced
<1>15. ASSUME NEW t \in Tasks, NEW c \in Clients, Read(c, t) PROVE Goal
  BY <1>15, <1>5 DEF Read, NoIssue
<1>16. ASSUME NEW t \in Tasks, NEW c \in Clients, ArchiveRefused(c, t) PROVE Goal
  <2>1. copy[c][t] \in Record /\ copy[c][t].status = "approved"
    BY <1>3, <1>16 DEF ArchiveRefused, ArchivableCopy
  <2> QED
    BY <1>16, <2>1, <1>4 DEF ArchiveRefused, Replaced
<1>17. ASSUME NEW t \in Tasks, NEW c \in Clients, NEW term \in Terms, Claim(c, t, term) PROVE Goal
  BY <1>17 DEF Claim, Granted
<1>18. ASSUME NEW t \in Tasks, NEW c \in Clients, NEW term \in Terms, Renew(c, t, term) PROVE Goal
  <2> DEFINE r == [store[t] EXCEPT !.lease = now + term]
  <2>1. r \in Record /\ Known(t) /\ store[t].status = "active"
    BY <1>1, <1>2, <1>18, TermsAssumption DEF Renew, Record
  <2>2. Save(t, r) /\ NoIssue /\ now' = now
    BY <1>18 DEF Renew
  <2> HIDE DEF r
  <2> QED
    BY <2>1, <2>2, <1>4 DEF Replaced
<1>19. ASSUME NEW t \in Tasks, NEW c \in Clients, NEW s \in Statuses, NEW flag \in BOOLEAN,
              Update(c, t, s, flag)
       PROVE  Goal
  <2> DEFINE mine == copy[c][t]
             r == [mine EXCEPT !.status = s, !.final = mine.final \/ flag,
                     !.result = IF mine.claim # NoClaim THEN mine.claim ELSE mine.result]
  <2>1. r \in Record
    BY <1>3, <1>19, UpdatedType DEF Update
  <2>2. r.status = s
    BY <1>3, <1>19, UpdatedKeeps DEF Update
  <2>3. Known(t) /\ (s = "active" => store[t].status = "active")
    <3>1. Known(t) /\ (s # store[t].status /\ "active" \in {s, store[t].status} => store[t].claim # NoClaim)
      BY <1>19 DEF Update
    <3> QED
      BY <3>1, <1>2 DEF Pure
  <2>4. Save(t, r) /\ NoIssue /\ now' = now
    BY <1>19 DEF Update
  <2> HIDE DEF r
  <2> QED
    BY <2>1, <2>2, <2>3, <2>4, <1>4 DEF Replaced
<1>20. ASSUME NEW t \in Tasks, NEW c \in Clients, NEW s \in MoveTargets, MoveCopy(c, t, s) PROVE Goal
  <2> DEFINE r == Moved(t, s, copy[c][t])
  <2>1. copy[c][t] \in Record /\ s \in Statuses /\ s # "active"
    BY <1>3, <1>20, TargetsAssumption DEF MoveCopy
  <2>2. r \in Record /\ r.status = s
    BY <2>1, MovedOwned
  <2>3. Save(t, r) /\ NoIssue /\ now' = now
    BY <1>20, <2>1 DEF MoveCopy, Materialises
  <2> HIDE DEF r
  <2> QED
    BY <2>1, <2>2, <2>3, <1>4 DEF Replaced
<1>21. ASSUME NEW t \in Tasks, NEW c \in Clients, NEW s \in MoveTargets, MoveByClaim(c, t, s) PROVE Goal
  <2> DEFINE r == Moved(t, s, store[t])
  <2>1. store[t] \in Record /\ s \in Statuses /\ s # "active"
    BY <1>2, <1>21, TargetsAssumption DEF MoveByClaim
  <2>2. r \in Record /\ r.status = s
    BY <2>1, MovedOwned
  <2>3. Save(t, r) /\ NoIssue /\ now' = now
    BY <1>21 DEF MoveByClaim
  <2> HIDE DEF r
  <2> QED
    BY <2>1, <2>2, <2>3, <1>4 DEF Replaced
<1> QED
  BY <1>6, <1>7, <1>8, <1>9, <1>10, <1>11, <1>12, <1>13, <1>14, <1>15, <1>16, <1>17, <1>18,
     <1>19, <1>20, <1>21 DEF Next

\* The lease a record stands for.
HoldingOf(r) ==
    IF r # Absent /\ r.claim # NoClaim THEN [holder |-> r.claim, until |-> r.lease]
                                       ELSE [holder |-> NoClaim, until |-> 0]

LEMMA HoldingIs == \A t \in Tasks : Holding(t) = HoldingOf(store[t]) /\ Holding(t)' = HoldingOf(store'[t])
BY DEF Holding, HoldingOf, Known

LEMMA HoldingAfterSave ==
    ASSUME TypeOK, NEW t \in Tasks, NEW r, Save(t, r)
    PROVE  [u \in Tasks |-> Holding(u)]' = [[u \in Tasks |-> Holding(u)] EXCEPT ![t] = HoldingOf(r)]
<1>1. \A u \in Tasks : store'[u] = IF u = t THEN r ELSE store[u]
  BY SaveOnly
<1>2. \A u \in Tasks : Holding(u)' = IF u = t THEN HoldingOf(r) ELSE Holding(u)
  BY <1>1, HoldingIs
<1> QED
  BY <1>2

LEMMA LeaseGrant ==
    ASSUME NewestInv, NEW t \in Tasks, NEW term \in Terms, Granted(t, term)
    PROVE  Leases!Grant(t)
<1> DEFINE new == [holder |-> issued + 1, until |-> now + term]
<1>1. /\ store[t] \in Record /\ now \in Nat /\ issued \in Nat /\ term \in Nat \ {0}
      /\ IF store[t].status = "active" THEN store[t].claim # NoClaim ELSE store[t].claim = NoClaim
  BY TermsAssumption DEF Granted, NewestInv, TypeOK, Known, NewestClaimHoldsTask
<1>2. HoldingOf(NewLease(store[t], term)) = new
  <2>1. NewLease(store[t], term) \in Record /\ NewLease(store[t], term).claim = issued + 1
    BY <1>1, NewLeaseType
  <2>2. NewLease(store[t], term).lease = now + term
    BY <1>1 DEF NewLease, Record
  <2> QED
    BY <1>1, <2>1, <2>2, AbsentIsNoRecord DEF HoldingOf, NoClaim
<1>3. [u \in Tasks |-> Holding(u)]' = [[u \in Tasks |-> Holding(u)] EXCEPT ![t] = new]
  BY <1>2, HoldingAfterSave DEF Granted, NewestInv
<1>4. [u \in Tasks |-> Holding(u)]'[t] = new /\ new.until > now
  BY <1>1, <1>3
<1>5. [u \in Tasks |-> Holding(u)][t] = HoldingOf(store[t])
  BY HoldingIs
<1>6. ~Leases!Held(t) \/ Leases!RunOut(t)
  <2>1. CASE store[t].status = "pending"
    BY <1>1, <1>5, <2>1 DEF Leases!Held, HoldingOf
  <2>2. CASE Expired(store[t])
    <3>1. store[t].claim # NoClaim /\ store[t].lease <= now
      BY <1>1, <2>2 DEF Expired
    <3> QED
      BY <1>1, <1>5, <3>1, AbsentIsNoRecord DEF Leases!Held, Leases!RunOut, HoldingOf
  <2> QED
    BY <2>1, <2>2 DEF Granted
<1>7. issued' = issued + 1 /\ now' = now
  BY DEF Granted, Issue
<1> QED
  BY <1>3, <1>4, <1>6, <1>7 DEF Leases!Grant

LEMMA LeaseReplaced ==
    ASSUME NewestInv, NewestInv', NEW t \in Tasks, NEW r \in Record, Replaced(t, r)
    PROVE  Leases!Release(t) \/ Leases!Extend(t)
<1>1. /\ store'[t] = r /\ r # Absent
      /\ [u \in Tasks |-> Holding(u)]' = [[u \in Tasks |-> Holding(u)] EXCEPT ![t] = HoldingOf(r)]
  BY SaveOnly, HoldingAfterSave, AbsentIsNoRecord DEF Replaced, NewestInv
<1>2. issued' = issued /\ newest' = newest /\ now' = now
  BY DEF Replaced, NoIssue
<1>3. CASE r.claim = NoClaim
  <2>1. HoldingOf(r) = Leases!Free
    BY <1>3 DEF HoldingOf, Leases!Free
  <2> QED
    BY <1>1, <1>2, <2>1 DEF Leases!Release
<1>4. CASE r.claim # NoClaim
  <2>1. r.status = "active" /\ r.claim = newest[t]
    BY <1>1, <1>2, <1>4 DEF NewestInv, NewestClaimHoldsTask, Known
  <2>2. Known(t) /\ store[t].claim = newest[t] /\ store[t].claim # NoClaim
    BY <2>1 DEF Replaced, NewestInv, NewestClaimHoldsTask
  <2>3. HoldingOf(r) = [holder |-> newest[t], until |-> r.lease]
    BY <1>1, <1>4, <2>1 DEF HoldingOf
  <2>4. [u \in Tasks |-> Holding(u)][t] = [holder |-> newest[t], until |-> store[t].lease]
    BY <2>2, HoldingIs DEF HoldingOf, Known
  <2>5. [u \in Tasks |-> Holding(u)]'[t] = HoldingOf(r)
    BY <1>1
  <2>6. Leases!Held(t)
    BY <2>2, <2>4 DEF Leases!Held
  <2>7. [[u \in Tasks |-> Holding(u)][t] EXCEPT !.until = [u \in Tasks |-> Holding(u)]'[t].until] = HoldingOf(r)
    <3>1. [u \in Tasks |-> Holding(u)]'[t].until = r.lease
      BY <2>3, <2>5
    <3> QED
      BY <2>3, <2>4, <3>1
  <2>8. [u \in Tasks |-> Holding(u)]'
          = [[u \in Tasks |-> Holding(u)] EXCEPT ![t].until = [u \in Tasks |-> Holding(u)]'[t].until]
    BY <1>1, <2>7
  <2> QED
    BY <1>2, <2>6, <2>8 DEF Leases!Extend
<1> QED
  BY <1>3, <1>4

LEMMA LeaseRecover ==
    ASSUME NewestInv, ReclaimStale
    PROVE  \E T \in SUBSET Tasks : Leases!Recover(T)
<1> DEFINE T == {t \in Tasks : Known(t) /\ Expired(store[t])}
<1>1. ASSUME NEW t \in T
      PROVE  Leases!RunOut(t)
  <2>1. store[t] # Absent /\ store[t].claim # NoClaim /\ store[t].lease <= now
    BY DEF NewestInv, NewestClaimHoldsTask, Expired, Known
  <2>2. [u \in Tasks |-> Holding(u)][t] = [holder |-> store[t].claim, until |-> store[t].lease]
    BY <2>1, HoldingIs DEF HoldingOf
  <2> QED
    BY <2>1, <2>2 DEF Leases!RunOut, Leases!Held
<1>2. ASSUME NEW t \in Tasks
      PROVE  Holding(t)' = IF t \in T THEN Leases!Free ELSE Holding(t)
  <2>1. store'[t] = IF t \in T THEN Reclaimed(store[t]) ELSE store[t]
    BY DEF ReclaimStale
  <2>2. CASE t \in T
    <3>1. store[t] \in Record
      BY <2>2 DEF NewestInv, TypeOK, Known
    <3>2. Reclaimed(store[t]).claim = NoClaim
      BY <3>1 DEF Reclaimed, ClearLease, Record
    <3> QED
      BY <2>1, <2>2, <3>2, HoldingIs DEF HoldingOf, Leases!Free
  <2>3. CASE t \notin T
    BY <2>1, <2>3, HoldingIs
  <2> QED
    BY <2>2, <2>3
<1>3. issued' = issued /\ now' = now
  BY DEF ReclaimStale, NoIssue
<1> HIDE DEF T
<1>4. [u \in Tasks |-> Holding(u)]'
        = [t \in Tasks |-> IF t \in T THEN Leases!Free ELSE [u \in Tasks |-> Holding(u)][t]]
  BY <1>2
<1>5. Leases!Recover(T)
  BY <1>1, <1>3, <1>4 DEF Leases!Recover
<1> QED
  BY <1>5 DEF T

LEMMA LeaseServiceStep ==
    ASSUME "active" \notin MoveTargets, EditTargets = {}, NewestInv, NewestInv', [Next]_vars
    PROVE  [Leases!LeaseNext]_(Leases!leaseVars)
<1>1. CASE \E t \in Tasks, term \in Terms : Granted(t, term)
  BY <1>1, LeaseGrant DEF Leases!LeaseNext
<1>2. CASE \E t \in Tasks, r \in Record : Replaced(t, r)
  BY <1>2, LeaseReplaced DEF Leases!LeaseNext
<1>3. CASE ReclaimStale
  BY <1>3, LeaseRecover DEF Leases!LeaseNext
<1>4. CASE UNCHANGED <<store, issued, newest>> /\ now' \in {now, now + 1}
  <2>1. [u \in Tasks |-> Holding(u)]' = [u \in Tasks |-> Holding(u)]
    BY <1>4, HoldingIs
  <2> QED
    BY <1>4, <2>1 DEF Leases!LeaseNext, Leases!Pass, Leases!leaseVars
<1> QED
  BY <1>1, <1>2, <1>3, <1>4, RecordSteps

\* When callers leave statuses alone the pool implements a lease service: whatever stale objects
\* are written back, by however many callers, a lease is granted to a new claim on a task that
\* is free or whose lease has run out, stays with that claim, and does not come back.
THEOREM PoolIsLeaseService ==
    ASSUME "active" \notin MoveTargets, EditTargets = {}
    PROVE  Spec => ImplementsLeaseService
<1>1. Init => Leases!LeaseInit
  <2> SUFFICES ASSUME Init PROVE Leases!LeaseInit
    OBVIOUS
  <2>1. \A t \in Tasks : Holding(t) = Leases!Free
    BY DEF Init, Holding, Known, Leases!Free
  <2> QED
    BY <2>1 DEF Init, Leases!LeaseInit
<1>2. NewestInv /\ [Next]_vars => NewestInv'
  BY NewestStep
<1>3. NewestInv /\ NewestInv' /\ [Next]_vars => [Leases!LeaseNext]_(Leases!leaseVars)
  BY LeaseServiceStep
<1> QED
  BY <1>1, <1>2, <1>3, NewestInit, PTL DEF Spec, ImplementsLeaseService, Leases!LeaseSpec
=============================================================================
