--------------------------- MODULE TaskRolesProofs ---------------------------
(* What one lifecycle of the daemon guarantees, for any number of tasks, deaths and         *)
(* reopenings, and whatever research finds and the model answers.                            *)
EXTENDS TaskRoles, TLAPS

Statuses == {"pending", "review", "approved", "archived", "blocked", "graveyard"}
Verdicts == {"none", "rework", "approved", "terminal"}
Objections == [answer : Answers \cup {"none"}, thin : BOOLEAN]
Records == [status : Statuses, evidence : 0 .. MaxEvidence, fresh : BOOLEAN, recorded : BOOLEAN, delivered : BOOLEAN,
            grounds : Objections, unchanged : Nat, verdict : Verdicts, terminal : BOOLEAN,
            decision : {"none", "keep", "discard"}]
Memories == [notes : Nat, lessons : Nat, lost : BOOLEAN]

\* Tasks on which neither the model nor a deliverable changes sides.
Steady == Known \ (Fickle \cup Declared)

\* Between which two saves the daemon is with task t.
Phase(t) ==
    IF Current(t) /\ stage = "review" /\ doing = "judged" THEN "judged"
    ELSE IF Current(t) /\ stage = "archive" /\ doing \in {"archived", "noted"} THEN doing
    ELSE "free"

GroundsOf(r, a) == [answer |-> a, thin |-> r.evidence < Enough /\ ~r.delivered]

\* Approval rests on evidence, so that Guardian keeps what was approved.
Founded(r) ==
    /\ r.delivered \/ r.recorded => r.evidence > 0
    /\ r.status = "approved" => r.evidence > 0
    /\ r.decision = "discard" => r.status = "graveyard"

\* n reviews in a row on the same grounds: the last of them ends the rework, and only a death
\* or a reopening, s of them so far, brings the task back.
Counted(r, phase, n, s) ==
    /\ n <= r.unchanged /\ n < MaxUnchanged
    /\ r.unchanged <= MaxUnchanged + s
    /\ phase # "judged" /\ r.status \notin {"blocked", "graveyard"} => r.unchanged < MaxUnchanged + s

\* A saved verdict that is not yet carried out.
Pronounced(r, phase) ==
    phase = "judged" =>
        /\ r.status = "review" /\ r.verdict # "none"
        /\ r.verdict = "terminal" => r.terminal
        /\ r.verdict # "terminal" => r.unchanged < MaxUnchanged
        /\ r.verdict = "approved" => r.evidence > 0

\* A task flagged as not convergent that is still in review meets the same verdict again.
Final(r, phase, a) ==
    r.terminal =>
        /\ r.status \in {"review", "blocked", "graveyard"}
        /\ r.status = "review" => ~r.fresh /\ r.grounds = GroundsOf(r, a) /\ r.unchanged >= MaxUnchanged
        /\ phase = "judged" => r.verdict = "terminal"

Remembered(r, phase, m, c) ==
    /\ m.notes <= 1 /\ m.lessons <= 1
    /\ r.status # "archived" => m.notes = 0
    /\ r.status \notin {"archived", "graveyard"} => m.lessons = 0
    /\ phase = "archived" => r.status = "archived" /\ m.notes = 0 /\ m.lessons = 0
    /\ phase = "noted" => r.status = "archived" /\ m.lessons = 0 /\ (Indexed => m.notes = 1)
    /\ r.status = "archived" /\ phase = "free" /\ c = 0 /\ ~m.lost => m.lessons = 1 /\ (Indexed => m.notes = 1)

\* What a stage has listed is still as it was listed.
Listed ==
    /\ todo \subseteq Known
    /\ stage = "research" => doing \in {"next", "found"} /\ \A t \in todo : task[t].status = "pending"
    /\ stage = "deliver" => doing \in {"next", "missing"} /\ todo \subseteq Declared
                            /\ \A t \in todo : task[t].status = "review"
    /\ stage = "review" => doing \in {"next", "judged"} /\ \A t \in todo : task[t].status = "review"
    /\ stage = "judge" => doing = "next" /\ \A t \in todo : task[t].status = "approved"
    /\ stage = "archive" =>
         /\ doing \in {"next", "archived", "noted"}
         /\ \A t \in todo : task[t].status = IF Phase(t) = "free" THEN "approved" ELSE "archived"

RolesShape ==
    /\ task \in [Known -> Records]
    /\ opinion \in [Known -> Answers]
    /\ stage \in {"research", "deliver", "review", "judge", "archive"}
    /\ quota \in 0 .. Quota
    /\ memory \in [Known -> Memories]
    /\ crashes \in 0 .. MaxCrashes /\ reopens \in 0 .. MaxReopens
    /\ repeats \in [Known -> Nat]

\* A task with record r, n, a and m: with repeats[t], opinion[t] and memory[t].
Good(t, r, phase, n, s, a, m, c) ==
    /\ Founded(r)
    /\ Counted(r, phase, n, s)
    /\ Pronounced(r, phase)
    /\ t \in Steady => Final(r, phase, a)
    /\ Remembered(r, phase, m, c)

TaskInv(t) == Good(t, task[t], Phase(t), repeats[t], crashes + reopens, opinion[t], memory[t], crashes)

RolesInv == RolesShape /\ Listed /\ \A t \in Known : TaskInv(t)

-----------------------------------------------------------------------------
(* The saves, as functions of the record. *)

Moved(r, status) == [r EXCEPT !.status = status]
Produced(r, n) == [Gathered(r, n) EXCEPT !.delivered = TRUE, !.recorded = TRUE]
Missing(r) == [r EXCEPT !.delivered = FALSE]
Reviewed(r, g, n, v) ==
    [r EXCEPT !.fresh = FALSE, !.grounds = g, !.unchanged = n, !.verdict = v, !.terminal = @ \/ v = "terminal"]
Judged(r, d) == [r EXCEPT !.decision = d]
Reopened(r, n) == [Gathered(r, n) EXCEPT !.status = "pending", !.terminal = FALSE]
Buried(r) == [r EXCEPT !.status = "graveyard", !.decision = "discard"]

\* The fields q has of r.
SameStatus(q, r) == q.status = r.status
SameEvidence(q, r) == q.evidence = r.evidence /\ q.recorded = r.recorded /\ q.delivered = r.delivered
SameNews(q, r) == q.fresh = r.fresh
SameReview(q, r) == q.grounds = r.grounds /\ q.unchanged = r.unchanged /\ q.verdict = r.verdict
SameFlag(q, r) == q.terminal = r.terminal
SameDecision(q, r) == q.decision = r.decision

LEMMA RecordFields ==
    ASSUME NEW r \in Records
    PROVE  /\ r.status \in Statuses /\ r.evidence \in 0 .. MaxEvidence /\ r.fresh \in BOOLEAN
           /\ r.recorded \in BOOLEAN /\ r.delivered \in BOOLEAN
           /\ r.grounds \in Objections /\ r.unchanged \in Nat /\ r.verdict \in Verdicts
           /\ r.terminal \in BOOLEAN /\ r.decision \in {"none", "keep", "discard"}
BY DEF Records

LEMMA MovedRecord ==
    ASSUME NEW r \in Records, NEW status \in Statuses
    PROVE  /\ Moved(r, status) \in Records /\ Moved(r, status).status = status
           /\ SameEvidence(Moved(r, status), r) /\ SameNews(Moved(r, status), r)
           /\ SameReview(Moved(r, status), r)
           /\ SameFlag(Moved(r, status), r) /\ SameDecision(Moved(r, status), r)
BY DEF Records, Moved, SameEvidence, SameNews, SameReview, SameFlag, SameDecision

\* Evidence is counted up to MaxEvidence, never backwards.
LEMMA CappedEvidence ==
    ASSUME NEW e \in 0 .. MaxEvidence, NEW n \in Nat
    PROVE  /\ Capped(e + n) \in 0 .. MaxEvidence /\ Capped(e + n) >= e
           /\ e > 0 \/ n > 0 => Capped(e + n) > 0
BY RolesAssumption DEF Capped

LEMMA GatheredRecord ==
    ASSUME NEW r \in Records, NEW n \in Nat
    PROVE  /\ Gathered(r, n) \in Records
           /\ Gathered(r, n).evidence >= r.evidence
           /\ r.evidence > 0 \/ n > 0 => Gathered(r, n).evidence > 0
           /\ Gathered(r, n).recorded = r.recorded /\ Gathered(r, n).delivered = r.delivered
           /\ SameStatus(Gathered(r, n), r) /\ SameReview(Gathered(r, n), r)
           /\ SameFlag(Gathered(r, n), r) /\ SameDecision(Gathered(r, n), r)
<1>1. (r.fresh \/ n > 0) \in BOOLEAN
    OBVIOUS
<1>2. PICK b \in BOOLEAN : b = (r.fresh \/ n > 0)
    BY <1>1
<1>3. PICK e \in 0 .. MaxEvidence : e = Capped(r.evidence + n) /\ e >= r.evidence /\ (r.evidence > 0 \/ n > 0 => e > 0)
    BY RecordFields, CappedEvidence
<1>4. Gathered(r, n) = [r EXCEPT !.evidence = e, !.fresh = b]
    BY <1>2, <1>3 DEF Gathered
<1>5. QED BY <1>3, <1>4 DEF Records, SameStatus, SameReview, SameFlag, SameDecision

LEMMA ProducedRecord ==
    ASSUME NEW r \in Records, NEW n \in {0, 1}, n = 0 => r.evidence > 0
    PROVE  /\ Produced(r, n) \in Records /\ Produced(r, n).evidence > 0
           /\ SameStatus(Produced(r, n), r) /\ SameReview(Produced(r, n), r)
           /\ SameFlag(Produced(r, n), r) /\ SameDecision(Produced(r, n), r)
<1>1. PICK q \in Records : q = Gathered(r, n) /\ q.evidence > 0 /\ SameStatus(q, r) /\ SameReview(q, r)
                           /\ SameFlag(q, r) /\ SameDecision(q, r)
    BY GatheredRecord
<1>2. Produced(r, n) = [q EXCEPT !.delivered = TRUE, !.recorded = TRUE]
    BY <1>1 DEF Produced
<1>3. QED BY <1>1, <1>2 DEF Records, SameStatus, SameReview, SameFlag, SameDecision

LEMMA MissingRecord ==
    ASSUME NEW r \in Records
    PROVE  /\ Missing(r) \in Records /\ Missing(r).evidence = r.evidence /\ Missing(r).delivered = FALSE
           /\ Missing(r).recorded = r.recorded
           /\ SameStatus(Missing(r), r) /\ SameReview(Missing(r), r)
           /\ SameFlag(Missing(r), r) /\ SameDecision(Missing(r), r)
BY DEF Records, Missing, SameStatus, SameReview, SameFlag, SameDecision

LEMMA ReviewedRecord ==
    ASSUME NEW r \in Records, NEW g \in Objections, NEW n \in Nat, NEW v \in Verdicts
    PROVE  /\ Reviewed(r, g, n, v) \in Records
           /\ ~Reviewed(r, g, n, v).fresh
           /\ Reviewed(r, g, n, v).grounds = g /\ Reviewed(r, g, n, v).unchanged = n
           /\ Reviewed(r, g, n, v).verdict = v
           /\ (Reviewed(r, g, n, v).terminal <=> r.terminal \/ v = "terminal")
           /\ SameStatus(Reviewed(r, g, n, v), r) /\ SameEvidence(Reviewed(r, g, n, v), r)
           /\ SameDecision(Reviewed(r, g, n, v), r)
<1>1. (r.terminal \/ v = "terminal") \in BOOLEAN
    OBVIOUS
<1>2. PICK b \in BOOLEAN : b = (r.terminal \/ v = "terminal")
    BY <1>1
<1>3. Reviewed(r, g, n, v) = [r EXCEPT !.fresh = FALSE, !.grounds = g, !.unchanged = n, !.verdict = v, !.terminal = b]
    BY <1>2 DEF Reviewed
<1>4. QED BY <1>2, <1>3 DEF Records, SameStatus, SameEvidence, SameDecision

LEMMA JudgedRecord ==
    ASSUME NEW r \in Records, NEW d \in {"none", "keep"}
    PROVE  /\ Judged(r, d) \in Records /\ Judged(r, d).decision = d
           /\ SameStatus(Judged(r, d), r) /\ SameEvidence(Judged(r, d), r) /\ SameNews(Judged(r, d), r)
           /\ SameReview(Judged(r, d), r) /\ SameFlag(Judged(r, d), r)
BY DEF Records, Judged, SameStatus, SameEvidence, SameNews, SameReview, SameFlag

LEMMA ReopenedRecord ==
    ASSUME NEW r \in Records, NEW n \in Nat
    PROVE  /\ Reopened(r, n) \in Records /\ Reopened(r, n).status = "pending"
           /\ r.evidence > 0 => Reopened(r, n).evidence > 0
           /\ Reopened(r, n).recorded = r.recorded /\ Reopened(r, n).delivered = r.delivered
           /\ Reopened(r, n).terminal = FALSE
           /\ SameReview(Reopened(r, n), r) /\ SameDecision(Reopened(r, n), r)
<1>1. PICK q \in Records : q = Gathered(r, n) /\ (r.evidence > 0 => q.evidence > 0) /\ q.recorded = r.recorded
                           /\ q.delivered = r.delivered /\ SameReview(q, r) /\ SameDecision(q, r)
    BY GatheredRecord
<1>2. Reopened(r, n) = [q EXCEPT !.status = "pending", !.terminal = FALSE]
    BY <1>1 DEF Reopened
<1>3. QED BY <1>1, <1>2 DEF Records, Statuses, SameReview, SameDecision

LEMMA BuriedRecord ==
    ASSUME NEW r \in Records
    PROVE  /\ Buried(r) \in Records /\ Buried(r).status = "graveyard" /\ SameEvidence(Buried(r), r)
           /\ SameReview(Buried(r), r) /\ SameFlag(Buried(r), r)
BY DEF Records, Statuses, Buried, SameEvidence, SameReview, SameFlag
-----------------------------------------------------------------------------
(* What each save does to the task. *)

LEMMA ResearchedTask ==
    ASSUME NEW t \in Known, NEW r \in Records, NEW n \in Nat, NEW s \in Nat, NEW a \in Answers, NEW m \in Memories,
           NEW c \in Nat,
           Good(t, r, "free", n, s, a, m, c),
           r.status = "pending", NEW k \in Nat
    PROVE  Good(t, Gathered(r, k), "free", n, s, a, m, c)
<1>1. PICK q \in Records : /\ q = Gathered(r, k) /\ (r.evidence > 0 => q.evidence > 0) /\ q.recorded = r.recorded
                           /\ q.delivered = r.delivered /\ SameStatus(q, r) /\ SameReview(q, r)
                           /\ SameFlag(q, r) /\ SameDecision(q, r)
    BY GatheredRecord
<1>2. Good(t, q, "free", n, s, a, m, c)
    BY <1>1, RecordFields
       DEF Good, Founded, Counted, Pronounced, Final, Remembered, SameStatus, SameReview, SameFlag, SameDecision
<1>3. QED BY <1>1, <1>2

LEMMA HandedInTask ==
    ASSUME NEW t \in Known, NEW r \in Records, NEW n \in Nat, NEW s \in Nat, NEW a \in Answers, NEW m \in Memories,
           NEW c \in Nat,
           Good(t, r, "free", n, s, a, m, c),
           r.status = "pending"
    PROVE  Good(t, Moved(r, "review"), "free", n, s, a, m, c)
BY MovedRecord, RecordFields
       DEF Good, Founded, Counted, Pronounced, Final, Remembered, SameEvidence, SameReview, SameFlag, SameDecision,
           Statuses

LEMMA ProducedTask ==
    ASSUME NEW t \in Known, NEW r \in Records, NEW n \in Nat, NEW s \in Nat, NEW a \in Answers, NEW m \in Memories,
           NEW c \in Nat,
           Good(t, r, "free", n, s, a, m, c),
           t \in Declared, NEW k \in {0, 1}, k = 0 => r.recorded
    PROVE  Good(t, Produced(r, k), "free", n, s, a, m, c)
<1>1. k = 0 => r.evidence > 0
    BY DEF Good, Founded
<1>2. PICK q \in Records : q = Produced(r, k)
    BY <1>1, ProducedRecord
<1>3. /\ q.evidence > 0 /\ q.status = r.status /\ q.unchanged = r.unchanged /\ q.unchanged \in Nat
      /\ q.decision = r.decision
    BY <1>1, <1>2, ProducedRecord, RecordFields DEF SameStatus, SameReview, SameDecision
<1>4. Good(t, q, "free", n, s, a, m, c)
    BY <1>3 DEF Good, Founded, Counted, Pronounced, Remembered, Steady
<1>5. QED BY <1>2, <1>4

LEMMA MissingTask ==
    ASSUME NEW t \in Known, NEW r \in Records, NEW n \in Nat, NEW s \in Nat, NEW a \in Answers, NEW m \in Memories,
           NEW c \in Nat,
           Good(t, r, "free", n, s, a, m, c),
           t \in Declared
    PROVE  Good(t, Missing(r), "free", n, s, a, m, c)
BY MissingRecord, RecordFields
       DEF Good, Founded, Counted, Pronounced, Remembered, Steady, SameStatus, SameReview, SameDecision

LEMMA BlockedTask ==
    ASSUME NEW t \in Known, NEW r \in Records, NEW n \in Nat, NEW s \in Nat, NEW a \in Answers, NEW m \in Memories,
           NEW c \in Nat,
           Good(t, r, "free", n, s, a, m, c),
           t \in Declared, r.status = "review"
    PROVE  Good(t, Moved(r, "blocked"), "free", n, s, a, m, c)
BY MovedRecord, RecordFields
       DEF Good, Founded, Counted, Pronounced, Remembered, Steady, SameEvidence, SameReview, SameDecision, Statuses

LEMMA JudgedTask ==
    ASSUME NEW t \in Known, NEW r \in Records, NEW n \in Nat, NEW s \in Nat, NEW a \in Answers, NEW m \in Memories,
           NEW c \in Nat,
           Good(t, r, "free", n, s, a, m, c),
           NEW d \in {"none", "keep"}
    PROVE  Good(t, Judged(r, d), "free", n, s, a, m, c)
BY JudgedRecord, RecordFields
       DEF Good, Founded, Counted, Pronounced, Final, Remembered, GroundsOf, SameStatus, SameEvidence, SameNews,
           SameReview, SameFlag

LEMMA ArchivedTask ==
    ASSUME NEW t \in Known, NEW r \in Records, NEW n \in Nat, NEW s \in Nat, NEW a \in Answers, NEW m \in Memories,
           NEW c \in Nat,
           Good(t, r, "free", n, s, a, m, c),
           r.status = "approved"
    PROVE  Good(t, Moved(r, "archived"), "archived", n, s, a, m, c)
BY MovedRecord, RecordFields
       DEF Good, Founded, Counted, Pronounced, Final, Remembered, SameEvidence, SameReview, SameFlag, SameDecision,
           Statuses

LEMMA ConcludedTask ==
    ASSUME NEW t \in Known, NEW r \in Records, NEW n \in Nat, NEW s \in Nat, NEW a \in Answers, NEW m \in Memories,
           NEW c \in Nat,
           Good(t, r, "judged", n, s, a, m, c),
           NEW status \in Statuses, r.verdict = "approved" => status = "approved",
           r.verdict = "rework" => status = "pending", r.verdict = "terminal" => status \in {"blocked", "graveyard"}
    PROVE  Good(t, Moved(r, status), "free", n, s, a, m, c)
BY MovedRecord, RecordFields, RolesAssumption
       DEF Good, Founded, Counted, Pronounced, Final, Remembered, SameEvidence, SameReview, SameFlag, SameDecision,
           Verdicts

\* What is remembered of an archived task changes nothing else.
LEMMA RememberedTask ==
    ASSUME NEW t \in Known, NEW r \in Records, NEW n \in Nat, NEW s \in Nat, NEW a \in Answers, NEW m, NEW c,
           NEW phase \in {"archived", "noted"}, Good(t, r, phase, n, s, a, m, c),
           NEW next \in {"noted", "free"}, NEW q, Remembered(r, next, q, c)
    PROVE  Good(t, r, next, n, s, a, q, c)
BY DEF Good, Counted, Pronounced, Final

LEMMA NotedTask ==
    ASSUME NEW t \in Known, NEW r \in Records, NEW n \in Nat, NEW s \in Nat, NEW a \in Answers, NEW m \in Memories,
           NEW c \in Nat,
           Good(t, r, "archived", n, s, a, m, c),
           NEW q \in Memories, NEW k \in {0, 1}, q.notes = m.notes + k, q.lessons = m.lessons,
           NEW next \in {"noted", "free"},
           next = "noted" /\ Indexed => k = 1, next = "free" => q.lost
    PROVE  Good(t, r, next, n, s, a, q, c)
<1>1. m.notes \in Nat /\ m.lessons \in Nat /\ q.notes \in Nat /\ q.lessons \in Nat
    BY DEF Memories
<1>2. Remembered(r, next, q, c)
    BY <1>1 DEF Good, Remembered
<1>3. QED BY <1>2, RememberedTask

LEMMA DepositedTask ==
    ASSUME NEW t \in Known, NEW r \in Records, NEW n \in Nat, NEW s \in Nat, NEW a \in Answers, NEW m \in Memories,
           NEW c \in Nat,
           Good(t, r, "noted", n, s, a, m, c),
           NEW q \in Memories, NEW k \in {0, 1}, q.notes = m.notes, q.lessons = m.lessons + k,
           k = 1 \/ q.lost
    PROVE  Good(t, r, "free", n, s, a, q, c)
<1>1. m.notes \in Nat /\ m.lessons \in Nat /\ q.notes \in Nat /\ q.lessons \in Nat
    BY DEF Memories
<1>2. Remembered(r, "free", q, c)
    BY <1>1 DEF Good, Remembered
<1>3. QED BY <1>2, RememberedTask

LEMMA DisposedTask ==
    ASSUME NEW t \in Known, NEW r \in Records, NEW n \in Nat, NEW s \in Nat, NEW a \in Answers, NEW m \in Memories,
           NEW c \in Nat, NEW phase,
           Good(t, r, phase, n, s, a, m, c), r.status = "blocked",
           NEW q \in Memories, NEW k \in {0, 1}, q.notes = m.notes, q.lessons = m.lessons + k
    PROVE  Good(t, Buried(r), phase, n, s, a, q, c)
<1>1. m.notes = 0 /\ m.lessons = 0 /\ phase \notin {"judged", "archived", "noted"}
    BY DEF Good, Pronounced, Remembered
<1>2. PICK b \in Records : /\ b = Buried(r) /\ b.status = "graveyard" /\ SameEvidence(b, r) /\ SameReview(b, r)
                           /\ SameFlag(b, r)
    BY BuriedRecord
<1>3. Good(t, b, phase, n, s, a, q, c)
    BY <1>1, <1>2, RecordFields
       DEF Good, Founded, Counted, Pronounced, Final, Remembered, SameEvidence, SameReview, SameFlag
<1>4. QED BY <1>2, <1>3

LEMMA ReopenedTask ==
    ASSUME NEW t \in Known, NEW r \in Records, NEW n \in Nat, NEW s \in Nat, NEW a \in Answers, NEW m \in Memories,
           NEW c \in Nat, NEW phase,
           Good(t, r, phase, n, s, a, m, c),
           r.status = "blocked", NEW k \in Nat
    PROVE  Good(t, Reopened(r, k), phase, n, s + 1, a, m, c)
<1>1. MaxUnchanged \in Nat
    BY RolesAssumption
<1>2. PICK q \in Records : q = Reopened(r, k)
    BY ReopenedRecord
<1>3. /\ q.status = "pending" /\ (r.evidence > 0 => q.evidence > 0) /\ q.recorded = r.recorded
      /\ q.delivered = r.delivered /\ q.terminal = FALSE /\ q.decision = r.decision
      /\ q.unchanged = r.unchanged /\ r.unchanged \in Nat
  <2>1. /\ q.status = "pending" /\ (r.evidence > 0 => q.evidence > 0) /\ q.recorded = r.recorded
        /\ q.delivered = r.delivered /\ q.terminal = FALSE /\ SameReview(q, r) /\ SameDecision(q, r)
      BY ONLY r \in Records, k \in Nat, <1>2, ReopenedRecord
  <2>2. r.unchanged \in Nat
      BY ONLY r \in Records, RecordFields
  <2>3. QED BY ONLY <2>1, <2>2 DEF SameReview, SameDecision
<1>4. phase \notin {"judged", "archived", "noted"} /\ r.decision # "discard"
    BY DEF Good, Founded, Pronounced, Remembered
<1>5. Good(t, q, phase, n, s + 1, a, m, c)
    BY <1>1, <1>3, <1>4 DEF Good, Founded, Counted, Pronounced, Final, Remembered
<1>6. QED BY <1>2, <1>5

LEMMA UnblockedTask ==
    ASSUME NEW t \in Known, NEW r \in Records, NEW n \in Nat, NEW s \in Nat, NEW a \in Answers, NEW m \in Memories,
           NEW c \in Nat, NEW phase,
           Good(t, r, phase, n, s, a, m, c),
           r.status = "blocked", ~r.terminal
    PROVE  Good(t, Moved(r, "pending"), phase, n, s + 1, a, m, c)
BY MovedRecord, RecordFields, RolesAssumption
       DEF Good, Founded, Counted, Pronounced, Final, Remembered, SameEvidence, SameReview, SameFlag, SameDecision,
           Statuses

LEMMA CrashedTask ==
    ASSUME NEW t \in Known, NEW r \in Records, NEW n \in Nat, NEW s \in Nat, NEW a \in Answers, NEW m \in Memories,
           NEW c \in Nat, NEW phase,
           Good(t, r, phase, n, s, a, m, c)
    PROVE  Good(t, r, "free", n, s + 1, a, m, c + 1)
BY RecordFields, RolesAssumption DEF Good, Counted, Pronounced, Final, Remembered

LEMMA UntouchedTask ==
    ASSUME NEW t \in Known, NEW r \in Records, NEW n \in Nat, NEW s \in Nat, NEW a \in Answers, NEW m \in Memories,
           NEW c \in Nat, NEW phase,
           Good(t, r, phase, n, s, a, m, c)
    PROVE  Good(t, r, phase, n, s + 1, a, m, c)
BY RecordFields, RolesAssumption DEF Good, Counted

-----------------------------------------------------------------------------
(* The daemon is with one task at a time. *)

LEMMA OneAtATime ==
    ASSUME todo \subseteq Known, NEW t, NEW u, Current(t), Current(u)
    PROVE  t = u
<1>1. t \in todo /\ u \in todo /\ ~Before(t, u) /\ ~Before(u, t)
    BY DEF Current
<1>2. DOMAIN Queue \subseteq Nat
    BY RolesAssumption
<1>3. PICK j \in DOMAIN Queue, k \in DOMAIN Queue : Queue[j] = t /\ Queue[k] = u
    BY <1>1 DEF Known
<1>4. ~(j < k) /\ ~(k < j)
    BY <1>1, <1>3 DEF Before
<1>5. QED BY <1>2, <1>3, <1>4

LEMMA NobodyHandled == doing \notin {"judged", "archived", "noted"} => \A t \in Known : Phase(t) = "free"
BY DEF Phase

LEMMA NobodyHandledNext == (doing \notin {"judged", "archived", "noted"} => \A t \in Known : Phase(t) = "free")'
BY DEF Phase

\* Everybody else is left alone when t is.
LEMMA OthersFree ==
    ASSUME todo \subseteq Known, NEW t \in Known, Current(t), NEW u \in Known \ {t}
    PROVE  Phase(u) = "free"
BY OneAtATime DEF Phase

LEMMA SameListSamePlace ==
    ASSUME todo' = todo, NEW t
    PROVE  Current(t)' = Current(t)
BY DEF Current

LEMMA SavedTask ==
    ASSUME task \in [Known -> Records], NEW t \in Known, NEW r \in Records, Save(t, r)
    PROVE  /\ task' \in [Known -> Records] /\ task'[t] = r
           /\ \A u \in Known \ {t} : task'[u] = task[u]
BY DEF Save

\* A step of the daemon with task t leaves the other tasks as they were.
LEMMA OtherTasks ==
    ASSUME NEW t \in Known, \A u \in Known : TaskInv(u),
           \A u \in Known \ {t} : task'[u] = task[u] /\ memory'[u] = memory[u] /\ repeats'[u] = repeats[u],
           UNCHANGED <<opinion, crashes, reopens>>,
           \A u \in Known \ {t} : Phase(u) = "free" /\ Phase(u)' = "free"
    PROVE  \A u \in Known \ {t} : TaskInv(u)'
<1>1. TAKE u \in Known \ {t}
<1>2. TaskInv(u) /\ task'[u] = task[u] /\ memory'[u] = memory[u] /\ repeats'[u] = repeats[u] /\ Phase(u)' = Phase(u)
      /\ opinion' = opinion /\ crashes' = crashes /\ reopens' = reopens
    OBVIOUS
<1>3. QED BY <1>2 DEF TaskInv

LEMMA TaskTypes ==
    ASSUME RolesShape, NEW t \in Known
    PROVE  /\ task[t] \in Records /\ repeats[t] \in Nat /\ opinion[t] \in Answers /\ memory[t] \in Memories
           /\ crashes \in Nat /\ reopens \in Nat /\ crashes + reopens \in Nat
BY RolesAssumption DEF RolesShape
-----------------------------------------------------------------------------
(* Each step keeps the invariant. *)

LEMMA RolesInitial == RolesInit => RolesInv
<1> SUFFICES ASSUME RolesInit PROVE RolesInv
    OBVIOUS
<1> DEFINE fresh(t) == IF t \in Outdated THEN Moved(Fresh, "review") ELSE Fresh
<1>1. Ungrounded \in Objections
    BY RolesAssumption DEF Ungrounded, Objections
<1>2. Fresh \in Records
    BY <1>1, RolesAssumption DEF Fresh, Records, Statuses, Verdicts
<1>3. \A t \in Known : fresh(t) \in Records /\ fresh(t).status \in {"pending", "review"} /\ fresh(t).unchanged = 0
                       /\ fresh(t).delivered = FALSE /\ fresh(t).recorded = FALSE /\ fresh(t).terminal = FALSE
                       /\ fresh(t).decision = "none"
    <2>1. Fresh.status = "pending" /\ Fresh.unchanged = 0 /\ Fresh.delivered = FALSE /\ Fresh.recorded = FALSE
          /\ Fresh.terminal = FALSE /\ Fresh.decision = "none"
        BY DEF Fresh
    <2>2. QED BY <1>2, <2>1, MovedRecord DEF SameEvidence, SameReview, SameFlag, SameDecision, Statuses
<1>4. task = [t \in Known |-> fresh(t)]
    BY DEF RolesInit, Moved
<1> HIDE DEF fresh
<1>5. task \in [Known -> Records] /\ \A t \in Known : task[t] = fresh(t)
    BY <1>3, <1>4
<1>6. [notes |-> 0, lessons |-> 0, lost |-> FALSE] \in Memories
    BY DEF Memories
<1>7. RolesShape
    <2>1. memory = [t \in Known |-> [notes |-> 0, lessons |-> 0, lost |-> FALSE]]
        BY DEF RolesInit
    <2>2. memory \in [Known -> Memories]
        BY ONLY <1>6, <2>1
    <2>3. opinion \in [Known -> Answers] /\ stage = "research" /\ quota = Quota /\ crashes = 0 /\ reopens = 0
          /\ repeats = [t \in Known |-> 0]
        BY DEF RolesInit
    <2>4. QED BY <1>5, <2>2, <2>3, RolesAssumption DEF RolesShape
<1>8. Listed
    BY DEF RolesInit, Listed
<1>9. \A t \in Known : TaskInv(t)
    <2>1. TAKE t \in Known
    <2>2. Phase(t) = "free"
        BY NobodyHandled DEF RolesInit
    <2>3. memory[t].notes = 0 /\ memory[t].lessons = 0 /\ repeats[t] = 0 /\ crashes = 0 /\ reopens = 0
        BY DEF RolesInit
    <2>4. task[t].status \in {"pending", "review"} /\ task[t].unchanged = 0 /\ task[t].delivered = FALSE
          /\ task[t].recorded = FALSE /\ task[t].terminal = FALSE /\ task[t].decision = "none"
        BY <1>3, <1>5
    <2>5. QED BY <2>2, <2>3, <2>4, RolesAssumption
              DEF TaskInv, Good, Founded, Counted, Pronounced, Final, Remembered
<1>10. QED BY <1>7, <1>8, <1>9 DEF RolesInv

LEMMA ResearchKeeps ==
    ASSUME RolesInv, NEW t \in Known, Research(t)
    PROVE  RolesInv'
<1>1. RolesShape /\ (\A u \in Known : TaskInv(u)) /\ task \in [Known -> Records] /\ task[t] \in Records
      /\ task[t].status = "pending"
    BY DEF RolesInv, RolesShape, Research
<1>2. \A u \in Known : Phase(u) = "free" /\ Phase(u)' = "free"
    BY NobodyHandledNext DEF Research, Phase
<1>3. PICK k \in 0 .. MaxEvidence : Save(t, Gathered(task[t], k))
    BY DEF Research
<1>4. k \in Nat
    BY RolesAssumption
<1>5. Gathered(task[t], k) \in Records /\ Gathered(task[t], k).status = "pending"
    BY <1>1, <1>4, GatheredRecord DEF SameStatus
<1>6. task' \in [Known -> Records] /\ task'[t] = Gathered(task[t], k) /\ \A u \in Known \ {t} : task'[u] = task[u]
    BY <1>1, <1>3, <1>5, SavedTask
<1>7. RolesShape'
    BY <1>1, <1>6, RolesAssumption, SMTT(40) DEF RolesShape, Research, Keep
<1>8. Listed'
    BY <1>5, <1>6 DEF Listed, Research
<1>9. TaskInv(t)'
    <2>1. Good(t, task[t], "free", repeats[t], crashes + reopens, opinion[t], memory[t], crashes)
        BY <1>1, <1>2 DEF TaskInv
    <2>2. Good(t, Gathered(task[t], k), "free", repeats[t], crashes + reopens, opinion[t], memory[t], crashes)
        BY <1>1, <1>4, <2>1, TaskTypes, ResearchedTask
    <2>3. QED BY <1>2, <1>6, <2>2 DEF TaskInv, Research, Keep
<1>10. \A u \in Known \ {t} : TaskInv(u)'
    BY <1>1, <1>2, <1>6, OtherTasks DEF Research, Keep
<1>11. QED BY <1>7, <1>8, <1>9, <1>10 DEF RolesInv

\* A save of the daemon to the task it is with.
LEMMA SaveKeeps ==
    ASSUME RolesInv, NEW t \in Known, NEW r \in Records, NEW phase, Save(t, r),
           UNCHANGED <<opinion, crashes, reopens, memory, repeats, stage, quota>>,
           \A u \in Known \ {t} : Phase(u) = "free" /\ Phase(u)' = "free",
           Phase(t)' = phase, Good(t, r, phase, repeats[t], crashes + reopens, opinion[t], memory[t], crashes)
    PROVE  /\ RolesShape' /\ \A u \in Known : TaskInv(u)'
           /\ task'[t] = r /\ \A u \in Known \ {t} : task'[u] = task[u]
<1>1. RolesShape /\ \A u \in Known : TaskInv(u)
    BY DEF RolesInv
<1>2. task' \in [Known -> Records] /\ task'[t] = r /\ \A u \in Known \ {t} : task'[u] = task[u]
    BY <1>1, SavedTask DEF RolesShape
<1>3. RolesShape'
    BY <1>1, <1>2 DEF RolesShape
<1>4. TaskInv(t)'
    BY <1>2 DEF TaskInv
<1>5. \A u \in Known \ {t} : TaskInv(u)'
    BY <1>1, <1>2, OtherTasks
<1>6. QED BY <1>2, <1>3, <1>4, <1>5

LEMMA AtFacts ==
    ASSUME RolesInv, NEW t \in Known, NEW s, NEW step, At(t, s, step)
    PROVE  /\ stage = s /\ doing = step /\ t \in todo /\ todo \subseteq Known /\ Current(t)
           /\ RolesShape /\ task[t] \in Records /\ Listed
           /\ Good(t, task[t], Phase(t), repeats[t], crashes + reopens, opinion[t], memory[t], crashes)
           /\ \A u \in Known \ {t} : Phase(u) = "free"
<1>1. Current(t) /\ todo \subseteq Known /\ RolesShape /\ TaskInv(t) /\ Listed
    BY DEF RolesInv, Listed, At
<1>2. \A u \in Known \ {t} : Phase(u) = "free"
    BY <1>1, OthersFree
<1>3. QED BY <1>1, <1>2, TaskTypes DEF At, Current, TaskInv

LEMMA HandInKeeps ==
    ASSUME RolesInv, NEW t \in Known, HandIn(t)
    PROVE  RolesInv'
<1> DEFINE r == Moved(task[t], "review")
<1>1. At(t, "research", "found") /\ Save(t, r) /\ stage' = stage /\ todo' = todo \ {t} /\ doing' = "next"
      /\ UNCHANGED <<opinion, crashes, reopens, memory, repeats, quota>>
    BY DEF HandIn, Moved, Onward, Go, Keep
<1>2. stage = "research" /\ RolesShape /\ task[t] \in Records /\ Listed /\ task[t].status = "pending" /\ doing = "found"
      /\ Good(t, task[t], Phase(t), repeats[t], crashes + reopens, opinion[t], memory[t], crashes)
    BY <1>1, AtFacts DEF Listed
<1>3. \A u \in Known : Phase(u) = "free" /\ Phase(u)' = "free"
    BY <1>1, <1>2, NobodyHandled, NobodyHandledNext
<1>4. r \in Records
    BY <1>2, MovedRecord DEF Statuses
<1>5. Good(t, r, "free", repeats[t], crashes + reopens, opinion[t], memory[t], crashes)
    BY <1>2, <1>3, TaskTypes, HandedInTask
<1> HIDE DEF r
<1>6. RolesShape' /\ (\A u \in Known : TaskInv(u)') /\ \A u \in Known \ {t} : task'[u] = task[u]
    BY <1>1, <1>3, <1>4, <1>5, SaveKeeps
<1>7. Listed'
    BY <1>1, <1>2, <1>6 DEF Listed
<1>8. QED BY <1>6, <1>7 DEF RolesInv

LEMMA JudgeKeeps ==
    ASSUME RolesInv, NEW t \in Known, Judge(t)
    PROVE  RolesInv'
<1>1. PICK d : d = IF task[t].decision # "none" THEN task[t].decision
                  ELSE IF task[t].evidence = 0 THEN "discard" ELSE "keep"
    OBVIOUS
<1> DEFINE r == Judged(task[t], d)
<1>2. At(t, "judge", "next") /\ Save(t, r) /\ stage' = stage /\ todo' = todo \ {t} /\ doing' = "next"
      /\ UNCHANGED <<opinion, crashes, reopens, memory, repeats, quota>>
    BY <1>1 DEF Judge, Judged, Onward, Go, Keep
<1>3. stage = "judge" /\ RolesShape /\ task[t] \in Records /\ Listed /\ task[t].status = "approved" /\ doing = "next"
      /\ Good(t, task[t], Phase(t), repeats[t], crashes + reopens, opinion[t], memory[t], crashes)
    BY <1>2, AtFacts DEF Listed
<1>4. \A u \in Known : Phase(u) = "free" /\ Phase(u)' = "free"
    BY <1>2, <1>3, NobodyHandled, NobodyHandledNext
<1>5. d \in {"none", "keep"}
    <2>1. task[t].decision \in {"none", "keep"} /\ task[t].evidence # 0
        BY <1>3, RecordFields DEF Good, Founded
    <2>2. QED BY <1>1, <2>1
<1>6. r \in Records
    BY <1>3, <1>5, JudgedRecord
<1>7. Good(t, r, "free", repeats[t], crashes + reopens, opinion[t], memory[t], crashes)
    BY <1>3, <1>4, <1>5, TaskTypes, JudgedTask
<1> HIDE DEF r
<1>8. RolesShape' /\ (\A u \in Known : TaskInv(u)') /\ \A u \in Known \ {t} : task'[u] = task[u]
    BY <1>2, <1>4, <1>6, <1>7, SaveKeeps
<1>9. Listed'
    BY <1>2, <1>3, <1>8 DEF Listed
<1>10. QED BY <1>8, <1>9 DEF RolesInv

LEMMA BlockUndeliveredKeeps ==
    ASSUME RolesInv, NEW t \in Known, BlockUndelivered(t)
    PROVE  RolesInv'
<1> DEFINE r == Moved(task[t], "blocked")
<1>1. At(t, "deliver", "missing") /\ Save(t, r) /\ stage' = stage /\ todo' \subseteq todo \ {t} /\ doing' = "next"
      /\ UNCHANGED <<opinion, crashes, reopens, memory, repeats, quota>>
    BY DEF BlockUndelivered, Moved, Checked, StageEnds, Onward, Go, Keep
<1>2. stage = "deliver" /\ RolesShape /\ task[t] \in Records /\ Listed /\ task[t].status = "review" /\ doing = "missing"
      /\ t \in Declared
      /\ Good(t, task[t], Phase(t), repeats[t], crashes + reopens, opinion[t], memory[t], crashes)
    BY <1>1, AtFacts DEF Listed
<1>3. \A u \in Known : Phase(u) = "free" /\ Phase(u)' = "free"
    BY <1>1, <1>2, NobodyHandled, NobodyHandledNext
<1>4. r \in Records
    BY <1>2, MovedRecord DEF Statuses
<1>5. Good(t, r, "free", repeats[t], crashes + reopens, opinion[t], memory[t], crashes)
    BY <1>2, <1>3, TaskTypes, BlockedTask
<1> HIDE DEF r
<1>6. RolesShape' /\ (\A u \in Known : TaskInv(u)') /\ \A u \in Known \ {t} : task'[u] = task[u]
    BY <1>1, <1>3, <1>4, <1>5, SaveKeeps
<1>7. Listed'
    BY <1>1, <1>2, <1>6 DEF Listed
<1>8. QED BY <1>6, <1>7 DEF RolesInv

LEMMA DeliverKeeps ==
    ASSUME RolesInv, NEW t \in Known, Deliver(t)
    PROVE  RolesInv'
<1>1. At(t, "deliver", "next") /\ stage' = stage /\ UNCHANGED <<opinion, crashes, reopens, memory, repeats, quota>>
    BY DEF Deliver, Checked, StageEnds, Onward, Step, Go, Keep
<1>2. stage = "deliver" /\ RolesShape /\ task[t] \in Records /\ Listed /\ task[t].status = "review" /\ doing = "next"
      /\ t \in Declared
      /\ Good(t, task[t], Phase(t), repeats[t], crashes + reopens, opinion[t], memory[t], crashes)
    BY <1>1, AtFacts DEF Listed
<1>3. todo' \subseteq todo /\ doing' \in {"next", "missing"}
    BY DEF Deliver, Checked, StageEnds, Onward, Step, Go
<1>4. \A u \in Known : Phase(u) = "free" /\ Phase(u)' = "free"
    BY <1>2, <1>3, NobodyHandled, NobodyHandledNext
<1>5. CASE UNCHANGED task
    <2>1. RolesShape'
        BY <1>1, <1>2, <1>5 DEF RolesShape
    <2>2. Listed'
        BY <1>1, <1>2, <1>3, <1>5 DEF Listed
    <2>3. \A u \in Known : TaskInv(u)'
        BY <1>1, <1>4, <1>5 DEF RolesInv, TaskInv
    <2>4. QED BY <2>1, <2>2, <2>3 DEF RolesInv
<1>6. CASE \E r \in Records : /\ Save(t, r) /\ r.status = "review"
                             /\ Good(t, r, "free", repeats[t], crashes + reopens, opinion[t], memory[t], crashes)
    <2>1. PICK r \in Records : /\ Save(t, r) /\ r.status = "review"
                               /\ Good(t, r, "free", repeats[t], crashes + reopens, opinion[t], memory[t], crashes)
        BY <1>6
    <2>2. RolesShape' /\ (\A u \in Known : TaskInv(u)') /\ task'[t] = r /\ \A u \in Known \ {t} : task'[u] = task[u]
        BY <1>1, <1>4, <2>1, SaveKeeps
    <2>3. Listed'
        BY <1>1, <1>2, <1>3, <2>1, <2>2 DEF Listed
    <2>4. QED BY <2>2, <2>3 DEF RolesInv
<1>7. Good(t, task[t], "free", repeats[t], crashes + reopens, opinion[t], memory[t], crashes)
    BY <1>2, <1>4
<1>8. ASSUME NEW n \in {0, 1}, n = 0 => task[t].recorded
      PROVE  /\ Produced(task[t], n) \in Records /\ Produced(task[t], n).status = "review"
             /\ Good(t, Produced(task[t], n), "free", repeats[t], crashes + reopens, opinion[t], memory[t], crashes)
    <2>1. n = 0 => task[t].evidence > 0
        BY <1>2, <1>8 DEF Good, Founded
    <2>2. QED BY <1>2, <1>7, <1>8, <2>1, TaskTypes, ProducedRecord, ProducedTask DEF SameStatus
<1>9. /\ Missing(task[t]) \in Records /\ Missing(task[t]).status = "review"
      /\ Good(t, Missing(task[t]), "free", repeats[t], crashes + reopens, opinion[t], memory[t], crashes)
    BY <1>2, <1>7, TaskTypes, MissingRecord, MissingTask DEF SameStatus
<1>10. \/ UNCHANGED task
       \/ \E n \in {0, 1} : (n = 0 => task[t].recorded) /\ Save(t, Produced(task[t], n))
       \/ Save(t, Missing(task[t]))
    BY DEF Deliver, Produced, Missing
<1>11. QED BY <1>5, <1>6, <1>8, <1>9, <1>10

LEMMA ConcludeKeeps ==
    ASSUME RolesInv, NEW t \in Known, Conclude(t)
    PROVE  RolesInv'
<1> DEFINE r == Moved(task[t], StatusOf(t))
<1>1. At(t, "review", "judged") /\ Save(t, r) /\ stage' = stage /\ todo' = todo \ {t} /\ doing' = "next"
      /\ UNCHANGED <<opinion, crashes, reopens, memory, repeats, quota>>
    BY DEF Conclude, Moved, Onward, Go, Keep
<1>2. stage = "review" /\ RolesShape /\ task[t] \in Records /\ Listed /\ doing = "judged" /\ Phase(t) = "judged"
      /\ Good(t, task[t], "judged", repeats[t], crashes + reopens, opinion[t], memory[t], crashes)
      /\ \A u \in Known \ {t} : Phase(u) = "free"
    BY <1>1, AtFacts DEF Phase
<1>3. \A u \in Known : Phase(u)' = "free"
    BY <1>1, NobodyHandledNext
<1>4. /\ StatusOf(t) \in Statuses
      /\ task[t].verdict = "approved" => StatusOf(t) = "approved"
      /\ task[t].verdict = "rework" => StatusOf(t) = "pending"
      /\ task[t].verdict = "terminal" => StatusOf(t) \in {"blocked", "graveyard"}
    <2>1. task[t].verdict \in {"rework", "approved", "terminal"}
        BY <1>2, RecordFields DEF Good, Pronounced, Verdicts
    <2>2. CASE task[t].verdict = "approved"
        BY <2>2 DEF StatusOf, Statuses
    <2>3. CASE task[t].verdict = "rework"
        BY <2>3 DEF StatusOf, Statuses
    <2>4. CASE task[t].verdict = "terminal"
        BY <2>4 DEF StatusOf, Statuses
    <2>5. QED BY <2>1, <2>2, <2>3, <2>4
<1>5. r \in Records
    BY <1>2, <1>4, MovedRecord
<1>6. Good(t, r, "free", repeats[t], crashes + reopens, opinion[t], memory[t], crashes)
    BY <1>2, <1>4, TaskTypes, ConcludedTask
<1> HIDE DEF r
<1>7. RolesShape' /\ (\A u \in Known : TaskInv(u)') /\ \A u \in Known \ {t} : task'[u] = task[u]
    BY <1>1, <1>2, <1>3, <1>5, <1>6, SaveKeeps
<1>8. Listed'
    BY <1>1, <1>2, <1>7 DEF Listed
<1>9. QED BY <1>7, <1>8 DEF RolesInv

LEMMA ArchiveKeeps ==
    ASSUME RolesInv, NEW t \in Known, Archive(t)
    PROVE  RolesInv'
<1> DEFINE r == Moved(task[t], "archived")
<1>1. At(t, "archive", "next") /\ Save(t, r) /\ stage' = stage /\ todo' = todo /\ doing' = "archived"
      /\ UNCHANGED <<opinion, crashes, reopens, memory, repeats, quota>>
    BY DEF Archive, Moved, Step, Go, Keep
<1>2. stage = "archive" /\ RolesShape /\ task[t] \in Records /\ Listed /\ doing = "next" /\ Phase(t) = "free"
      /\ Current(t) /\ todo \subseteq Known /\ t \in todo
      /\ Good(t, task[t], "free", repeats[t], crashes + reopens, opinion[t], memory[t], crashes)
      /\ \A u \in Known \ {t} : Phase(u) = "free"
    BY <1>1, AtFacts DEF Phase
<1>3. task[t].status = "approved"
    BY <1>2 DEF Listed
<1>4. Phase(t)' = "archived" /\ \A u \in Known \ {t} : Phase(u)' = "free"
    <2>1. Current(t)' /\ \A u \in Known \ {t} : ~Current(u)'
        BY <1>1, <1>2, OneAtATime, SameListSamePlace
    <2>2. QED BY <1>1, <1>2, <2>1 DEF Phase
<1>5. r \in Records /\ r.status = "archived"
    BY <1>2, MovedRecord DEF Statuses
<1>6. Good(t, r, "archived", repeats[t], crashes + reopens, opinion[t], memory[t], crashes)
    BY <1>2, <1>3, TaskTypes, ArchivedTask
<1> HIDE DEF r
<1>7. RolesShape' /\ (\A u \in Known : TaskInv(u)') /\ task'[t] = r /\ \A u \in Known \ {t} : task'[u] = task[u]
    BY <1>1, <1>2, <1>4, <1>5, <1>6, SaveKeeps
<1>8. Listed'
    BY <1>1, <1>2, <1>4, <1>5, <1>7 DEF Listed
<1>9. QED BY <1>7, <1>8 DEF RolesInv

\* The review: n, g and v are what validate_task counts, sees and decides.
LEMMA ReviewedTask ==
    ASSUME NEW t \in Known, NEW r \in Records, NEW n \in Nat, NEW s \in Nat, NEW a \in Answers, NEW m \in Memories,
           NEW c \in Nat, Good(t, r, "free", n, s, a, m, c), r.status = "review",
           NEW b \in Answers, t \in Steady => b = a,
           NEW g, g = GroundsOf(r, b),
           NEW u, u = IF ~r.fresh /\ r.grounds = g THEN r.unchanged + 1 ELSE 1,
           NEW v, v = IF u >= MaxUnchanged THEN "terminal" ELSE IF Hard(g) THEN "rework" ELSE "approved",
           NEW k, k = IF v # "rework" THEN 0
                      ELSE IF ~(~r.fresh /\ r.grounds = g) THEN 1 ELSE IF n < MaxUnchanged THEN n + 1 ELSE n
    PROVE  /\ g \in Objections /\ u \in Nat /\ v \in Verdicts /\ k \in Nat
           /\ Good(t, Reviewed(r, g, u, v), "judged", k, s, a, m, c)
<1>1. /\ r.evidence \in 0 .. MaxEvidence /\ r.delivered \in BOOLEAN /\ r.unchanged \in Nat /\ r.terminal \in BOOLEAN
      /\ MaxEvidence \in Nat \ {0} /\ Enough \in Nat \ {0} /\ MaxUnchanged \in Nat \ {0}
    BY RecordFields, RolesAssumption
<1>2. (r.evidence < Enough /\ ~r.delivered) \in BOOLEAN
    OBVIOUS
<1>3. PICK thin \in BOOLEAN : thin = (r.evidence < Enough /\ ~r.delivered)
    BY <1>2
<1>4. g = [answer |-> b, thin |-> thin]
    BY <1>3 DEF GroundsOf
<1>5. g \in Objections /\ g.thin = thin
    BY <1>1, <1>4 DEF Objections
<1>6. u \in Nat /\ v \in Verdicts /\ k \in Nat
    BY <1>1 DEF Verdicts
<1>7. Hard(g) \/ r.evidence > 0
    <2>1. r.delivered => r.evidence > 0
        BY DEF Good, Founded
    <2>2. thin \/ r.evidence > 0
        <3>1. CASE r.evidence < Enough /\ ~r.delivered
            BY <1>3, <3>1, Zenon
        <3>2. CASE r.evidence >= Enough
            BY <1>1, <3>2
        <3>3. CASE r.delivered
            BY <2>1, <3>3
        <3>4. QED BY <1>1, <3>1, <3>2, <3>3
    <2>3. ASSUME thin PROVE Hard(g)
        <3>1. thin = TRUE
            BY <2>3
        <3>2. g.thin = TRUE
            BY ONLY <1>5, <3>1
        <3>3. QED BY ONLY <3>2, Zenon DEF Hard
    <2>4. QED BY <2>2, <2>3
<1>8. /\ v = "terminal" <=> u >= MaxUnchanged
      /\ v = "rework" => u < MaxUnchanged
      /\ v = "approved" => u < MaxUnchanged /\ ~Hard(g)
      /\ v \in {"terminal", "rework", "approved"}
    BY <1>1, <1>6
<1> DEFINE q == Reviewed(r, g, u, v)
<1>9. /\ ~q.fresh /\ q.grounds = g /\ q.unchanged = u /\ q.verdict = v
      /\ (q.terminal <=> r.terminal \/ v = "terminal")
      /\ SameStatus(q, r) /\ SameEvidence(q, r) /\ SameDecision(q, r)
    <2>1. r \in Records /\ g \in Objections /\ u \in Nat /\ v \in Verdicts
        BY <1>5, <1>6
    <2>2. QED BY ONLY <2>1, ReviewedRecord
<1> HIDE DEF q
<1>10. /\ ~q.fresh /\ q.grounds = g /\ q.unchanged = u /\ q.verdict = v
       /\ (q.terminal <=> r.terminal \/ v = "terminal")
       /\ q.status = r.status /\ q.evidence = r.evidence /\ q.recorded = r.recorded
       /\ q.delivered = r.delivered /\ q.decision = r.decision
    BY <1>9 DEF SameStatus, SameEvidence, SameDecision
<1>11. q.status = "review" /\ q.decision # "discard"
    BY <1>10 DEF Good, Founded
<1>12. Founded(q)
    BY <1>10, <1>11 DEF Good, Founded
<1>13. Counted(q, "judged", k, s)
    <2>1. n <= r.unchanged /\ r.unchanged < MaxUnchanged + s
        BY DEF Good, Counted
    <2>2. u <= MaxUnchanged + s
        BY <1>1, <2>1
    <2>3. k <= u /\ k < MaxUnchanged
        BY <1>1, <1>6, <1>8, <2>1
    <2>4. QED BY <1>10, <2>2, <2>3 DEF Counted
<1>14. Pronounced(q, "judged")
    BY <1>6, <1>7, <1>8, <1>10, <1>11 DEF Pronounced
<1>15. t \in Steady => Final(q, "judged", a)
    <2>1. SUFFICES ASSUME t \in Steady, q.terminal PROVE Final(q, "judged", a)
        BY DEF Final
    <2>2. GroundsOf(q, a) = g
        BY <1>10, <2>1 DEF GroundsOf
    <2>3. v = "terminal"
        <3>1. CASE r.terminal
            <4>1. ~r.fresh /\ r.grounds = g /\ r.unchanged >= MaxUnchanged
                BY <2>1, <3>1 DEF Good, Final
            <4>2. u = r.unchanged + 1
                BY <4>1
            <4>3. QED BY <1>1, <1>8, <4>1, <4>2
        <3>2. QED BY <1>10, <2>1, <3>1
    <2>4. QED BY <1>8, <1>10, <1>11, <2>2, <2>3 DEF Final
<1>16. Remembered(q, "judged", m, c)
    BY <1>11 DEF Good, Remembered
<1>17. QED BY <1>5, <1>6, <1>12, <1>13, <1>14, <1>15, <1>16 DEF Good, q

LEMMA ValidateKeeps ==
    ASSUME RolesInv, NEW t \in Known, Validate(t)
    PROVE  RolesInv'
<1>1. At(t, "review", "next") /\ stage' = stage /\ todo' = todo /\ doing' = "judged"
      /\ UNCHANGED <<opinion, crashes, reopens, memory, quota>>
    BY DEF Validate, Step, Go, Keep
<1>2. stage = "review" /\ RolesShape /\ task[t] \in Records /\ Listed /\ doing = "next" /\ Phase(t) = "free"
      /\ Current(t) /\ todo \subseteq Known /\ t \in todo /\ task[t].status = "review"
      /\ Good(t, task[t], "free", repeats[t], crashes + reopens, opinion[t], memory[t], crashes)
      /\ \A u \in Known \ {t} : Phase(u) = "free"
    BY <1>1, AtFacts DEF Phase, Listed
<1>3. Phase(t)' = "judged" /\ \A u \in Known \ {t} : Phase(u)' = "free"
    <2>1. Current(t)' /\ \A u \in Known \ {t} : ~Current(u)'
        BY <1>1, <1>2, OneAtATime, SameListSamePlace
    <2>2. QED BY <1>1, <1>2, <2>1 DEF Phase
<1>4. PICK b, g, v, n, k :
         /\ b \in Answers /\ (t \in Steady => b = opinion[t])
         /\ g = GroundsOf(task[t], b)
         /\ n = IF ~task[t].fresh /\ task[t].grounds = g THEN task[t].unchanged + 1 ELSE 1
         /\ v = IF n >= MaxUnchanged THEN "terminal" ELSE IF Hard(g) THEN "rework" ELSE "approved"
         /\ k = IF v # "rework" THEN 0
                ELSE IF ~(~task[t].fresh /\ task[t].grounds = g) THEN 1
                ELSE IF repeats[t] < MaxUnchanged THEN repeats[t] + 1 ELSE repeats[t]
         /\ Save(t, Reviewed(task[t], g, n, v)) /\ repeats' = [repeats EXCEPT ![t] = k]
    <2>1. PICK b \in IF t \in Fickle THEN Answers ELSE {opinion[t]} :
             LET g == Grounds(t, b)
             IN /\ Save(t, [task[t] EXCEPT !.fresh = FALSE, !.grounds = g, !.unchanged = Unchanged(t, g),
                                           !.verdict = Verdict(t, g), !.terminal = @ \/ Verdict(t, g) = "terminal"])
                /\ repeats' = [repeats EXCEPT ![t] = IF Verdict(t, g) # "rework" THEN 0
                                                     ELSE IF ~Same(t, g) THEN 1
                                                     ELSE IF @ < MaxUnchanged THEN @ + 1 ELSE @]
        BY DEF Validate
    <2>2. b \in Answers /\ (t \in Steady => b = opinion[t])
        BY <1>2, <2>1, TaskTypes DEF Steady
    <2>3. PICK g : g = Grounds(t, b) /\ g = GroundsOf(task[t], b)
        BY DEF Grounds, GroundsOf
    <2>4. PICK n : /\ n = Unchanged(t, g)
                   /\ n = IF ~task[t].fresh /\ task[t].grounds = g THEN task[t].unchanged + 1 ELSE 1
        BY DEF Unchanged, Same
    <2>5. PICK v : v = Verdict(t, g)
                   /\ v = IF n >= MaxUnchanged THEN "terminal" ELSE IF Hard(g) THEN "rework" ELSE "approved"
        BY <2>4 DEF Verdict
    <2>6. PICK k : k = IF v # "rework" THEN 0
                       ELSE IF ~(~task[t].fresh /\ task[t].grounds = g) THEN 1
                       ELSE IF repeats[t] < MaxUnchanged THEN repeats[t] + 1 ELSE repeats[t]
        OBVIOUS
    <2>7. Save(t, Reviewed(task[t], g, n, v)) /\ repeats' = [repeats EXCEPT ![t] = k]
        BY <2>1, <2>3, <2>4, <2>5, <2>6 DEF Reviewed, Same
    <2>8. QED BY <2>2, <2>3, <2>4, <2>5, <2>6, <2>7
<1>5. /\ g \in Objections /\ n \in Nat /\ v \in Verdicts /\ k \in Nat
      /\ Good(t, Reviewed(task[t], g, n, v), "judged", k, crashes + reopens, opinion[t], memory[t], crashes)
    BY <1>2, <1>4, TaskTypes, ReviewedTask, SMTT(40)
<1>6. PICK r \in Records : r = Reviewed(task[t], g, n, v) /\ r.status = "review"
    <2>1. Reviewed(task[t], g, n, v) \in Records /\ SameStatus(Reviewed(task[t], g, n, v), task[t])
        BY <1>2, <1>5, ReviewedRecord
    <2>2. QED BY <1>2, <2>1 DEF SameStatus
<1>7. task' \in [Known -> Records] /\ task'[t] = r /\ \A u \in Known \ {t} : task'[u] = task[u]
    BY <1>2, <1>4, <1>6, SavedTask DEF RolesShape
<1>8. repeats' \in [Known -> Nat] /\ repeats'[t] = k /\ \A u \in Known \ {t} : repeats'[u] = repeats[u]
    BY <1>2, <1>4, <1>5 DEF RolesShape
<1>9. RolesShape'
    BY <1>1, <1>2, <1>7, <1>8 DEF RolesShape
<1>10. Listed'
    BY <1>1, <1>2, <1>6, <1>7 DEF Listed
<1>11. TaskInv(t)'
    BY <1>1, <1>3, <1>5, <1>6, <1>7, <1>8 DEF TaskInv
<1>12. \A u \in Known \ {t} : TaskInv(u)'
    BY <1>1, <1>2, <1>3, <1>7, <1>8, OtherTasks DEF RolesInv
<1>13. QED BY <1>9, <1>10, <1>11, <1>12 DEF RolesInv

\* Steps of the daemon that save nothing.
LEMMA PassKeeps ==
    ASSUME RolesInv, stage \in {"research", "deliver", "review", "judge", "archive"},
           UNCHANGED <<task, opinion, crashes, reopens, memory, repeats, stage, quota>>,
           todo' \subseteq todo, doing = "next", doing' = "next"
    PROVE  RolesInv'
<1>1. RolesShape /\ Listed /\ (\A u \in Known : TaskInv(u))
    BY DEF RolesInv
<1>2. \A u \in Known : Phase(u) = "free" /\ Phase(u)' = "free"
    BY NobodyHandled, NobodyHandledNext
<1>3. RolesShape'
    BY <1>1 DEF RolesShape
<1>4. Listed'
    BY <1>1, <1>2 DEF Listed
<1>5. \A u \in Known : TaskInv(u)'
    BY <1>1, <1>2 DEF TaskInv
<1>6. QED BY <1>3, <1>4, <1>5 DEF RolesInv

LEMMA ValidateRaisesKeeps ==
    ASSUME RolesInv, NEW t \in Known, ValidateRaises(t)
    PROVE  RolesInv'
BY PassKeeps DEF ValidateRaises, At, StageEnds, Go, Keep, RolesInv, RolesShape

LEMMA ArchiveRefusedKeeps ==
    ASSUME RolesInv, NEW t \in Known, ArchiveRefused(t)
    PROVE  RolesInv'
BY PassKeeps DEF ArchiveRefused, At, Onward, Go, Keep, RolesInv, RolesShape

\* Archivist's two steps, on a task that is archived already.
LEMMA MemoryKeeps ==
    ASSUME RolesInv, NEW t \in Known, NEW q \in Memories, NEW phase, memory' = [memory EXCEPT ![t] = q],
           UNCHANGED <<task, opinion, crashes, reopens, repeats, stage, quota>>, stage = "archive",
           \A u \in Known \ {t} : Phase(u) = "free" /\ Phase(u)' = "free",
           Phase(t)' = phase, Good(t, task[t], phase, repeats[t], crashes + reopens, opinion[t], q, crashes)
    PROVE  RolesShape' /\ \A u \in Known : TaskInv(u)'
<1>1. RolesShape /\ \A u \in Known : TaskInv(u)
    BY DEF RolesInv
<1>2. memory' \in [Known -> Memories] /\ memory'[t] = q /\ \A u \in Known \ {t} : memory'[u] = memory[u]
    BY <1>1 DEF RolesShape
<1>3. RolesShape'
    BY <1>1, <1>2 DEF RolesShape
<1>4. TaskInv(t)'
    BY <1>2 DEF TaskInv
<1>5. \A u \in Known \ {t} : TaskInv(u)'
    BY <1>1, <1>2, OtherTasks
<1>6. QED BY <1>3, <1>4, <1>5

Lost(m, k) == [m EXCEPT !.notes = k, !.lost = TRUE]

LEMMA LostMemory ==
    ASSUME NEW m \in Memories, NEW k \in Nat
    PROVE  /\ Lost(m, k) \in Memories
           /\ Lost(m, k).notes = k /\ Lost(m, k).lessons = m.lessons /\ Lost(m, k).lost = TRUE
BY DEF Memories, Lost

LEMMA AddNoteKeeps ==
    ASSUME RolesInv, NEW t \in Known, AddNote(t)
    PROVE  RolesInv'
<1>1. At(t, "archive", "archived") /\ stage' = stage /\ UNCHANGED <<task, opinion, crashes, reopens, repeats, quota>>
    BY DEF AddNote, Step, StageEnds, Go, Keep
<1>2. stage = "archive" /\ RolesShape /\ task[t] \in Records /\ Listed /\ doing = "archived" /\ Phase(t) = "archived"
      /\ Current(t) /\ todo \subseteq Known /\ t \in todo /\ memory[t] \in Memories
      /\ Good(t, task[t], "archived", repeats[t], crashes + reopens, opinion[t], memory[t], crashes)
      /\ \A u \in Known \ {t} : Phase(u) = "free"
    BY <1>1, AtFacts, TaskTypes DEF Phase
<1>3. CASE \E n \in {0, 1} : /\ n = (IF Indexed THEN 1 ELSE 0)
                            /\ memory' = [memory EXCEPT ![t].notes = @ + n]
                            /\ todo' = todo /\ doing' = "noted"
    <2>1. PICK n \in {0, 1} : /\ n = (IF Indexed THEN 1 ELSE 0)
                              /\ memory' = [memory EXCEPT ![t].notes = @ + n]
                              /\ todo' = todo /\ doing' = "noted"
        BY <1>3
    <2>2. PICK q \in Memories : /\ q.notes = memory[t].notes + n /\ q.lessons = memory[t].lessons
                               /\ memory' = [memory EXCEPT ![t] = q]
        <3>1. [memory[t] EXCEPT !.notes = @ + n] \in Memories
              /\ [memory[t] EXCEPT !.notes = @ + n].notes = memory[t].notes + n
              /\ [memory[t] EXCEPT !.notes = @ + n].lessons = memory[t].lessons
            BY <1>2 DEF Memories
        <3>2. QED BY <2>1, <3>1
    <2>3. Phase(t)' = "noted" /\ \A u \in Known \ {t} : Phase(u)' = "free"
        <3>1. Current(t)' /\ \A u \in Known \ {t} : ~Current(u)'
            BY <1>2, <2>1, OneAtATime, SameListSamePlace
        <3>2. QED BY <1>1, <1>2, <2>1, <3>1 DEF Phase
    <2>4. Good(t, task[t], "noted", repeats[t], crashes + reopens, opinion[t], q, crashes)
        BY <1>2, <2>1, <2>2, TaskTypes, NotedTask
    <2>5. RolesShape' /\ \A u \in Known : TaskInv(u)'
        BY <1>1, <1>2, <2>2, <2>3, <2>4, MemoryKeeps
    <2>6. Listed'
        BY <1>1, <1>2, <2>1, <2>3 DEF Listed
    <2>7. QED BY <2>5, <2>6 DEF RolesInv
<1>4. CASE \E n \in {0, 1} : /\ memory' = [memory EXCEPT ![t].notes = @ + n, ![t].lost = TRUE]
                            /\ todo' = {} /\ doing' = "next"
    <2>1. PICK n \in {0, 1} : /\ memory' = [memory EXCEPT ![t].notes = @ + n, ![t].lost = TRUE]
                              /\ todo' = {} /\ doing' = "next"
        BY <1>4
    <2>2. PICK q \in Memories : /\ q.notes = memory[t].notes + n /\ q.lessons = memory[t].lessons /\ q.lost = TRUE
                               /\ memory' = [memory EXCEPT ![t] = q]
        <3>1. PICK k \in Nat : k = memory[t].notes + n
            BY <1>2 DEF Memories
        <3> DEFINE q == Lost(memory[t], k)
        <3>2. q \in Memories /\ q.notes = k /\ q.lessons = memory[t].lessons /\ q.lost = TRUE
            BY <1>2, <3>1, LostMemory
        <3>3. memory' = [memory EXCEPT ![t] = q]
            BY <1>2, <2>1, <3>1, <3>2 DEF RolesShape, Lost
        <3> HIDE DEF q
        <3>4. QED BY <3>1, <3>2, <3>3
    <2>3. \A u \in Known : Phase(u)' = "free"
        BY <2>1, NobodyHandledNext
    <2>4. Good(t, task[t], "free", repeats[t], crashes + reopens, opinion[t], q, crashes)
        BY <1>2, <2>2, TaskTypes, NotedTask
    <2>5. RolesShape' /\ \A u \in Known : TaskInv(u)'
        BY <1>1, <1>2, <2>2, <2>3, <2>4, MemoryKeeps
    <2>6. Listed'
        BY <1>1, <1>2, <2>1 DEF Listed
    <2>7. QED BY <2>5, <2>6 DEF RolesInv
<1>5. QED BY <1>3, <1>4 DEF AddNote, Step, StageEnds, Go

LEMMA DepositKeeps ==
    ASSUME RolesInv, NEW t \in Known, Deposit(t)
    PROVE  RolesInv'
<1>1. At(t, "archive", "noted") /\ stage' = stage /\ todo' = todo \ {t} /\ doing' = "next"
      /\ UNCHANGED <<task, opinion, crashes, reopens, repeats, quota>>
    BY DEF Deposit, Onward, Go, Keep
<1>2. stage = "archive" /\ RolesShape /\ task[t] \in Records /\ Listed /\ doing = "noted" /\ Phase(t) = "noted"
      /\ Current(t) /\ todo \subseteq Known /\ t \in todo /\ memory[t] \in Memories
      /\ Good(t, task[t], "noted", repeats[t], crashes + reopens, opinion[t], memory[t], crashes)
      /\ \A u \in Known \ {t} : Phase(u) = "free"
    BY <1>1, AtFacts, TaskTypes DEF Phase
<1>3. \A u \in Known : Phase(u)' = "free"
    BY <1>1, NobodyHandledNext
<1>4. PICK q \in Memories, k \in {0, 1} :
         /\ q.notes = memory[t].notes /\ q.lessons = memory[t].lessons + k /\ (k = 1 \/ q.lost)
         /\ memory' = [memory EXCEPT ![t] = q]
    <2>1. CASE memory' = [memory EXCEPT ![t].lessons = @ + 1]
        <3>1. [memory[t] EXCEPT !.lessons = @ + 1] \in Memories
              /\ [memory[t] EXCEPT !.lessons = @ + 1].notes = memory[t].notes
              /\ [memory[t] EXCEPT !.lessons = @ + 1].lessons = memory[t].lessons + 1
            BY <1>2 DEF Memories
        <3>2. QED BY <2>1, <3>1
    <2>2. CASE memory' = [memory EXCEPT ![t].lost = TRUE]
        <3>1. PICK k \in Nat : k = memory[t].notes /\ memory[t].lessons = memory[t].lessons + 0
            BY <1>2 DEF Memories
        <3> DEFINE q == Lost(memory[t], k)
        <3>2. q \in Memories /\ q.notes = k /\ q.lessons = memory[t].lessons /\ q.lost = TRUE
            BY <1>2, <3>1, LostMemory
        <3>3. q = [memory[t] EXCEPT !.lost = TRUE]
            BY <1>2, <3>1, <3>2 DEF Memories, Lost
        <3> HIDE DEF q
        <3>4. QED BY <2>2, <3>1, <3>2, <3>3
    <2>3. QED BY <2>1, <2>2 DEF Deposit
<1>5. Good(t, task[t], "free", repeats[t], crashes + reopens, opinion[t], q, crashes)
    BY <1>2, <1>4, TaskTypes, DepositedTask
<1>6. RolesShape' /\ \A u \in Known : TaskInv(u)'
    BY <1>1, <1>2, <1>3, <1>4, <1>5, MemoryKeeps
<1>7. Listed'
    BY <1>1, <1>2, <1>3 DEF Listed
<1>8. QED BY <1>6, <1>7 DEF RolesInv

\* Every stage lists what it will work off.
LEMMA ListedTasks ==
    ASSUME NEW status, NEW limit
    PROVE  /\ List(status, limit) \subseteq Known
           /\ \A t \in List(status, limit) : task[t].status = status
BY DEF List

LEMMA NextStageKeeps ==
    ASSUME RolesInv, NextStage
    PROVE  RolesInv'
<1>1. RolesShape /\ Listed /\ (\A u \in Known : TaskInv(u)) /\ todo = {}
    BY DEF RolesInv, NextStage
<1>2. UNCHANGED <<task, opinion, crashes, reopens, memory, repeats>>
    BY DEF NextStage, Keep
<1>3. /\ doing' = "next" /\ quota' = Quota
      /\ \/ stage' = "deliver" /\ todo' = List("review", StageLimit) \cap Declared
         \/ stage' = "review" /\ todo' = List("review", ReviewLimit)
         \/ stage' \in {"judge", "archive"} /\ todo' = List("approved", StageLimit)
         \/ stage' = "research" /\ todo' = {}
    <2>1. stage \in {"research", "deliver", "review", "judge", "archive"}
        BY <1>1 DEF RolesShape
    <2>2. CASE stage = "research"
        BY <2>2 DEF NextStage, Begin
    <2>3. CASE stage = "deliver"
        BY <2>3 DEF NextStage, Begin
    <2>4. CASE stage = "review"
        BY <2>4 DEF NextStage, Begin
    <2>5. CASE stage = "judge"
        BY <2>5 DEF NextStage, Begin
    <2>6. CASE stage = "archive"
        BY <2>6 DEF NextStage, Begin
    <2>7. QED BY <2>1, <2>2, <2>3, <2>4, <2>5, <2>6
<1>4. \A u \in Known : Phase(u) = "free" /\ Phase(u)' = "free"
    BY <1>1, <1>3, NobodyHandledNext DEF Phase, Current
<1>5. RolesShape'
    BY <1>1, <1>2, <1>3, RolesAssumption DEF RolesShape
<1>6. Listed'
    BY <1>2, <1>3, <1>4, ListedTasks DEF Listed
<1>7. \A u \in Known : TaskInv(u)'
    BY <1>1, <1>2, <1>4 DEF TaskInv
<1>8. QED BY <1>5, <1>6, <1>7 DEF RolesInv

LEMMA CrashKeeps ==
    ASSUME RolesInv, Crash
    PROVE  RolesInv'
<1>1. RolesShape /\ \A u \in Known : TaskInv(u)
    BY DEF RolesInv
<1>2. UNCHANGED <<task, opinion, reopens, memory, repeats>> /\ crashes' = crashes + 1 /\ crashes < MaxCrashes
      /\ stage' = "research" /\ todo' = {} /\ doing' = "next" /\ quota' = Quota
    BY DEF Crash, Begin
<1>3. \A u \in Known : Phase(u)' = "free"
    BY <1>2, NobodyHandledNext
<1>4. RolesShape'
    BY <1>1, <1>2, RolesAssumption DEF RolesShape
<1>5. Listed'
    BY <1>2 DEF Listed
<1>6. \A u \in Known : TaskInv(u)'
    <2>1. TAKE u \in Known
    <2>2. Good(u, task[u], Phase(u), repeats[u], crashes + reopens, opinion[u], memory[u], crashes)
        BY <1>1 DEF TaskInv
    <2>3. Good(u, task[u], "free", repeats[u], (crashes + reopens) + 1, opinion[u], memory[u], crashes + 1)
        BY <1>1, <2>2, TaskTypes, CrashedTask
    <2>4. (crashes + reopens) + 1 = crashes' + reopens'
        BY <1>1, <1>2, TaskTypes
    <2>5. QED BY <1>2, <1>3, <2>3, <2>4 DEF TaskInv
<1>7. QED BY <1>4, <1>5, <1>6 DEF RolesInv

\* A blocked task is in no list; what the pool does with it is no matter of the daemon's stage.
LEMMA ReturnKeeps ==
    ASSUME RolesInv, NEW t \in Known, NEW r \in Records, Save(t, r), task[t].status = "blocked",
           reopens < MaxReopens, reopens' = reopens + 1,
           UNCHANGED <<opinion, stage, todo, doing, quota, receipts, memory, crashes, repeats>>,
           Good(t, r, Phase(t), repeats[t], (crashes + reopens) + 1, opinion[t], memory[t], crashes)
    PROVE  RolesInv'
<1>1. RolesShape /\ Listed /\ \A u \in Known : TaskInv(u)
    BY DEF RolesInv
<1>2. task' \in [Known -> Records] /\ task'[t] = r /\ \A u \in Known \ {t} : task'[u] = task[u]
    BY <1>1, SavedTask DEF RolesShape
<1>3. \A u \in Known : Phase(u)' = Phase(u)
    BY DEF Phase, Current
<1>4. RolesShape'
    BY <1>1, <1>2, RolesAssumption DEF RolesShape
<1>5. t \notin todo
    BY <1>1 DEF Listed, RolesShape
<1>6. Listed'
    BY <1>1, <1>2, <1>3, <1>5 DEF Listed
<1>7. (crashes + reopens) + 1 = crashes' + reopens'
    BY <1>1, TaskTypes
<1>8. TaskInv(t)'
    BY <1>2, <1>3, <1>7 DEF TaskInv
<1>9. \A u \in Known \ {t} : TaskInv(u)'
    <2>1. TAKE u \in Known \ {t}
    <2>2. Good(u, task[u], Phase(u), repeats[u], crashes + reopens, opinion[u], memory[u], crashes)
        BY <1>1 DEF TaskInv
    <2>3. Good(u, task[u], Phase(u), repeats[u], (crashes + reopens) + 1, opinion[u], memory[u], crashes)
        BY <1>1, <2>2, TaskTypes, UntouchedTask
    <2>4. QED BY <1>2, <1>3, <1>7, <2>3 DEF TaskInv
<1>10. QED BY <1>4, <1>6, <1>8, <1>9 DEF RolesInv

LEMMA ReopenKeeps ==
    ASSUME RolesInv, NEW t \in Known, Reopen(t)
    PROVE  RolesInv'
<1>1. RolesShape /\ TaskInv(t) /\ task[t] \in Records /\ task[t].status = "blocked"
    BY TaskTypes DEF RolesInv, Reopen
<1>2. PICK k \in 0 .. MaxEvidence : Save(t, Reopened(task[t], k))
    BY DEF Reopen, Reopened
<1>3. k \in Nat
    BY RolesAssumption
<1>4. Reopened(task[t], k) \in Records
    BY <1>1, <1>3, ReopenedRecord
<1>5. Good(t, task[t], Phase(t), repeats[t], crashes + reopens, opinion[t], memory[t], crashes)
    BY <1>1 DEF TaskInv
<1>6. Good(t, Reopened(task[t], k), Phase(t), repeats[t], (crashes + reopens) + 1, opinion[t], memory[t], crashes)
    BY <1>1, <1>3, <1>5, TaskTypes, ReopenedTask
<1>7. QED BY <1>1, <1>2, <1>4, <1>6, ReturnKeeps DEF Reopen

LEMMA UnblockKeeps ==
    ASSUME RolesInv, NEW t \in Known, Unblock(t)
    PROVE  RolesInv'
<1>1. RolesShape /\ TaskInv(t) /\ task[t] \in Records /\ task[t].status = "blocked" /\ ~task[t].terminal
    BY TaskTypes DEF RolesInv, Unblock
<1>2. Save(t, Moved(task[t], "pending")) /\ Moved(task[t], "pending") \in Records
    BY <1>1, MovedRecord DEF Unblock, Moved, Statuses
<1>3. Good(t, task[t], Phase(t), repeats[t], crashes + reopens, opinion[t], memory[t], crashes)
    BY <1>1 DEF TaskInv
<1>4. Good(t, Moved(task[t], "pending"), Phase(t), repeats[t], (crashes + reopens) + 1, opinion[t], memory[t], crashes)
    BY <1>1, <1>3, TaskTypes, UnblockedTask
<1>5. QED BY <1>1, <1>2, <1>4, ReturnKeeps DEF Unblock

LEMMA DisposeKeeps ==
    ASSUME RolesInv, NEW t \in Known, Dispose(t)
    PROVE  RolesInv'
<1>1. RolesShape /\ Listed /\ (\A u \in Known : TaskInv(u)) /\ task[t] \in Records /\ memory[t] \in Memories
      /\ task[t].status = "blocked" /\ UNCHANGED <<opinion, stage, todo, doing, quota, crashes, reopens, repeats>>
    BY TaskTypes DEF RolesInv, Dispose, Keep
<1>2. Save(t, Buried(task[t])) /\ Buried(task[t]) \in Records
    BY <1>1, BuriedRecord DEF Dispose, Buried
<1>3. task' \in [Known -> Records] /\ task'[t] = Buried(task[t]) /\ \A u \in Known \ {t} : task'[u] = task[u]
    BY <1>1, <1>2, SavedTask DEF RolesShape
<1>4. PICK q \in Memories, k \in {0, 1} : /\ q.notes = memory[t].notes /\ q.lessons = memory[t].lessons + k
                                         /\ memory' = [memory EXCEPT ![t] = q]
    <2>1. PICK k \in {0, 1} : memory' = [memory EXCEPT ![t].lessons = @ + k]
        BY DEF Dispose
    <2>2. [memory[t] EXCEPT !.lessons = @ + k] \in Memories
          /\ [memory[t] EXCEPT !.lessons = @ + k].notes = memory[t].notes
          /\ [memory[t] EXCEPT !.lessons = @ + k].lessons = memory[t].lessons + k
        BY <1>1 DEF Memories
    <2>3. QED BY <2>1, <2>2
<1>5. memory' \in [Known -> Memories] /\ memory'[t] = q /\ \A u \in Known \ {t} : memory'[u] = memory[u]
    BY <1>1, <1>4 DEF RolesShape
<1>6. \A u \in Known : Phase(u)' = Phase(u)
    BY <1>1 DEF Phase, Current
<1>7. RolesShape'
    BY <1>1, <1>3, <1>5 DEF RolesShape
<1>8. t \notin todo
    BY <1>1 DEF Listed, RolesShape
<1>9. Listed'
    BY <1>1, <1>3, <1>6, <1>8 DEF Listed
<1>10. TaskInv(t)'
    <2>1. Good(t, task[t], Phase(t), repeats[t], crashes + reopens, opinion[t], memory[t], crashes)
        BY <1>1 DEF TaskInv
    <2>2. Good(t, Buried(task[t]), Phase(t), repeats[t], crashes + reopens, opinion[t], q, crashes)
        BY <1>1, <1>4, <2>1, TaskTypes, DisposedTask
    <2>3. QED BY <1>1, <1>3, <1>5, <1>6, <2>2 DEF TaskInv
<1>11. \A u \in Known \ {t} : TaskInv(u)'
    BY <1>1, <1>3, <1>5, <1>6 DEF TaskInv
<1>12. QED BY <1>7, <1>9, <1>10, <1>11 DEF RolesInv

\* Receipts are no part of the invariant.
LEMMA ReceiptKeeps ==
    ASSUME RolesInv, UNCHANGED <<task, opinion, stage, todo, doing, quota, memory, crashes, reopens, repeats>>
    PROVE  RolesInv'
<1>1. \A u \in Known : Phase(u)' = Phase(u)
    BY DEF Phase, Current
<1>2. RolesShape' /\ Listed'
    BY <1>1 DEF RolesInv, RolesShape, Listed
<1>3. \A u \in Known : TaskInv(u)'
    BY <1>1 DEF RolesInv, TaskInv
<1>4. QED BY <1>2, <1>3 DEF RolesInv

LEMMA RolesInductive ==
    ASSUME RolesInv, [RolesNext]_rolesVars
    PROVE  RolesInv'
<1>1. CASE UNCHANGED rolesVars
    BY <1>1, ReceiptKeeps DEF rolesVars
<1>2. CASE NextStage
    BY <1>2, NextStageKeeps
<1>3. CASE Crash
    BY <1>3, CrashKeeps
<1>4. ASSUME NEW t \in Known, HandIn(t) PROVE RolesInv'
    BY <1>4, HandInKeeps
<1>5. ASSUME NEW t \in Known, Deliver(t) PROVE RolesInv'
    BY <1>5, DeliverKeeps
<1>6. ASSUME NEW t \in Known, BlockUndelivered(t) PROVE RolesInv'
    BY <1>6, BlockUndeliveredKeeps
<1>7. ASSUME NEW t \in Known, Validate(t) PROVE RolesInv'
    BY <1>7, ValidateKeeps
<1>8. ASSUME NEW t \in Known, ValidateRaises(t) PROVE RolesInv'
    BY <1>8, ValidateRaisesKeeps
<1>9. ASSUME NEW t \in Known, Conclude(t) PROVE RolesInv'
    BY <1>9, ConcludeKeeps
<1>10. ASSUME NEW t \in Known, Judge(t) PROVE RolesInv'
    BY <1>10, JudgeKeeps
<1>11. ASSUME NEW t \in Known, Archive(t) PROVE RolesInv'
    BY <1>11, ArchiveKeeps
<1>12. ASSUME NEW t \in Known, ArchiveRefused(t) PROVE RolesInv'
    BY <1>12, ArchiveRefusedKeeps
<1>13. ASSUME NEW t \in Known, AddNote(t) PROVE RolesInv'
    BY <1>13, AddNoteKeeps
<1>14. ASSUME NEW t \in Known, Deposit(t) PROVE RolesInv'
    BY <1>14, DepositKeeps
<1>15. ASSUME NEW t \in Known, Research(t) PROVE RolesInv'
    BY <1>15, ResearchKeeps
<1>16. ASSUME NEW t \in Known, Reopen(t) PROVE RolesInv'
    BY <1>16, ReopenKeeps
<1>17. ASSUME NEW t \in Known, Unblock(t) PROVE RolesInv'
    BY <1>17, UnblockKeeps
<1>18. ASSUME NEW t \in Known, Receipt(t) PROVE RolesInv'
    BY <1>18, ReceiptKeeps DEF Receipt
<1>19. ASSUME NEW t \in Known, Dispose(t) PROVE RolesInv'
    BY <1>19, DisposeKeeps
<1>20. QED BY <1>1, <1>2, <1>3, <1>4, <1>5, <1>6, <1>7, <1>8, <1>9, <1>10, <1>11, <1>12, <1>13, <1>14, <1>15, <1>16,
              <1>17, <1>18, <1>19 DEF RolesNext, Stage

\* What the stages know of a task, of the todo list and of each other holds for any number of
\* tasks, through deaths of the daemon, reopenings and receipts at any moment.
THEOREM RolesAlways == RolesSpec => []RolesInv
BY RolesInitial, RolesInductive, PTL DEF RolesSpec

-----------------------------------------------------------------------------
(* What the daemon guarantees. *)

\* Records, stages and memory are well formed; in particular no review is counted more often
\* than MAX_UNCHANGED_REVIEWS and one for every death and every reopening.
THEOREM RolesTypeCorrect == RolesSpec => []RolesTypeOK
<1>1. ASSUME RolesInv PROVE RolesTypeOK
    <2>1. RolesShape /\ Listed
        BY <1>1 DEF RolesInv
    <2>2. \A t \in Known : task[t].unchanged \in 0 .. MaxUnchanged + MaxCrashes + MaxReopens
        <3>1. TAKE t \in Known
        <3>2. task[t].unchanged <= MaxUnchanged + (crashes + reopens) /\ task[t].unchanged \in Nat
            BY <1>1, <2>1, TaskTypes, RecordFields DEF RolesInv, TaskInv, Good, Counted
        <3>3. QED BY <2>1, <3>2, RolesAssumption DEF RolesShape
    <2> DEFINE Bounded == [status : Statuses, evidence : 0 .. MaxEvidence, fresh : BOOLEAN, recorded : BOOLEAN,
                           delivered : BOOLEAN, grounds : Objections,
                           unchanged : 0 .. MaxUnchanged + MaxCrashes + MaxReopens, verdict : Verdicts,
                           terminal : BOOLEAN, decision : {"none", "keep", "discard"}]
    <2>3. \A t \in Known : task[t] \in Bounded
        BY <2>1, <2>2 DEF RolesShape, Records
    <2>4. task \in [Known -> Bounded]
        BY <2>1, <2>3 DEF RolesShape
    <2>5. todo \subseteq Known /\ doing \in {"next", "found", "missing", "judged", "archived", "noted"}
        BY <2>1 DEF Listed, RolesShape
    <2>6. \A t \in Known : task[t].decision = "discard" => task[t].status = "graveyard"
        BY <1>1 DEF RolesInv, TaskInv, Good, Founded
    <2>7. QED BY <2>1, <2>4, <2>5, <2>6 DEF RolesTypeOK, RolesShape, Statuses, Objections, Verdicts
<1>2. QED BY <1>1, RolesAlways, PTL

\* A task is not sent back to research for ever on the same evidence and the same
\* objections, whatever deaths and reopenings come between.
THEOREM ReworkAlwaysBounded == RolesSpec => []ReworkIsBounded
<1>1. RolesInv => ReworkIsBounded
    BY DEF RolesInv, TaskInv, Good, Counted, ReworkIsBounded
<1>2. QED BY <1>1, RolesAlways, PTL

\* A task flagged as not convergent is worked on again only after reopen_task, unless the
\* model or a deliverable changes sides.
THEOREM TerminalAlwaysStaysOut == RolesSpec => []TerminalStaysOut
<1>1. RolesInv => TerminalStaysOut
    BY DEF RolesInv, TaskInv, Good, Final, TerminalStaysOut, Steady
<1>2. QED BY <1>1, RolesAlways, PTL

\* What the daemon archives is remembered once, as a note and as an experience, unless a call
\* that was to remember it failed or the daemon died over it; and nothing else is remembered,
\* but the lesson of a buried task.
THEOREM ArchivedAlwaysRemembered == RolesSpec => []ArchivedIsRemembered
<1>1. ASSUME RolesInv PROVE ArchivedIsRemembered
    <2>1. SUFFICES ASSUME NEW t \in Known
                   PROVE  /\ memory[t].notes <= 1 /\ memory[t].lessons <= 1
                          /\ memory[t].notes = 1 => task[t].status = "archived"
                          /\ memory[t].lessons = 1 => task[t].status \in {"archived", "graveyard"}
                          /\ task[t].status = "archived" /\ crashes = 0 /\ ~Current(t) /\ ~memory[t].lost =>
                               memory[t].lessons = 1 /\ (Indexed => memory[t].notes = 1)
        BY DEF ArchivedIsRemembered
    <2>2. Remembered(task[t], Phase(t), memory[t], crashes)
        BY <1>1 DEF RolesInv, TaskInv, Good
    <2>3. ~Current(t) => Phase(t) = "free"
        BY DEF Phase
    <2>4. QED BY <2>2, <2>3 DEF Remembered
<1>2. QED BY <1>1, RolesAlways, PTL
=============================================================================
