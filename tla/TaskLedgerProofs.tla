-------------------------- MODULE TaskLedgerProofs --------------------------
(***************************************************************************)
(* What the ledger of a task guarantees for any number of processes and of *)
(* old objects, as long as none of them runs with mode off: the replay     *)
(* yields the counters, every value has its rows, every hold ends.         *)
(***************************************************************************)
EXTENDS TaskLedger, FiniteSetTheorems, TLAPS

Kinds == {"baseline", "hold", "release", "consume", "drift"}
RowSet == [kind : Kinds, claim : Int, after : UNION {[S -> Int] : S \in SUBSET Counters}]
Statuses == {"pending", "active", "review", "blocked"}
Record == [status : Statuses, claim : Int, count : [Counters -> Int], rows : Seq(RowSet)]

\* i is the last row that names counter n.
Latest(rows, n, i) ==
    /\ i \in DOMAIN rows
    /\ n \in DOMAIN rows[i].after
    /\ \A j \in DOMAIN rows : n \in DOMAIN rows[j].after => j <= i

\* A ledger that has begun names every counter, and every counter it names has a last row.
WholeRows(rows) ==
    /\ rows # <<>> => Baselined(rows) = Counters
    /\ \A n \in Baselined(rows) : \E i \in DOMAIN rows : Latest(rows, n, i)

Sound(task) == task \in Record /\ WholeRows(task.rows)

LedgerInv ==
    /\ Sound(disk)
    /\ Drift(disk) = {}
    /\ \A h \in Holders : Sound(object[h])
    /\ mode \in [Users -> {"shadow", "enforce"}]
    /\ DOMAIN object = Holders
    /\ issued \in Int
-----------------------------------------------------------------------------
LEMMA LatestIsUnique ==
    ASSUME NEW rows \in Seq(RowSet), NEW n, NEW i, Latest(rows, n, i)
    PROVE  Replay(rows, n) = rows[i].after[n]
<1> DEFINE P(k) == k \in DOMAIN rows /\ Latest(rows, n, k)
<1>1. \A k \in DOMAIN rows : Latest(rows, n, k) => k = i
  <2>1. DOMAIN rows = 1 .. Len(rows) /\ Len(rows) \in Nat
    OBVIOUS
  <2> QED BY <2>1 DEF Latest
<1>2. i = CHOOSE k \in DOMAIN rows :
             /\ n \in DOMAIN rows[k].after
             /\ \A j \in DOMAIN rows : n \in DOMAIN rows[j].after => j <= k
  BY <1>1 DEF Latest
<1> QED BY <1>2 DEF Replay

LEMMA AppendedRow ==
    ASSUME NEW rows \in Seq(RowSet), NEW row \in RowSet
    PROVE  LET longer == Append(rows, row)
           IN /\ longer \in Seq(RowSet) /\ longer # <<>>
              /\ DOMAIN longer = DOMAIN rows \cup {Len(rows) + 1}
              /\ Len(rows) + 1 \notin DOMAIN rows
              /\ \A k \in DOMAIN rows : longer[k] = rows[k] /\ k < Len(rows) + 1 /\ k \in Int
              /\ longer[Len(rows) + 1] = row
              /\ Len(rows) + 1 \in Int
OBVIOUS

LEMMA AppendBaselines ==
    ASSUME NEW rows \in Seq(RowSet), NEW row \in RowSet
    PROVE  Baselined(Append(rows, row)) = Baselined(rows) \cup DOMAIN row.after
<1> DEFINE longer == Append(rows, row)
<1>1. /\ DOMAIN longer = DOMAIN rows \cup {Len(rows) + 1}
      /\ \A k \in DOMAIN rows : longer[k] = rows[k]
      /\ longer[Len(rows) + 1] = row
  BY AppendedRow
<1> HIDE DEF longer
<1>2. Baselined(longer) = Baselined(rows) \cup DOMAIN row.after
  BY <1>1 DEF Baselined
<1> QED BY <1>2 DEF longer

LEMMA AppendLatest ==
    ASSUME NEW rows \in Seq(RowSet), NEW row \in RowSet, NEW n
    PROVE  /\ n \in DOMAIN row.after => Latest(Append(rows, row), n, Len(rows) + 1)
           /\ \A i \in DOMAIN rows :
                 n \notin DOMAIN row.after /\ Latest(rows, n, i) => Latest(Append(rows, row), n, i)
<1> DEFINE longer == Append(rows, row)
<1>1. /\ DOMAIN longer = DOMAIN rows \cup {Len(rows) + 1}
      /\ \A k \in DOMAIN rows : longer[k] = rows[k] /\ k < Len(rows) + 1 /\ k \in Int
      /\ longer[Len(rows) + 1] = row
      /\ Len(rows) + 1 \in Int
  BY AppendedRow
<1> HIDE DEF longer
<1>2. n \in DOMAIN row.after => Latest(longer, n, Len(rows) + 1)
  BY <1>1 DEF Latest
<1>3. \A i \in DOMAIN rows : n \notin DOMAIN row.after /\ Latest(rows, n, i) => Latest(longer, n, i)
  BY <1>1 DEF Latest
<1> QED BY <1>2, <1>3 DEF longer

\* A row that completes the ledger, or is written to a ledger that is complete, leaves it whole.
LEMMA AppendWhole ==
    ASSUME NEW rows \in Seq(RowSet), NEW row \in RowSet, WholeRows(rows),
           Baselined(rows) \cup DOMAIN row.after = Counters
    PROVE  WholeRows(Append(rows, row))
<1>1. Baselined(Append(rows, row)) = Counters
  BY AppendBaselines
<1>2. ASSUME NEW n \in Counters PROVE \E i \in DOMAIN Append(rows, row) : Latest(Append(rows, row), n, i)
  <2>1. CASE n \in DOMAIN row.after
    BY <2>1, AppendLatest, AppendedRow
  <2>2. CASE n \notin DOMAIN row.after
    <3>1. PICK i \in DOMAIN rows : Latest(rows, n, i)
      BY <2>2 DEF WholeRows
    <3> QED BY <3>1, <2>2, AppendLatest, AppendedRow
  <2> QED BY <2>1, <2>2
<1> QED BY <1>1, <1>2 DEF WholeRows

LEMMA RowIsRow ==
    ASSUME NEW names \in SUBSET Counters, NEW count \in [Counters -> Int], NEW kind \in Kinds, NEW c \in Int
    PROVE  LET row == Row(kind, c, [n \in names |-> count[n]])
           IN /\ row \in RowSet /\ DOMAIN row.after = names
              /\ \A n \in names : row.after[n] = count[n]
<1> DEFINE f == [n \in names |-> count[n]]
<1>1. f \in [names -> Int] /\ DOMAIN f = names /\ \A n \in names : f[n] = count[n]
  OBVIOUS
<1> HIDE DEF f
<1>2. Row(kind, c, f) \in RowSet /\ Row(kind, c, f).after = f
  BY <1>1 DEF Row, RowSet
<1> QED BY <1>1, <1>2 DEF f

LEMMA RegisterSound ==
    ASSUME NEW task, Sound(task), NEW names \in SUBSET Counters, NEW kind \in Kinds, NEW c \in Int,
           task.rows # <<>>
    PROVE  Sound(Register(task, kind, c, names))
<1> DEFINE row == Row(kind, c, [n \in names |-> task.count[n]])
<1>1. task \in Record /\ task.rows \in Seq(RowSet) /\ WholeRows(task.rows) /\ Baselined(task.rows) = Counters
  BY DEF Sound, Record, WholeRows
<1>2. row \in RowSet /\ DOMAIN row.after = names
  BY <1>1, RowIsRow, ZenonT(40) DEF Record
<1> HIDE DEF row
<1>3. Append(task.rows, row) \in Seq(RowSet) /\ WholeRows(Append(task.rows, row))
  BY <1>1, <1>2, AppendWhole, AppendedRow
<1>4. Register(task, kind, c, names) = [task EXCEPT !.rows = Append(task.rows, row)]
  BY DEF Register, row
<1> QED BY <1>1, <1>3, <1>4 DEF Sound, Record

LEMMA DriftIsNamed ==
    ASSUME NEW task, Sound(task)
    PROVE  Drift(task) \subseteq Counters /\ (Drift(task) # {} => task.rows # <<>>)
<1>1. task.rows = <<>> => Baselined(task.rows) = {}
  BY DEF Baselined
<1> QED BY <1>1 DEF Drift, Sound, WholeRows

LEMMA CloseSound ==
    ASSUME NEW task, Sound(task), NEW names \in SUBSET Counters, NEW kind \in Kinds, NEW c \in Int
    PROVE  Sound(Close(task, kind, c, names))
BY DriftIsNamed, RegisterSound DEF Close

\* What is written over every difference leaves none.
LEMMA ClosedHasNoDrift ==
    ASSUME NEW task, Sound(task), NEW kind \in Kinds, NEW c \in Int
    PROVE  Drift(Close(task, kind, c, Counters)) = {}
<1>0. Drift(task) \subseteq Counters /\ (Drift(task) # {} => task.rows # <<>>)
  BY DriftIsNamed
<1>1. CASE Drift(task) = {}
  BY <1>0, <1>1 DEF Close
<1>2. CASE Drift(task) # {}
  <2> DEFINE D == Drift(task)
             row == Row(kind, c, [n \in D |-> task.count[n]])
             rows == task.rows
             longer == Append(rows, row)
             closed == Close(task, kind, c, Counters)
  <2>1. task \in Record /\ rows \in Seq(RowSet) /\ WholeRows(rows) /\ Baselined(rows) = Counters
    BY <1>0, <1>2 DEF Sound, Record, WholeRows
  <2>2. row \in RowSet /\ DOMAIN row.after = D /\ \A n \in D : row.after[n] = task.count[n]
    <3>1. D \in SUBSET Counters /\ task.count \in [Counters -> Int]
      BY <1>0, <2>1 DEF Record
    <3> HIDE DEF D
    <3> QED BY <3>1, RowIsRow
  <2>3. closed.rows = longer /\ closed.count = task.count
    <3>1. D \cap Counters = D
      BY <1>0
    <3>2. closed = [task EXCEPT !.rows = longer]
      BY <1>2, <3>1 DEF Close, Register
    <3> QED BY <3>2, <2>1 DEF Record
  <2>4. \A n \in Counters : Replay(longer, n) = task.count[n]
    <3> TAKE n \in Counters
    <3> HIDE DEF row, D, rows
    <3>0. longer \in Seq(RowSet) /\ longer[Len(rows) + 1] = row /\ \A k \in DOMAIN rows : longer[k] = rows[k]
      BY <2>1, <2>2, AppendedRow
    <3>1. CASE n \in D
      <4>1. Latest(longer, n, Len(rows) + 1)
        BY <2>1, <2>2, <3>1, AppendLatest
      <4> HIDE DEF longer
      <4>2. Replay(longer, n) = longer[Len(rows) + 1].after[n]
        BY <4>1, <3>0, LatestIsUnique
      <4> QED BY <4>2, <3>0, <3>1, <2>2
    <3>2. CASE n \notin D
      <4>1. PICK i \in DOMAIN rows : Latest(rows, n, i)
        BY <2>1 DEF WholeRows
      <4>2. Latest(longer, n, i)
        BY <2>1, <2>2, <3>2, <4>1, AppendLatest
      <4>3. Replay(rows, n) = task.count[n]
        BY <2>1, <3>2 DEF D, Drift, rows
      <4>4. Replay(rows, n) = rows[i].after[n]
        BY <2>1, <4>1, LatestIsUnique
      <4> HIDE DEF longer
      <4>5. Replay(longer, n) = longer[i].after[n]
        BY <3>0, <4>2, LatestIsUnique
      <4> QED BY <3>0, <4>1, <4>3, <4>4, <4>5
    <3> QED BY <3>1, <3>2
  <2>5. Baselined(longer) = Counters
    BY <2>1, <2>2, <1>0, AppendBaselines, ZenonT(40)
  <2> HIDE DEF closed, longer
  <2>6. Drift(closed) = {}
    BY <2>3, <2>4, <2>5 DEF Drift
  <2> QED BY <2>6 DEF closed
<1> QED BY <1>1, <1>2
-----------------------------------------------------------------------------
LEMMA EnsureBaselineSound ==
    ASSUME NEW task, Sound(task), Sound(disk)
    PROVE  Sound(EnsureBaseline(task)) /\ EnsureBaseline(task).rows # <<>>
<1> DEFINE missing == Counters \ Baselined(task.rows)
           row == Row("baseline", 0, [n \in missing |-> disk.count[n]])
<1>1. task \in Record /\ task.rows \in Seq(RowSet) /\ WholeRows(task.rows) /\ disk.count \in [Counters -> Int]
  BY DEF Sound, Record
<1>2. CASE missing = {}
  <2>1. task.rows # <<>>
    BY <1>2 DEF Baselined, Counters
  <2> QED BY <1>2, <2>1 DEF EnsureBaseline
<1>3. CASE missing # {}
  <2>1. Baselined(task.rows) \subseteq Counters
    BY <1>1 DEF WholeRows, Baselined
  <2>2. row \in RowSet /\ DOMAIN row.after = missing
    <3> HIDE DEF missing
    <3>1. missing \in SUBSET Counters
      BY DEF missing
    <3> HIDE DEF row
    <3>2. LET r == Row("baseline", 0, [n \in missing |-> disk.count[n]])
          IN r \in RowSet /\ DOMAIN r.after = missing
      <4>1. "baseline" \in Kinds /\ 0 \in Int
        BY DEF Kinds
      <4> QED BY <1>1, <3>1, <4>1, RowIsRow
    <3> QED BY <3>2 DEF row
  <2>3. EnsureBaseline(task) = [task EXCEPT !.rows = Append(task.rows, row)]
    BY <1>3 DEF EnsureBaseline
  <2> HIDE DEF row
  <2>4. WholeRows(Append(task.rows, row))
    BY <1>1, <2>1, <2>2, AppendWhole
  <2>5. Append(task.rows, row) \in Seq(RowSet) /\ Append(task.rows, row) # <<>>
    BY <1>1, <2>2, AppendedRow
  <2> QED BY <1>1, <2>3, <2>4, <2>5 DEF Sound, Record
<1> QED BY <1>2, <1>3

\* Soundness is about the rows: other fields may change within their types.
LEMMA FieldsSound ==
    ASSUME NEW task, Sound(task)
    PROVE  /\ \A c \in Int : Sound([task EXCEPT !.claim = c])
           /\ \A s \in Statuses : Sound([task EXCEPT !.status = s])
           /\ \A count \in [Counters -> Int] : Sound([task EXCEPT !.count = count])
BY DEF Sound, Record

\* A release row is written only where there is a hold row, so the ledger has begun.
LEMMA ClearLeaseSound ==
    ASSUME NEW task, Sound(task)
    PROVE  Sound(ClearLeaseOf(task))
<1> DEFINE held == task.claim # 0 /\ Cardinality(RowsOf(task, {"release"}, task.claim))
                                        < Cardinality(RowsOf(task, {"hold"}, task.claim))
           released == IF held THEN Register(task, "release", task.claim, {}) ELSE task
<1>1. held => task.rows # <<>>
  <2>1. task.rows = <<>> => \A kinds, c : RowsOf(task, kinds, c) = {}
    BY DEF RowsOf
  <2>2. task.rows = <<>> => \A kinds, c : Cardinality(RowsOf(task, kinds, c)) = 0
    BY <2>1, FS_EmptySet
  <2> QED BY <2>2
<1> HIDE DEF held
<1>2. Sound(released)
  <2>1. task.claim \in Int /\ {} \in SUBSET Counters /\ "release" \in Kinds
    BY DEF Sound, Record, Kinds
  <2>2. held => Sound(Register(task, "release", task.claim, {}))
    BY <1>1, <2>1, RegisterSound
  <2> QED BY <2>2
<1>3. ClearLeaseOf(task) = [released EXCEPT !.claim = 0]
  BY DEF ClearLeaseOf, held
<1> HIDE DEF released
<1> QED BY <1>2, <1>3, FieldsSound

LEMMA TransitionSound ==
    ASSUME NEW task, Sound(task), Sound(disk), NEW s \in Statuses
    PROVE  Sound(Transition(task, s))
<1>1. Sound([task EXCEPT !.status = s])
  BY FieldsSound
<1>2. Sound(EnsureBaseline([task EXCEPT !.status = s]))
  BY <1>1, EnsureBaselineSound
<1>3. Transition(task, s) = Close(EnsureBaseline([task EXCEPT !.status = s]), "consume", 0, {})
  BY DEF Transition, TransitionCounters
<1>4. {} \in SUBSET Counters /\ "consume" \in Kinds /\ 0 \in Int
  BY DEF Kinds
<1> QED BY <1>2, <1>3, <1>4, CloseSound

\* The write port: whatever it lets through reconciles.
LEMMA WriteReconciles ==
    ASSUME LedgerInv, NEW u \in Users, NEW task, Sound(task), PoolWrites(u, task)
    PROVE  Sound(disk') /\ Drift(disk') = {} /\ Sound(Gated(u, task))
<1>1. mode[u] = "shadow" \/ mode[u] = "enforce"
  BY DEF LedgerInv
<1>2. CASE mode[u] = "shadow"
  <2>1. Gated(u, task) = Close(task, "drift", 0, Counters)
    BY <1>2 DEF Gated
  <2>2. disk' = Close(task, "drift", 0, Counters)
    BY <1>2, <2>1 DEF PoolWrites
  <2>3. "drift" \in Kinds /\ 0 \in Int /\ Counters \in SUBSET Counters
    BY DEF Kinds
  <2>4. Sound(Close(task, "drift", 0, Counters)) /\ Drift(Close(task, "drift", 0, Counters)) = {}
    BY <2>3, CloseSound, ClosedHasNoDrift
  <2> QED BY <2>1, <2>2, <2>4
<1>3. CASE mode[u] = "enforce"
  <2>1. Gated(u, task) = task
    BY <1>3 DEF Gated
  <2>2. CASE Drift(task) # {}
    <3>1. disk' = disk /\ Sound(disk) /\ Drift(disk) = {}
      BY <1>3, <2>2 DEF PoolWrites, LedgerInv
    <3> QED BY <2>1, <3>1
  <2>3. CASE Drift(task) = {}
    <3>1. disk' = task
      BY <2>1, <2>3 DEF PoolWrites
    <3> QED BY <2>1, <2>3, <3>1
  <2> QED BY <2>2, <2>3
<1> QED BY <1>1, <1>2, <1>3

LEMMA LedgerInitial ==
    ASSUME "off" \notin Modes, LedgerInit
    PROVE  LedgerInv
<1>1. mode \in [Users -> {"shadow", "enforce"}]
  BY ModesAssumption DEF LedgerInit
<1>2. Sound(Fresh) /\ Drift(Fresh) = {} /\ Fresh.count \in [Counters -> Int]
  <2>1. Fresh \in Record /\ Fresh.rows = <<>>
    BY DEF Fresh, Record, Statuses
  <2>2. Baselined(<<>>) = {}
    BY DEF Baselined
  <2> QED BY <2>1, <2>2 DEF Sound, WholeRows, Drift, Record
<1>3. Sound(disk) /\ Drift(disk) = {}
  <2>1. CASE legacy
    BY <2>1, <1>2 DEF LedgerInit
  <2>2. CASE ~legacy
    <3> DEFINE rows == <<Row("baseline", 0, Fresh.count)>>
    <3>1. Row("baseline", 0, Fresh.count) \in RowSet /\ Row("baseline", 0, Fresh.count).after = Fresh.count
      <4> DEFINE count == Fresh.count
      <4>1. count \in [Counters -> Int]
        BY <1>2
      <4> HIDE DEF count
      <4>2. Row("baseline", 0, count) \in RowSet /\ Row("baseline", 0, count).after = count
        BY <4>1 DEF Row, RowSet, Kinds
      <4> QED BY <4>2 DEF count
    <3>2. disk = [Fresh EXCEPT !.rows = rows]
      BY <2>2 DEF LedgerInit
    <3>3. /\ rows \in Seq(RowSet) /\ rows # <<>> /\ DOMAIN rows = {1} /\ 1 \in Int
          /\ rows[1].after = Fresh.count
      BY <3>1
    <3> HIDE DEF rows
    <3>4. disk \in Record /\ disk.rows = rows /\ disk.count = Fresh.count
      BY <1>2, <3>2, <3>3 DEF Sound, Record
    <3>5. DOMAIN Fresh.count = Counters
      BY <1>2
    <3>6. Baselined(rows) = Counters
      BY <3>3, <3>5 DEF Baselined
    <3>7. \A n \in Counters : Latest(rows, n, 1)
      BY <3>3, <3>5 DEF Latest
    <3>8. \A n \in Counters : Replay(rows, n) = Fresh.count[n]
      BY <3>3, <3>7, LatestIsUnique
    <3> QED BY <3>3, <3>4, <3>6, <3>7, <3>8 DEF Sound, WholeRows, Drift
  <2> QED BY <2>1, <2>2
<1> QED BY <1>1, <1>3 DEF LedgerInit, LedgerInv
-----------------------------------------------------------------------------
LEMMA CountedSound ==
    ASSUME NEW task, Sound(task), NEW n \in Counters
    PROVE  Sound([task EXCEPT !.count[n] = @ + 1])
<1> DEFINE counted == [task.count EXCEPT ![n] = @ + 1]
<1>1. counted \in [Counters -> Int]
  BY DEF Sound, Record
<1>2. [task EXCEPT !.count[n] = @ + 1] = [task EXCEPT !.count = counted]
  BY DEF Sound, Record
<1> QED BY <1>1, <1>2, FieldsSound

LEMMA LeasedSound ==
    ASSUME NEW task, Sound(task), NEW n \in Counters, NEW c \in Int
    PROVE  Sound([task EXCEPT !.claim = c, !.count[n] = @ + 1])
<1> DEFINE counted == [task EXCEPT !.count[n] = @ + 1]
<1>1. [task EXCEPT !.claim = c, !.count[n] = @ + 1] = [counted EXCEPT !.claim = c]
  BY DEF Sound, Record
<1>2. Sound(counted)
  BY CountedSound
<1> HIDE DEF counted
<1> QED BY <1>1, <1>2, FieldsSound

\* A write that leaves the objects alone, and one that leaves its result in the writer's object.
LEMMA PoolStep ==
    ASSUME LedgerInv, NEW u \in Users, NEW task, Sound(task), PoolWrites(u, task),
           UNCHANGED <<object, mode, issued>>
    PROVE  LedgerInv'
<1>1. Sound(disk') /\ Drift(disk') = {}
  BY WriteReconciles
<1> QED BY <1>1 DEF LedgerInv

LEMMA ObjectStep ==
    ASSUME LedgerInv, NEW h \in Users, NEW task, Sound(task), WritesObject(h, task),
           UNCHANGED mode, issued' \in Int
    PROVE  LedgerInv'
<1>1. Sound(disk') /\ Drift(disk') = {} /\ Sound(Gated(h, task))
  BY WriteReconciles DEF WritesObject
<1>2. \A g \in Holders : Sound(object'[g])
  BY <1>1 DEF WritesObject, LedgerInv
<1>3. DOMAIN object' = Holders
  BY DEF WritesObject
<1> QED BY <1>1, <1>2, <1>3 DEF LedgerInv

LEMMA LedgerInductive == LedgerInv /\ [LedgerNext]_ledgerVars => LedgerInv'
<1> SUFFICES ASSUME LedgerInv, [LedgerNext]_ledgerVars PROVE LedgerInv'
  OBVIOUS
<1>0. Sound(disk) /\ \A h \in Holders : Sound(object[h])
  BY DEF LedgerInv
<1>a. \A s \in {"active", "pending", "review", "blocked"} : s \in Statuses
  BY DEF Statuses
<1>b. \A n \in {"fencing_token", "retry_count", "caller"} : n \in Counters
  BY DEF Counters
<1>c. \A k \in {"hold", "consume"} : k \in Kinds
  BY DEF Kinds
<1>d. Sound(EnsureBaseline(disk)) /\ Sound(ClearLeaseOf(disk))
  BY <1>0, EnsureBaselineSound, ClearLeaseSound
<1>1. CASE Lapse
  BY <1>1 DEF Lapse, LedgerInv
<1>2. ASSUME NEW u \in Users, TakeClaim(u) PROVE LedgerInv'
  <2> DEFINE opened == EnsureBaseline(disk)
             leased == [opened EXCEPT !.claim = issued + 1, !.count["fencing_token"] = @ + 1]
             closed == Close(leased, "hold", issued + 1, Counters)
  <2>1. WritesObject(u, Transition(closed, "active")) /\ mode' = mode /\ issued' = issued + 1
    BY <1>2 DEF TakeClaim
  <2>2. issued + 1 \in Int
    BY DEF LedgerInv
  <2>3. Sound(leased)
    BY <1>d, <1>b, <2>2, LeasedSound
  <2> HIDE DEF leased
  <2>4. Sound(closed)
    BY <2>2, <2>3, <1>c, CloseSound
  <2> HIDE DEF closed
  <2>5. Sound(Transition(closed, "active"))
    BY <2>4, <1>0, <1>a, TransitionSound
  <2> QED BY <2>1, <2>2, <2>5, ObjectStep
<1>3. ASSUME NEW u \in Users, BlockIt(u) PROVE LedgerInv'
  <2>1. Sound(Transition(ClearLeaseOf(disk), "blocked"))
    BY <1>0, <1>a, <1>d, TransitionSound
  <2> QED BY <1>3, <2>1, PoolStep DEF BlockIt
<1>4. ASSUME NEW u \in Users, UnblockIt(u) PROVE LedgerInv'
  <2>1. Sound(Transition(disk, "pending"))
    BY <1>0, <1>a, TransitionSound
  <2> QED BY <1>4, <2>1, PoolStep DEF UnblockIt
<1>5. ASSUME NEW u \in Users, ReclaimIt(u) PROVE LedgerInv'
  <2>1. Sound(Transition(ClearLeaseOf(disk), "pending"))
    BY <1>0, <1>a, <1>d, TransitionSound
  <2> QED BY <1>5, <2>1, PoolStep DEF ReclaimIt
<1>6. ASSUME NEW u \in Users, NEW s \in {"pending", "blocked"}, RecordFailure(u, s) PROVE LedgerInv'
  <2> DEFINE opened == EnsureBaseline(disk)
             counted == [opened EXCEPT !.count["retry_count"] = @ + 1]
             failed == ClearLeaseOf(counted)
             closed == Close(failed, "consume", 0, Counters)
  <2>1. PoolWrites(u, Transition(closed, s)) /\ UNCHANGED <<object, mode, issued>>
    BY <1>6 DEF RecordFailure
  <2>2. Sound(counted)
    BY <1>d, <1>b, CountedSound
  <2> HIDE DEF counted
  <2>3. Sound(failed)
    BY <2>2, ClearLeaseSound
  <2> HIDE DEF failed
  <2>4. Sound(closed)
    BY <2>3, <1>c, CloseSound
  <2> HIDE DEF closed
  <2>5. Sound(Transition(closed, s))
    BY <2>4, <1>0, <1>a, TransitionSound
  <2> QED BY <2>1, <2>5, PoolStep
<1>7. ASSUME NEW h \in Holders, Load(h) PROVE LedgerInv'
  BY <1>0, <1>7 DEF Load, LedgerInv
<1>8. ASSUME NEW h \in Holders, BumpCounter(h) PROVE LedgerInv'
  <2>1. Sound([object[h] EXCEPT !.count["caller"] = @ + 1])
    BY <1>0, <1>b, CountedSound
  <2>2. object' = [object EXCEPT ![h] = [object[h] EXCEPT !.count["caller"] = @ + 1]]
    BY <1>8 DEF BumpCounter
  <2>3. \A g \in Holders : Sound(object'[g])
    BY <1>0, <2>1, <2>2 DEF LedgerInv
  <2>4. UNCHANGED <<disk, mode, issued>>
    BY <1>8 DEF BumpCounter
  <2> QED BY <2>2, <2>3, <2>4 DEF LedgerInv
<1>9. ASSUME NEW h \in Holders, WriteBack(h) PROVE LedgerInv'
  <2>1. object[h].status \in Statuses
    BY <1>0 DEF Sound, Record
  <2>2. Sound(Transition(object[h], object[h].status))
    BY <1>0, <2>1, TransitionSound
  <2>3. h \in Users /\ UNCHANGED mode /\ issued' \in Int
    BY <1>9, HoldersAssumption DEF WriteBack, LedgerInv
  <2> QED BY <1>9, <2>2, <2>3, ObjectStep DEF WriteBack
<1>10. ASSUME NEW h \in Holders, NEW s \in {"pending", "review"}, MoveIt(h, s) PROVE LedgerInv'
  <2>1. Sound(Transition(ClearLeaseOf(object[h]), s))
    BY <1>0, <1>a, ClearLeaseSound, TransitionSound
  <2>2. h \in Users /\ UNCHANGED mode /\ issued' \in Int
    BY <1>10, HoldersAssumption DEF MoveIt, LedgerInv
  <2> QED BY <1>10, <2>1, <2>2, ObjectStep DEF MoveIt
<1>11. CASE UNCHANGED ledgerVars
  BY <1>11 DEF ledgerVars, LedgerInv
<1> QED BY <1>1, <1>2, <1>3, <1>4, <1>5, <1>6, <1>7, <1>8, <1>9, <1>10, <1>11 DEF LedgerNext

\* Whoever writes whichever old object, under shadow or enforce, the counters on disk are what a
\* replay of the rows on disk yields (rule 3 of core/task_ledger.py, write_port_gate).
THEOREM LedgerAlwaysReconciles ==
    ASSUME "off" \notin Modes
    PROVE  LedgerSpec => []LedgerReconciles
<1>1. LedgerInit => LedgerInv
  BY LedgerInitial
<1>2. LedgerInv /\ [LedgerNext]_ledgerVars => LedgerInv'
  BY LedgerInductive
<1>3. LedgerInv => LedgerReconciles
  BY DEF LedgerInv, LedgerReconciles, Sound, WholeRows
<1> QED BY <1>1, <1>2, <1>3, PTL DEF LedgerSpec

-----------------------------------------------------------------------------
(* Every counter has its rows. *)

KindRows(rows, k) == {i \in DOMAIN rows : rows[i].kind = k}

\* The fencing token is h ahead of the hold rows, the retries are c ahead of the consume rows.
Owes(task, h, c) ==
    /\ task.rows # <<>>
    /\ task.count["fencing_token"] = Cardinality(KindRows(task.rows, "hold")) + h
    /\ task.count["retry_count"] = Cardinality(KindRows(task.rows, "consume")) + c

ExplainedInv ==
    /\ LedgerInv
    /\ ~legacy => Owes(disk, 0, 0) /\ \A h \in Holders : Owes(object[h], 0, 0)

LEMMA FiniteRows ==
    ASSUME NEW rows \in Seq(RowSet)
    PROVE  \A S \in SUBSET (DOMAIN rows) : IsFiniteSet(S) /\ Cardinality(S) \in Nat
<1>1. DOMAIN rows = 1 .. Len(rows) /\ Len(rows) \in Nat
  OBVIOUS
<1>2. IsFiniteSet(DOMAIN rows)
  BY <1>1, FS_Interval
<1> QED BY <1>2, FS_Subset, FS_CardinalityType

LEMMA AppendKinds ==
    ASSUME NEW rows \in Seq(RowSet), NEW row \in RowSet, NEW k
    PROVE  /\ Cardinality(KindRows(rows, k)) \in Nat
           /\ row.kind = k => Cardinality(KindRows(Append(rows, row), k)) = Cardinality(KindRows(rows, k)) + 1
           /\ row.kind # k => Cardinality(KindRows(Append(rows, row), k)) = Cardinality(KindRows(rows, k))
<1> DEFINE longer == Append(rows, row)
           before == KindRows(rows, k)
           after == KindRows(longer, k)
<1>1. /\ DOMAIN longer = DOMAIN rows \cup {Len(rows) + 1} /\ Len(rows) + 1 \notin DOMAIN rows
      /\ \A i \in DOMAIN rows : longer[i] = rows[i]
      /\ longer[Len(rows) + 1] = row
  BY AppendedRow
<1>2. IsFiniteSet(before) /\ Cardinality(before) \in Nat /\ Len(rows) + 1 \notin before
  BY <1>1, FiniteRows DEF KindRows
<1> HIDE DEF longer
<1>3. row.kind = k => after = before \cup {Len(rows) + 1}
  BY <1>1 DEF KindRows
<1>4. row.kind # k => after = before
  BY <1>1 DEF KindRows
<1> HIDE DEF before, after
<1>5. row.kind = k => Cardinality(after) = Cardinality(before) + 1
  BY <1>2, <1>3, FS_AddElement
<1> QED BY <1>2, <1>4, <1>5 DEF before, after, longer

\* What a registered row is.
LEMMA Registered ==
    ASSUME NEW task, Sound(task), NEW names \in SUBSET Counters, NEW kind \in Kinds, NEW c \in Int
    PROVE  \E row \in RowSet :
              /\ row.kind = kind /\ row.claim = c /\ DOMAIN row.after = names
              /\ Register(task, kind, c, names).rows = Append(task.rows, row)
              /\ Register(task, kind, c, names).count = task.count
              /\ Register(task, kind, c, names).claim = task.claim
<1> DEFINE after == [n \in names |-> task.count[n]]
           row == Row(kind, c, after)
<1>1. task \in Record /\ task.count \in [Counters -> Int]
  BY DEF Sound, Record
<1>2. row \in RowSet /\ DOMAIN row.after = names
  BY <1>1, RowIsRow
<1>3. row.kind = kind /\ row.claim = c
  BY DEF Row
<1> HIDE DEF row
<1>4. Register(task, kind, c, names) = [task EXCEPT !.rows = Append(task.rows, row)]
  BY DEF Register, row
<1> QED BY <1>1, <1>2, <1>3, <1>4 DEF Record

LEMMA RegisterOwes ==
    ASSUME NEW task, Sound(task), NEW names \in SUBSET Counters, NEW kind \in Kinds, NEW c \in Int,
           NEW h \in Int, NEW k \in Int, Owes(task, h, k)
    PROVE  Owes(Register(task, kind, c, names), IF kind = "hold" THEN h - 1 ELSE h,
                IF kind = "consume" THEN k - 1 ELSE k)
<1>1. PICK row \in RowSet :
         /\ row.kind = kind /\ row.claim = c /\ DOMAIN row.after = names
         /\ Register(task, kind, c, names).rows = Append(task.rows, row)
         /\ Register(task, kind, c, names).count = task.count
         /\ Register(task, kind, c, names).claim = task.claim
  BY ONLY Registered, Sound(task), names \in SUBSET Counters, kind \in Kinds, c \in Int
<1>2. task.rows \in Seq(RowSet)
  BY DEF Sound, Record
<1>3. Append(task.rows, row) # <<>>
  BY <1>2, AppendedRow
<1> DEFINE before(x) == Cardinality(KindRows(task.rows, x))
           after(x) == Cardinality(KindRows(Append(task.rows, row), x))
<1>4. ASSUME NEW x
      PROVE  before(x) \in Nat /\ (kind = x => after(x) = before(x) + 1) /\ (kind # x => after(x) = before(x))
  BY <1>1, <1>2, AppendKinds
<1>5. /\ before("hold") \in Nat /\ before("consume") \in Nat
      /\ after("hold") = IF kind = "hold" THEN before("hold") + 1 ELSE before("hold")
      /\ after("consume") = IF kind = "consume" THEN before("consume") + 1 ELSE before("consume")
  BY <1>4
<1>6. /\ task.count["fencing_token"] = before("hold") + h /\ task.count["retry_count"] = before("consume") + k
  BY DEF Owes
<1> HIDE DEF before, after
<1>7. /\ task.count["fencing_token"] = after("hold") + (IF kind = "hold" THEN h - 1 ELSE h)
      /\ task.count["retry_count"] = after("consume") + (IF kind = "consume" THEN k - 1 ELSE k)
  BY <1>5, <1>6
<1> QED BY <1>1, <1>3, <1>7 DEF Owes, after

\* A record whose ledger has begun: a transition writes no row.
LEMMA TransitionIsPlain ==
    ASSUME NEW task, Sound(task), task.rows # <<>>, NEW s
    PROVE  Transition(task, s) = [task EXCEPT !.status = s]
<1> DEFINE moved == [task EXCEPT !.status = s]
<1>1. moved.rows = task.rows /\ Baselined(task.rows) = Counters
  BY DEF Sound, Record, WholeRows
<1>2. EnsureBaseline(moved) = moved
  BY <1>1 DEF EnsureBaseline
<1> HIDE DEF moved
<1>3. Transition(task, s) = Close(moved, "consume", 0, {})
  BY <1>2 DEF Transition, TransitionCounters, moved
<1>4. Close(moved, "consume", 0, {}) = moved
  BY DEF Close
<1> QED BY <1>3, <1>4 DEF moved

LEMMA BegunLedger ==
    ASSUME NEW task, Sound(task), task.rows # <<>>
    PROVE  EnsureBaseline(task) = task
BY DEF EnsureBaseline, Sound, WholeRows

LEMMA CloseIsRegister ==
    ASSUME NEW task, Sound(task), NEW kind, NEW c, NEW names
    PROVE  /\ Drift(task) \cap names \in SUBSET Counters
           /\ Drift(task) \cap names = {} => Close(task, kind, c, names) = task
           /\ Drift(task) \cap names # {} =>
                 Close(task, kind, c, names) = Register(task, kind, c, Drift(task) \cap names)
BY DriftIsNamed DEF Close

\* Rows of other kinds explain nothing and need no explanation.
LEMMA RegisterKeepsOwes ==
    ASSUME NEW task, Sound(task), NEW names \in SUBSET Counters, NEW kind \in Kinds \ {"hold", "consume"},
           NEW c \in Int, NEW h \in Int, NEW k \in Int, Owes(task, h, k)
    PROVE  Owes(Register(task, kind, c, names), h, k)
<1>1. kind \in Kinds /\ kind # "hold" /\ kind # "consume"
  OBVIOUS
<1>2. Owes(Register(task, kind, c, names), IF kind = "hold" THEN h - 1 ELSE h, IF kind = "consume" THEN k - 1 ELSE k)
  BY <1>1, RegisterOwes
<1> QED BY <1>1, <1>2

LEMMA CloseKeepsOwes ==
    ASSUME NEW task, Sound(task), NEW names, NEW kind \in Kinds \ {"hold", "consume"},
           NEW c \in Int, NEW h \in Int, NEW k \in Int, Owes(task, h, k)
    PROVE  Owes(Close(task, kind, c, names), h, k)
<1>1. CASE Drift(task) \cap names = {}
  BY <1>1, Zenon DEF Close
<1>2. CASE Drift(task) \cap names # {}
  <2>1. PICK some : some = Drift(task) \cap names
    OBVIOUS
  <2>2. some \in SUBSET Counters
    BY <2>1, DriftIsNamed
  <2>3. Close(task, kind, c, names) = Register(task, kind, c, some)
    BY <1>2, <2>1, Zenon DEF Close
  <2> QED BY <2>2, <2>3, RegisterKeepsOwes
<1> QED BY <1>1, <1>2

\* The row of a hold or of a failure pays for one value.
LEMMA HoldPaid ==
    ASSUME NEW task, Sound(task), NEW c \in Int, Owes(task, 1, 0), Drift(task) # {}
    PROVE  Owes(Close(task, "hold", c, Counters), 0, 0)
<1> DEFINE names == Drift(task) \cap Counters
<1>1. names \in SUBSET Counters /\ Close(task, "hold", c, Counters) = Register(task, "hold", c, names)
  BY CloseIsRegister, DriftIsNamed
<1>2. "hold" \in Kinds /\ "hold" # "consume" /\ 1 \in Int
  BY DEF Kinds
<1> HIDE DEF names
<1>3. Owes(Register(task, "hold", c, names), 1 - 1, 0)
  <2>1. Owes(Register(task, "hold", c, names), IF "hold" = "hold" THEN 1 - 1 ELSE 1, IF "hold" = "consume" THEN 0 - 1 ELSE 0)
    BY <1>1, <1>2, RegisterOwes
  <2> QED BY <1>2, <2>1
<1>4. 1 - 1 = 0
  OBVIOUS
<1> QED BY <1>1, <1>3, <1>4

LEMMA FailurePaid ==
    ASSUME NEW task, Sound(task), NEW c \in Int, Owes(task, 0, 1), Drift(task) # {}
    PROVE  Owes(Close(task, "consume", c, Counters), 0, 0)
<1> DEFINE names == Drift(task) \cap Counters
<1>1. names \in SUBSET Counters /\ Close(task, "consume", c, Counters) = Register(task, "consume", c, names)
  BY CloseIsRegister, DriftIsNamed
<1>2. "consume" \in Kinds /\ "hold" # "consume" /\ 1 \in Int
  BY DEF Kinds
<1> HIDE DEF names
<1>3. Owes(Register(task, "consume", c, names), 0, 1 - 1)
  <2>1. Owes(Register(task, "consume", c, names), IF "consume" = "hold" THEN 0 - 1 ELSE 0,
             IF "consume" = "consume" THEN 1 - 1 ELSE 1)
    BY <1>1, <1>2, RegisterOwes
  <2> QED BY <1>2, <2>1
<1>4. 1 - 1 = 0
  OBVIOUS
<1> QED BY <1>1, <1>3, <1>4

LEMMA FieldsOwe ==
    ASSUME NEW task, Sound(task), NEW h, NEW k, Owes(task, h, k)
    PROVE  /\ \A c : Owes([task EXCEPT !.claim = c], h, k)
           /\ \A s : Owes([task EXCEPT !.status = s], h, k)
<1>1. task \in Record
  BY DEF Sound
<1>2. \A c : [task EXCEPT !.claim = c].rows = task.rows /\ [task EXCEPT !.claim = c].count = task.count
  BY <1>1 DEF Record
<1>3. \A s : [task EXCEPT !.status = s].rows = task.rows /\ [task EXCEPT !.status = s].count = task.count
  BY <1>1 DEF Record
<1> QED BY <1>2, <1>3 DEF Owes

LEMMA ClearLeaseOwes ==
    ASSUME NEW task, Sound(task), NEW h \in Int, NEW k \in Int, Owes(task, h, k)
    PROVE  Owes(ClearLeaseOf(task), h, k)
<1> DEFINE held == task.claim # 0 /\ Cardinality(RowsOf(task, {"release"}, task.claim))
                                        < Cardinality(RowsOf(task, {"hold"}, task.claim))
           released == IF held THEN Register(task, "release", task.claim, {}) ELSE task
<1>1. task.claim \in Int /\ {} \in SUBSET Counters /\ "release" \in Kinds \ {"hold", "consume"} /\ task.rows # <<>>
  BY DEF Sound, Record, Kinds, Owes
<1>2. Sound(Register(task, "release", task.claim, {}))
  BY <1>1, RegisterSound
<1>3. Owes(Register(task, "release", task.claim, {}), h, k)
  BY <1>1, RegisterKeepsOwes
<1>4. ClearLeaseOf(task) = [released EXCEPT !.claim = 0]
  BY DEF ClearLeaseOf
<1>5. Sound(released) /\ Owes(released, h, k)
  BY <1>2, <1>3
<1> HIDE DEF released
<1> QED BY <1>4, <1>5, FieldsOwe

\* A row that names no counter changes nothing in the replay, so a drift stays one.
LEMMA SilentRow ==
    ASSUME NEW rows \in Seq(RowSet), NEW row \in RowSet, DOMAIN row.after = {}, WholeRows(rows),
           NEW n \in Baselined(rows)
    PROVE  n \in Baselined(Append(rows, row)) /\ Replay(Append(rows, row), n) = Replay(rows, n)
<1> DEFINE longer == Append(rows, row)
<1>1. PICK i \in DOMAIN rows : Latest(rows, n, i)
  BY DEF WholeRows
<1>2. Latest(longer, n, i)
  BY <1>1, AppendLatest
<1>3. longer \in Seq(RowSet) /\ longer[i] = rows[i]
  BY <1>1, AppendedRow
<1>4. n \in Baselined(longer)
  BY AppendBaselines
<1> HIDE DEF longer
<1>5. Replay(rows, n) = rows[i].after[n] /\ Replay(longer, n) = longer[i].after[n]
  BY <1>1, <1>2, <1>3, LatestIsUnique
<1> QED BY <1>3, <1>4, <1>5 DEF longer

LEMMA ClearLeaseDrift ==
    ASSUME NEW task, Sound(task), Drift(task) # {}
    PROVE  Drift(ClearLeaseOf(task)) # {}
<1>1. PICK n : n \in Drift(task)
  OBVIOUS
<1> DEFINE held == task.claim # 0 /\ Cardinality(RowsOf(task, {"release"}, task.claim))
                                        < Cardinality(RowsOf(task, {"hold"}, task.claim))
           registered == Register(task, "release", task.claim, {})
           released == IF held THEN registered ELSE task
<1>2. /\ task \in Record /\ task.rows \in Seq(RowSet) /\ WholeRows(task.rows)
      /\ n \in Baselined(task.rows) /\ task.count[n] # Replay(task.rows, n)
  BY <1>1 DEF Sound, Record, Drift
<1>3. task.claim \in Int /\ {} \in SUBSET Counters /\ "release" \in Kinds /\ task.rows # <<>>
  BY <1>1, DriftIsNamed DEF Sound, Record, Kinds
<1>4. Sound(registered)
  BY <1>3, RegisterSound
<1>5. n \in Drift(registered)
  <2>1. PICK row \in RowSet :
           /\ row.kind = "release" /\ row.claim = task.claim /\ DOMAIN row.after = {}
           /\ registered.rows = Append(task.rows, row)
           /\ registered.count = task.count
           /\ registered.claim = task.claim
    BY <1>3, Registered
  <2>2. n \in Baselined(registered.rows) /\ Replay(registered.rows, n) = Replay(task.rows, n)
    BY <1>2, <2>1, SilentRow
  <2> QED BY <1>2, <2>1, <2>2 DEF Drift
<1>6. Sound(released) /\ n \in Drift(released)
  BY <1>1, <1>4, <1>5
<1>7. ClearLeaseOf(task) = [released EXCEPT !.claim = 0]
  BY DEF ClearLeaseOf
<1> HIDE DEF released
<1>8. ClearLeaseOf(task).rows = released.rows /\ ClearLeaseOf(task).count = released.count
  BY <1>6, <1>7 DEF Sound, Record
<1> QED BY <1>6, <1>8 DEF Drift

LEMMA GatedOwes ==
    ASSUME LedgerInv, NEW u \in Users, NEW task, Sound(task), Owes(task, 0, 0)
    PROVE  Owes(Gated(u, task), 0, 0)
<1>1. "drift" \in Kinds \ {"hold", "consume"} /\ 0 \in Int
  BY DEF Kinds
<1>2. Owes(Close(task, "drift", 0, Counters), 0, 0)
  BY <1>1, CloseKeepsOwes
<1> QED BY <1>2 DEF Gated

LEMMA WriteOwes ==
    ASSUME LedgerInv, NEW u \in Users, NEW task, Sound(task), Owes(task, 0, 0), Owes(disk, 0, 0), PoolWrites(u, task)
    PROVE  Owes(disk', 0, 0) /\ Owes(Gated(u, task), 0, 0)
BY GatedOwes DEF PoolWrites

LEMMA PoolStepOwes ==
    ASSUME LedgerInv, NEW u \in Users, NEW task, Sound(task), Owes(task, 0, 0), PoolWrites(u, task), UNCHANGED object,
           Owes(disk, 0, 0), \A h \in Holders : Owes(object[h], 0, 0)
    PROVE  Owes(disk', 0, 0) /\ \A h \in Holders : Owes(object'[h], 0, 0)
BY WriteOwes

LEMMA ObjectStepOwes ==
    ASSUME LedgerInv, NEW u \in Users, NEW task, Sound(task), Owes(task, 0, 0), WritesObject(u, task),
           Owes(disk, 0, 0), \A h \in Holders : Owes(object[h], 0, 0)
    PROVE  Owes(disk', 0, 0) /\ \A h \in Holders : Owes(object'[h], 0, 0)
<1>1. Owes(disk', 0, 0) /\ Owes(Gated(u, task), 0, 0)
  BY WriteOwes DEF WritesObject
<1> QED BY <1>1 DEF WritesObject

\* A transition under a new status, of a record whose values have their rows.
LEMMA TransitionOwes ==
    ASSUME NEW task, Sound(task), Owes(task, 0, 0), NEW s
    PROVE  Owes(Transition(task, s), 0, 0)
<1>1. Transition(task, s) = [task EXCEPT !.status = s]
  BY TransitionIsPlain DEF Owes
<1>2. Owes([task EXCEPT !.status = s], 0, 0)
  BY FieldsOwe
<1> QED BY ONLY <1>1, <1>2, Zenon

LEMMA ExplainedInitial ==
    ASSUME "off" \notin Modes, LedgerInit
    PROVE  ExplainedInv
<1>1. LedgerInv
  BY LedgerInitial
<1>2. ASSUME ~legacy PROVE Owes(disk, 0, 0)
  <2> DEFINE row == Row("baseline", 0, Fresh.count)
             rows == <<row>>
  <2>1. disk = [Fresh EXCEPT !.rows = rows]
    BY <1>2 DEF LedgerInit
  <2>2. row.kind = "baseline"
    BY DEF Row
  <2> HIDE DEF row
  <2>3. disk.rows = rows /\ disk.count = Fresh.count
    BY <2>1 DEF Fresh
  <2>4. Fresh.count["fencing_token"] = 0 /\ Fresh.count["retry_count"] = 0
    BY DEF Fresh, Counters
  <2>5. rows # <<>> /\ KindRows(rows, "hold") = {} /\ KindRows(rows, "consume") = {}
    BY <2>2 DEF KindRows
  <2> HIDE DEF rows
  <2>6. Cardinality(KindRows(rows, "hold")) = 0 /\ Cardinality(KindRows(rows, "consume")) = 0
    BY <2>5, FS_EmptySet
  <2> QED BY <2>3, <2>4, <2>5, <2>6 DEF Owes
<1>3. \A h \in Holders : object[h] = disk
  BY DEF LedgerInit
<1> QED BY <1>1, <1>2, <1>3 DEF ExplainedInv

LEMMA ClaimOwes ==
    ASSUME LedgerInv, Owes(disk, 0, 0)
    PROVE  LET leased == [EnsureBaseline(disk) EXCEPT !.claim = issued + 1, !.count["fencing_token"] = @ + 1]
           IN Owes(Close(leased, "hold", issued + 1, Counters), 0, 0)
<1> DEFINE leased == [disk EXCEPT !.claim = issued + 1, !.count["fencing_token"] = @ + 1]
<1>1. /\ Sound(disk) /\ disk \in Record /\ disk.rows # <<>> /\ Baselined(disk.rows) = Counters /\ Drift(disk) = {}
      /\ disk.count \in [Counters -> Int] /\ issued + 1 \in Int
  BY DEF LedgerInv, Sound, Record, WholeRows, Owes
<1>2. EnsureBaseline(disk) = disk
  BY <1>1, BegunLedger
<1>3. "fencing_token" \in Counters /\ "retry_count" \in Counters
  BY DEF Counters
<1>4. Sound(leased)
  BY <1>1, <1>3, LeasedSound
<1>5. /\ leased.rows = disk.rows /\ leased.count["fencing_token"] = disk.count["fencing_token"] + 1
      /\ leased.count["retry_count"] = disk.count["retry_count"]
  BY <1>1, <1>3 DEF Record
<1> HIDE DEF leased
<1>6. Owes(leased, 1, 0)
  <2>1. disk.rows \in Seq(RowSet)
    BY <1>1 DEF Record
  <2>2. Cardinality(KindRows(disk.rows, "hold")) \in Nat /\ Cardinality(KindRows(disk.rows, "consume")) \in Nat
    BY <2>1, FiniteRows DEF KindRows
  <2> QED BY <1>1, <1>5, <2>2 DEF Owes
<1>7. "fencing_token" \in Drift(leased)
  <2>1. disk.count["fencing_token"] = Replay(disk.rows, "fencing_token") /\ disk.count["fencing_token"] \in Int
    BY <1>1, <1>3 DEF Drift
  <2> QED BY <1>1, <1>3, <1>5, <2>1 DEF Drift
<1>8. Owes(Close(leased, "hold", issued + 1, Counters), 0, 0)
  BY <1>1, <1>4, <1>6, <1>7, HoldPaid
<1> QED BY <1>2, <1>8 DEF leased

LEMMA FailureOwes ==
    ASSUME LedgerInv, Owes(disk, 0, 0)
    PROVE  LET failed == ClearLeaseOf([EnsureBaseline(disk) EXCEPT !.count["retry_count"] = @ + 1])
           IN Owes(Close(failed, "consume", 0, Counters), 0, 0)
<1> DEFINE counted == [disk EXCEPT !.count["retry_count"] = @ + 1]
<1>1. /\ Sound(disk) /\ disk \in Record /\ disk.rows # <<>> /\ Baselined(disk.rows) = Counters /\ Drift(disk) = {}
      /\ disk.count \in [Counters -> Int]
  BY DEF LedgerInv, Sound, Record, WholeRows, Owes
<1>2. EnsureBaseline(disk) = disk
  BY <1>1, BegunLedger
<1>3. "fencing_token" \in Counters /\ "retry_count" \in Counters
  BY DEF Counters
<1>4. Sound(counted)
  BY <1>1, <1>3, CountedSound
<1>5. /\ counted.rows = disk.rows /\ counted.count["retry_count"] = disk.count["retry_count"] + 1
      /\ counted.count["fencing_token"] = disk.count["fencing_token"]
  BY <1>1, <1>3 DEF Record
<1> HIDE DEF counted
<1>6. Owes(counted, 0, 1)
  <2>1. disk.rows \in Seq(RowSet)
    BY <1>1 DEF Record
  <2>2. Cardinality(KindRows(disk.rows, "hold")) \in Nat /\ Cardinality(KindRows(disk.rows, "consume")) \in Nat
    BY <2>1, FiniteRows DEF KindRows
  <2> QED BY <1>1, <1>5, <2>2 DEF Owes
<1>7. "retry_count" \in Drift(counted)
  <2>1. disk.count["retry_count"] = Replay(disk.rows, "retry_count") /\ disk.count["retry_count"] \in Int
    BY <1>1, <1>3 DEF Drift
  <2> QED BY <1>1, <1>3, <1>5, <2>1 DEF Drift
<1>8. Sound(ClearLeaseOf(counted)) /\ Owes(ClearLeaseOf(counted), 0, 1) /\ Drift(ClearLeaseOf(counted)) # {}
  <2>1. 0 \in Int /\ 1 \in Int
    OBVIOUS
  <2> QED BY <1>4, <1>6, <1>7, <2>1, ClearLeaseSound, ClearLeaseOwes, ClearLeaseDrift
<1>9. Owes(Close(ClearLeaseOf(counted), "consume", 0, Counters), 0, 0)
  <2>1. 0 \in Int
    OBVIOUS
  <2> QED BY <1>8, <2>1, FailurePaid
<1> QED BY <1>2, <1>9 DEF counted

\* The records that claim_task and fail_task close before they move the task.
LEMMA ClaimedSound ==
    ASSUME LedgerInv
    PROVE  LET leased == [EnsureBaseline(disk) EXCEPT !.claim = issued + 1, !.count["fencing_token"] = @ + 1]
           IN Sound(Close(leased, "hold", issued + 1, Counters))
<1> DEFINE leased == [EnsureBaseline(disk) EXCEPT !.claim = issued + 1, !.count["fencing_token"] = @ + 1]
<1>1. Sound(EnsureBaseline(disk)) /\ issued + 1 \in Int /\ "fencing_token" \in Counters /\ "hold" \in Kinds
  BY EnsureBaselineSound DEF LedgerInv, Counters, Kinds
<1>2. Sound(leased)
  BY <1>1, LeasedSound
<1> HIDE DEF leased
<1>3. Sound(Close(leased, "hold", issued + 1, Counters))
  BY <1>1, <1>2, CloseSound
<1> QED BY <1>3 DEF leased

LEMMA FailedSound ==
    ASSUME LedgerInv
    PROVE  LET failed == ClearLeaseOf([EnsureBaseline(disk) EXCEPT !.count["retry_count"] = @ + 1])
           IN Sound(Close(failed, "consume", 0, Counters))
<1> DEFINE counted == [EnsureBaseline(disk) EXCEPT !.count["retry_count"] = @ + 1]
<1>1. Sound(EnsureBaseline(disk)) /\ "retry_count" \in Counters /\ "consume" \in Kinds /\ 0 \in Int
  BY EnsureBaselineSound DEF LedgerInv, Counters, Kinds
<1>2. Sound(counted)
  BY <1>1, CountedSound
<1> HIDE DEF counted
<1>3. Sound(ClearLeaseOf(counted))
  BY <1>2, ClearLeaseSound
<1>4. Sound(Close(ClearLeaseOf(counted), "consume", 0, Counters))
  BY <1>1, <1>3, CloseSound
<1> QED BY <1>4 DEF counted

LEMMA ExplainedInductive == ExplainedInv /\ [LedgerNext]_ledgerVars => ExplainedInv'
<1> SUFFICES ASSUME ExplainedInv, [LedgerNext]_ledgerVars PROVE ExplainedInv'
  OBVIOUS
<1>1. LedgerInv /\ LedgerInv' /\ Sound(disk) /\ \A h \in Holders : Sound(object[h]) /\ object[h].status \in Statuses
  BY LedgerInductive DEF ExplainedInv, LedgerInv, Sound, Record
<1>2. legacy' = legacy
  BY DEF LedgerNext, ledgerVars, Lapse, TakeClaim, BlockIt, UnblockIt, ReclaimIt, RecordFailure, Load, BumpCounter,
         WriteBack, MoveIt
<1> SUFFICES ASSUME ~legacy, Owes(disk, 0, 0), \A h \in Holders : Owes(object[h], 0, 0)
             PROVE  Owes(disk', 0, 0) /\ \A h \in Holders : Owes(object'[h], 0, 0)
  BY <1>1, <1>2 DEF ExplainedInv
<1>3. \A s \in {"active", "pending", "review", "blocked"} : s \in Statuses
  BY DEF Statuses
<1>4. Sound(ClearLeaseOf(disk)) /\ Owes(ClearLeaseOf(disk), 0, 0)
  <2>1. 0 \in Int
    OBVIOUS
  <2> QED BY <1>1, <2>1, ClearLeaseSound, ClearLeaseOwes
<1>5. CASE Lapse
  BY <1>5 DEF Lapse
<1>6. ASSUME NEW u \in Users, TakeClaim(u)
      PROVE  Owes(disk', 0, 0) /\ \A h \in Holders : Owes(object'[h], 0, 0)
  <2> DEFINE leased == [EnsureBaseline(disk) EXCEPT !.claim = issued + 1, !.count["fencing_token"] = @ + 1]
             closed == Close(leased, "hold", issued + 1, Counters)
  <2>1. WritesObject(u, Transition(closed, "active"))
    BY <1>6 DEF TakeClaim
  <2>2. Sound(closed) /\ Owes(closed, 0, 0)
    BY <1>1, ClaimedSound, ClaimOwes
  <2> HIDE DEF closed
  <2>3. Sound(Transition(closed, "active")) /\ Owes(Transition(closed, "active"), 0, 0)
    BY <1>1, <1>3, <2>2, TransitionSound, TransitionOwes
  <2> QED BY <1>1, <2>1, <2>3, ObjectStepOwes
<1>7. ASSUME NEW u \in Users, NEW s \in {"pending", "blocked"}, RecordFailure(u, s)
      PROVE  Owes(disk', 0, 0) /\ \A h \in Holders : Owes(object'[h], 0, 0)
  <2> DEFINE failed == ClearLeaseOf([EnsureBaseline(disk) EXCEPT !.count["retry_count"] = @ + 1])
             closed == Close(failed, "consume", 0, Counters)
  <2>1. PoolWrites(u, Transition(closed, s)) /\ UNCHANGED object
    BY <1>7 DEF RecordFailure
  <2>2. Sound(closed) /\ Owes(closed, 0, 0)
    BY <1>1, FailedSound, FailureOwes
  <2> HIDE DEF closed
  <2>3. Sound(Transition(closed, s)) /\ Owes(Transition(closed, s), 0, 0)
    BY <1>1, <1>3, <2>2, TransitionSound, TransitionOwes
  <2> QED BY <1>1, <2>1, <2>3, PoolStepOwes
<1>8. ASSUME NEW u \in Users, NEW s \in {"pending", "blocked"}, NEW task, Sound(task), Owes(task, 0, 0),
             PoolWrites(u, Transition(task, s)), UNCHANGED object
      PROVE  Owes(disk', 0, 0) /\ \A h \in Holders : Owes(object'[h], 0, 0)
  <2>1. Sound(Transition(task, s)) /\ Owes(Transition(task, s), 0, 0)
    BY <1>1, <1>3, <1>8, TransitionSound, TransitionOwes
  <2> QED BY <1>1, <1>8, <2>1, PoolStepOwes
<1>9. ASSUME NEW u \in Users, BlockIt(u) \/ UnblockIt(u) \/ ReclaimIt(u)
      PROVE  Owes(disk', 0, 0) /\ \A h \in Holders : Owes(object'[h], 0, 0)
  BY <1>1, <1>4, <1>8, <1>9 DEF BlockIt, UnblockIt, ReclaimIt
<1>10. ASSUME NEW h \in Holders, NEW s \in Statuses, NEW task, Sound(task), Owes(task, 0, 0),
              WritesObject(h, Transition(task, s))
       PROVE  Owes(disk', 0, 0) /\ \A g \in Holders : Owes(object'[g], 0, 0)
  <2>1. Sound(Transition(task, s)) /\ Owes(Transition(task, s), 0, 0)
    BY <1>1, <1>10, TransitionSound, TransitionOwes
  <2>2. h \in Users
    BY HoldersAssumption
  <2> QED BY <1>1, <1>10, <2>1, <2>2, ObjectStepOwes
<1>11. ASSUME NEW h \in Holders, WriteBack(h)
       PROVE  Owes(disk', 0, 0) /\ \A g \in Holders : Owes(object'[g], 0, 0)
  BY <1>1, <1>10, <1>11 DEF WriteBack
<1>12. ASSUME NEW h \in Holders, NEW s \in {"pending", "review"}, MoveIt(h, s)
       PROVE  Owes(disk', 0, 0) /\ \A g \in Holders : Owes(object'[g], 0, 0)
  <2>1. Sound(ClearLeaseOf(object[h])) /\ Owes(ClearLeaseOf(object[h]), 0, 0)
    <3>1. 0 \in Int
      OBVIOUS
    <3> QED BY <1>1, <3>1, ClearLeaseSound, ClearLeaseOwes
  <2>2. WritesObject(h, Transition(ClearLeaseOf(object[h]), s)) /\ s \in Statuses
    BY <1>3, <1>12 DEF MoveIt
  <2> QED BY <1>10, <2>1, <2>2
<1>13. ASSUME NEW h \in Holders, Load(h)
       PROVE  Owes(disk', 0, 0) /\ \A g \in Holders : Owes(object'[g], 0, 0)
  BY <1>1, <1>13 DEF Load, LedgerInv
<1>14. ASSUME NEW h \in Holders, BumpCounter(h)
       PROVE  Owes(disk', 0, 0) /\ \A g \in Holders : Owes(object'[g], 0, 0)
  <2> DEFINE bumped == [object[h] EXCEPT !.count["caller"] = @ + 1]
  <2>1. object' = [object EXCEPT ![h] = bumped] /\ UNCHANGED disk
    BY <1>14 DEF BumpCounter
  <2>2. object[h] \in Record /\ object[h].count \in [Counters -> Int]
    BY <1>1 DEF Sound, Record
  <2>3. /\ bumped.rows = object[h].rows /\ bumped.count["fencing_token"] = object[h].count["fencing_token"]
        /\ bumped.count["retry_count"] = object[h].count["retry_count"]
    BY <2>2 DEF Record, Counters
  <2> HIDE DEF bumped
  <2>4. Owes(bumped, 0, 0)
    BY <2>3 DEF Owes
  <2> QED BY <1>1, <2>1, <2>4 DEF LedgerInv
<1>15. CASE UNCHANGED ledgerVars
  BY <1>15 DEF ledgerVars
<1> QED BY <1>5, <1>6, <1>7, <1>9, <1>11, <1>12, <1>13, <1>14, <1>15 DEF LedgerNext

\* A record as old as the ledger has one hold row per fencing token and one consume row per retry,
\* whichever old objects replace rows and counters (rule 3 of core/task_ledger.py, claim_task and
\* fail_task of core/task.py).
THEOREM ValuesAlwaysExplained ==
    ASSUME "off" \notin Modes
    PROVE  LedgerSpec => []ValuesAreExplained
<1>1. LedgerInit => ExplainedInv
  BY ExplainedInitial
<1>2. ExplainedInv => ValuesAreExplained
  <2> SUFFICES ASSUME ExplainedInv, ~legacy
               PROVE  /\ disk.count["fencing_token"] = Cardinality(KindRows(disk.rows, "hold"))
                      /\ disk.count["retry_count"] = Cardinality(KindRows(disk.rows, "consume"))
    BY DEF ValuesAreExplained, KindRows
  <2>1. disk.rows \in Seq(RowSet) /\ Owes(disk, 0, 0)
    BY DEF ExplainedInv, LedgerInv, Sound, Record
  <2>2. Cardinality(KindRows(disk.rows, "hold")) \in Nat /\ Cardinality(KindRows(disk.rows, "consume")) \in Nat
    BY <2>1, FiniteRows DEF KindRows
  <2> QED BY <2>1, <2>2 DEF Owes
<1> QED BY <1>1, <1>2, ExplainedInductive, PTL DEF LedgerSpec

-----------------------------------------------------------------------------
(* Every hold is released, or its claim was taken over, or holds the task. *)

Released(rows, c) == \E j \in DOMAIN rows : rows[j].kind = "release" /\ rows[j].claim = c

Paired(rows, claim, taken) ==
    \A i \in DOMAIN rows :
        rows[i].kind = "hold" => rows[i].claim # 0 /\ (Released(rows, rows[i].claim) \/ rows[i].claim \in taken \cup {claim})

PairedInv ==
    /\ LedgerInv
    /\ issued \in Nat
    /\ Paired(disk.rows, disk.claim, overtaken)
    /\ \A h \in Holders : Paired(object[h].rows, object[h].claim, overtaken)

LEMMA PairedLater ==
    ASSUME NEW rows, NEW claim, NEW taken, NEW later, taken \subseteq later, Paired(rows, claim, taken)
    PROVE  Paired(rows, claim, later)
BY DEF Paired

\* A claim that ends by a takeover is in taken from then on.
LEMMA PairedTakeover ==
    ASSUME NEW rows, NEW claim, NEW next, NEW taken, Paired(rows, claim, taken)
    PROVE  Paired(rows, next, taken \cup ({claim} \ {0}))
BY DEF Paired

LEMMA AppendPaired ==
    ASSUME NEW rows \in Seq(RowSet), NEW row \in RowSet, NEW claim, NEW taken, Paired(rows, claim, taken),
           row.kind = "hold" => row.claim # 0 /\ row.claim = claim
    PROVE  Paired(Append(rows, row), claim, taken)
<1> DEFINE longer == Append(rows, row)
<1>1. /\ DOMAIN longer = DOMAIN rows \cup {Len(rows) + 1}
      /\ \A i \in DOMAIN rows : longer[i] = rows[i]
      /\ longer[Len(rows) + 1] = row
  BY AppendedRow
<1> HIDE DEF longer
<1>2. \A c : Released(rows, c) => Released(longer, c)
  BY <1>1 DEF Released
<1>3. Paired(longer, claim, taken)
  BY <1>1, <1>2 DEF Paired
<1> QED BY <1>3 DEF longer

LEMMA RegisterPaired ==
    ASSUME NEW task, Sound(task), NEW names \in SUBSET Counters, NEW kind \in Kinds, NEW c \in Int, NEW taken,
           kind = "hold" => c # 0 /\ c = task.claim, Paired(task.rows, task.claim, taken)
    PROVE  Paired(Register(task, kind, c, names).rows, Register(task, kind, c, names).claim, taken)
<1>1. PICK row \in RowSet :
         /\ row.kind = kind /\ row.claim = c /\ DOMAIN row.after = names
         /\ Register(task, kind, c, names).rows = Append(task.rows, row)
         /\ Register(task, kind, c, names).count = task.count
         /\ Register(task, kind, c, names).claim = task.claim
  BY ONLY Registered, Sound(task), names \in SUBSET Counters, kind \in Kinds, c \in Int
<1>2. task.rows \in Seq(RowSet)
  BY DEF Sound, Record
<1>3. Paired(Append(task.rows, row), task.claim, taken)
  BY <1>1, <1>2, AppendPaired
<1> QED BY <1>1, <1>3

LEMMA ClosePaired ==
    ASSUME NEW task, Sound(task), NEW names, NEW kind \in Kinds, NEW c \in Int, NEW taken,
           kind = "hold" => c # 0 /\ c = task.claim, Paired(task.rows, task.claim, taken)
    PROVE  Paired(Close(task, kind, c, names).rows, Close(task, kind, c, names).claim, taken)
<1>1. CASE Drift(task) \cap names = {}
  <2>1. Close(task, kind, c, names) = task
    BY <1>1, Zenon DEF Close
  <2> QED BY <2>1
<1>2. CASE Drift(task) \cap names # {}
  <2>1. PICK some : some = Drift(task) \cap names
    OBVIOUS
  <2>2. some \in SUBSET Counters
    BY <2>1, DriftIsNamed
  <2>3. Close(task, kind, c, names) = Register(task, kind, c, some)
    BY <1>2, <2>1, Zenon DEF Close
  <2>4. Paired(Register(task, kind, c, some).rows, Register(task, kind, c, some).claim, taken)
    BY <2>2, RegisterPaired
  <2> QED BY <2>3, <2>4
<1> QED BY <1>1, <1>2

LEMMA BaselinePaired ==
    ASSUME NEW task, Sound(task), Sound(disk), NEW taken, Paired(task.rows, task.claim, taken)
    PROVE  Paired(EnsureBaseline(task).rows, EnsureBaseline(task).claim, taken)
           /\ EnsureBaseline(task).claim = task.claim
<1>1. PICK missing : missing = Counters \ Baselined(task.rows)
  OBVIOUS
<1>2. CASE missing = {}
  BY <1>1, <1>2 DEF EnsureBaseline
<1>3. CASE missing # {}
  <2> DEFINE after == [n \in missing |-> disk.count[n]]
             row == Row("baseline", 0, after)
  <2>1. task \in Record /\ task.rows \in Seq(RowSet) /\ disk.count \in [Counters -> Int]
    BY DEF Sound, Record
  <2>2. missing \in SUBSET Counters /\ "baseline" \in Kinds /\ 0 \in Int
    BY <1>1 DEF Kinds
  <2>3. row \in RowSet /\ row.kind = "baseline"
    BY <2>1, <2>2, RowIsRow DEF Row
  <2>4. EnsureBaseline(task) = [task EXCEPT !.rows = Append(task.rows, row)]
    BY <1>1, <1>3 DEF EnsureBaseline
  <2> HIDE DEF row
  <2>5. EnsureBaseline(task).rows = Append(task.rows, row) /\ EnsureBaseline(task).claim = task.claim
    BY <2>1, <2>4 DEF Record
  <2>6. Paired(Append(task.rows, row), task.claim, taken)
    BY <2>1, <2>3, AppendPaired
  <2> QED BY <2>5, <2>6
<1> QED BY <1>2, <1>3

\* Whoever gives the task up writes the release row, unless there is one or there was no hold.
LEMMA ClearLeasePaired ==
    ASSUME NEW task, Sound(task), NEW taken, Paired(task.rows, task.claim, taken)
    PROVE  Paired(ClearLeaseOf(task).rows, ClearLeaseOf(task).claim, taken)
<1>1. PICK held \in BOOLEAN :
         held = (task.claim # 0 /\ Cardinality(RowsOf(task, {"release"}, task.claim))
                                      < Cardinality(RowsOf(task, {"hold"}, task.claim)))
  OBVIOUS
<1> DEFINE registered == Register(task, "release", task.claim, {})
<1>2. task \in Record /\ task.rows \in Seq(RowSet)
  BY DEF Sound, Record
<1>a. task.claim \in Int /\ {} \in SUBSET Counters /\ "release" \in Kinds
  BY DEF Sound, Record, Kinds
<1>3. CASE held
  <2>1. ClearLeaseOf(task) = [registered EXCEPT !.claim = 0]
    BY <1>1, <1>3 DEF ClearLeaseOf
  <2>2. PICK row \in RowSet :
           /\ row.kind = "release" /\ row.claim = task.claim /\ DOMAIN row.after = {}
           /\ registered.rows = Append(task.rows, row)
           /\ registered.count = task.count
           /\ registered.claim = task.claim
    BY <1>a, Registered
  <2>3. Paired(Append(task.rows, row), task.claim, taken)
    BY <1>2, <1>a, <2>2, AppendPaired
  <2>4. Released(Append(task.rows, row), task.claim)
    <3>1. Len(task.rows) + 1 \in DOMAIN Append(task.rows, row) /\ Append(task.rows, row)[Len(task.rows) + 1] = row
      BY <1>2, AppendedRow
    <3> QED BY <2>2, <3>1 DEF Released
  <2>5. Paired(Append(task.rows, row), 0, taken)
    BY <2>3, <2>4 DEF Paired
  <2>6. registered = [task EXCEPT !.rows = Append(@, Row("release", task.claim, [n \in {} |-> task.count[n]]))]
    BY DEF Register
  <2>7. ClearLeaseOf(task).rows = registered.rows /\ ClearLeaseOf(task).claim = 0
    BY <1>2, <2>1, <2>6 DEF Record
  <2> QED BY <2>2, <2>5, <2>7
<1>4. CASE ~held
  <2>1. ClearLeaseOf(task) = [task EXCEPT !.claim = 0]
    BY <1>1, <1>4 DEF ClearLeaseOf
  <2>2. ClearLeaseOf(task).rows = task.rows /\ ClearLeaseOf(task).claim = 0
    BY <1>2, <2>1 DEF Record
  <2>3. ASSUME NEW i \in DOMAIN task.rows, task.rows[i].kind = "hold", task.rows[i].claim = task.claim
        PROVE  Released(task.rows, task.claim)
    <3>1. /\ RowsOf(task, {"release"}, task.claim) \subseteq DOMAIN task.rows
          /\ RowsOf(task, {"hold"}, task.claim) \subseteq DOMAIN task.rows
          /\ i \in RowsOf(task, {"hold"}, task.claim)
      BY <2>3 DEF RowsOf
    <3>2. /\ Cardinality(RowsOf(task, {"release"}, task.claim)) \in Nat
          /\ Cardinality(RowsOf(task, {"hold"}, task.claim)) \in Nat
          /\ IsFiniteSet(RowsOf(task, {"hold"}, task.claim))
      BY <1>2, <3>1, FiniteRows
    <3>3. Cardinality(RowsOf(task, {"hold"}, task.claim)) # 0
      BY <3>1, <3>2, FS_EmptySet
    <3>4. task.claim # 0
      BY <2>3 DEF Paired
    <3>5. Cardinality(RowsOf(task, {"release"}, task.claim)) # 0
      <4>1. ~(Cardinality(RowsOf(task, {"release"}, task.claim)) < Cardinality(RowsOf(task, {"hold"}, task.claim)))
        BY <1>1, <1>4, <3>4
      <4> QED BY <3>2, <3>3, <4>1
    <3>6. RowsOf(task, {"release"}, task.claim) # {}
      BY <3>5, FS_EmptySet
    <3> QED BY <3>6 DEF RowsOf, Released
  <2>4. Paired(task.rows, 0, taken)
    BY <2>3 DEF Paired
  <2> QED BY <2>2, <2>4
<1> QED BY <1>3, <1>4

LEMMA TransitionPaired ==
    ASSUME NEW task, Sound(task), Sound(disk), NEW s \in Statuses, NEW taken, Paired(task.rows, task.claim, taken)
    PROVE  Paired(Transition(task, s).rows, Transition(task, s).claim, taken)
<1> DEFINE moved == [task EXCEPT !.status = s]
<1>1. Sound(moved) /\ moved.rows = task.rows /\ moved.claim = task.claim
  BY FieldsSound DEF Sound, Record
<1> HIDE DEF moved
<1>2. /\ Sound(EnsureBaseline(moved))
      /\ Paired(EnsureBaseline(moved).rows, EnsureBaseline(moved).claim, taken)
  BY <1>1, EnsureBaselineSound, BaselinePaired
<1>3. "consume" \in Kinds /\ 0 \in Int /\ "consume" # "hold"
  BY DEF Kinds
<1>4. Transition(task, s) = Close(EnsureBaseline(moved), "consume", 0, {})
  BY DEF Transition, TransitionCounters, moved
<1>5. PICK opened : opened = EnsureBaseline(moved)
  OBVIOUS
<1>6. Paired(Close(opened, "consume", 0, {}).rows, Close(opened, "consume", 0, {}).claim, taken)
  BY <1>2, <1>3, <1>5, ClosePaired
<1> QED BY <1>4, <1>5, <1>6

LEMMA GatedPaired ==
    ASSUME NEW u, NEW task, Sound(task), NEW taken, Paired(task.rows, task.claim, taken)
    PROVE  Paired(Gated(u, task).rows, Gated(u, task).claim, taken)
<1>1. "drift" \in Kinds /\ 0 \in Int /\ "drift" # "hold"
  BY DEF Kinds
<1>2. Paired(Close(task, "drift", 0, Counters).rows, Close(task, "drift", 0, Counters).claim, taken)
  BY <1>1, ClosePaired
<1> QED BY <1>2 DEF Gated

\* What is paired on disk and in every object stays so, whatever paired record is written.
LEMMA PoolStepPaired ==
    ASSUME NEW u, NEW task, Sound(task), PoolWrites(u, task), UNCHANGED object, NEW taken,
           Paired(task.rows, task.claim, taken), Paired(disk.rows, disk.claim, taken),
           \A h \in Holders : Paired(object[h].rows, object[h].claim, taken)
    PROVE  Paired(disk'.rows, disk'.claim, taken) /\ \A h \in Holders : Paired(object'[h].rows, object'[h].claim, taken)
BY GatedPaired DEF PoolWrites

LEMMA ObjectStepPaired ==
    ASSUME NEW u, NEW task, Sound(task), WritesObject(u, task), NEW taken,
           Paired(task.rows, task.claim, taken), Paired(disk.rows, disk.claim, taken),
           \A h \in Holders : Paired(object[h].rows, object[h].claim, taken)
    PROVE  Paired(disk'.rows, disk'.claim, taken) /\ \A h \in Holders : Paired(object'[h].rows, object'[h].claim, taken)
<1>1. Paired(Gated(u, task).rows, Gated(u, task).claim, taken)
  BY GatedPaired
<1>2. Paired(disk'.rows, disk'.claim, taken)
  BY <1>1 DEF WritesObject, PoolWrites
<1>3. \A h \in Holders : Paired(object'[h].rows, object'[h].claim, taken)
  BY <1>1 DEF WritesObject
<1> QED BY <1>2, <1>3

LEMMA ClaimPaired ==
    ASSUME LedgerInv, issued \in Nat, Paired(disk.rows, disk.claim, overtaken)
    PROVE  LET leased == [EnsureBaseline(disk) EXCEPT !.claim = issued + 1, !.count["fencing_token"] = @ + 1]
               closed == Close(leased, "hold", issued + 1, Counters)
           IN Paired(closed.rows, closed.claim, overtaken \cup ({disk.claim} \ {0}))
<1> DEFINE leased == [EnsureBaseline(disk) EXCEPT !.claim = issued + 1, !.count["fencing_token"] = @ + 1]
<1>1. PICK taken : taken = overtaken \cup ({disk.claim} \ {0})
  OBVIOUS
<1>2. /\ Sound(EnsureBaseline(disk)) /\ EnsureBaseline(disk) \in Record
      /\ EnsureBaseline(disk).claim = disk.claim
      /\ Paired(EnsureBaseline(disk).rows, disk.claim, overtaken)
  <2>1. Sound(disk)
    BY DEF LedgerInv
  <2> QED BY <2>1, EnsureBaselineSound, BaselinePaired DEF Sound
<1>3. issued + 1 \in Int /\ issued + 1 # 0 /\ "fencing_token" \in Counters /\ "hold" \in Kinds
  BY DEF Counters, Kinds
<1>4. Sound(leased)
  BY <1>2, <1>3, LeasedSound
<1>5. leased.rows = EnsureBaseline(disk).rows /\ leased.claim = issued + 1
  BY <1>2 DEF Record
<1>6. Paired(leased.rows, leased.claim, taken)
  BY <1>1, <1>2, <1>5, PairedTakeover
<1> HIDE DEF leased
<1>7. Paired(Close(leased, "hold", issued + 1, Counters).rows, Close(leased, "hold", issued + 1, Counters).claim, taken)
  BY <1>3, <1>4, <1>5, <1>6, ClosePaired
<1> QED BY <1>1, <1>7 DEF leased

LEMMA FailurePaired ==
    ASSUME LedgerInv, Paired(disk.rows, disk.claim, overtaken)
    PROVE  LET failed == ClearLeaseOf([EnsureBaseline(disk) EXCEPT !.count["retry_count"] = @ + 1])
               closed == Close(failed, "consume", 0, Counters)
           IN Paired(closed.rows, closed.claim, overtaken)
<1> DEFINE counted == [EnsureBaseline(disk) EXCEPT !.count["retry_count"] = @ + 1]
<1>1. /\ Sound(EnsureBaseline(disk)) /\ EnsureBaseline(disk) \in Record
      /\ EnsureBaseline(disk).claim = disk.claim
      /\ Paired(EnsureBaseline(disk).rows, disk.claim, overtaken)
  <2>1. Sound(disk)
    BY DEF LedgerInv
  <2> QED BY <2>1, EnsureBaselineSound, BaselinePaired DEF Sound
<1>2. "retry_count" \in Counters /\ "consume" \in Kinds /\ 0 \in Int /\ "consume" # "hold"
  BY DEF Counters, Kinds
<1>3. Sound(counted)
  BY <1>1, <1>2, CountedSound
<1>4. counted.rows = EnsureBaseline(disk).rows /\ counted.claim = disk.claim
  BY <1>1 DEF Record
<1> HIDE DEF counted
<1>5. PICK failed : failed = ClearLeaseOf(counted)
  OBVIOUS
<1>6. Sound(failed) /\ Paired(failed.rows, failed.claim, overtaken)
  BY <1>1, <1>3, <1>4, <1>5, ClearLeaseSound, ClearLeasePaired
<1>7. Paired(Close(failed, "consume", 0, Counters).rows, Close(failed, "consume", 0, Counters).claim, overtaken)
  BY <1>2, <1>6, ClosePaired
<1> QED BY <1>5, <1>7 DEF counted

PairedNext ==
    /\ Paired(disk'.rows, disk'.claim, overtaken')
    /\ \A h \in Holders : Paired(object'[h].rows, object'[h].claim, overtaken')

LEMMA PairedInductive == PairedInv /\ [LedgerNext]_ledgerVars => PairedInv'
<1> SUFFICES ASSUME PairedInv, [LedgerNext]_ledgerVars PROVE PairedInv'
  OBVIOUS
<1>1. LedgerInv /\ LedgerInv' /\ Sound(disk) /\ \A h \in Holders : Sound(object[h]) /\ object[h].status \in Statuses
  BY LedgerInductive DEF PairedInv, LedgerInv, Sound, Record
<1>2. /\ issued \in Nat /\ Paired(disk.rows, disk.claim, overtaken)
      /\ \A h \in Holders : Paired(object[h].rows, object[h].claim, overtaken)
  BY DEF PairedInv
<1>3. issued' \in Nat
  BY <1>2 DEF LedgerNext, ledgerVars, Lapse, TakeClaim, BlockIt, UnblockIt, ReclaimIt, RecordFailure, Load, BumpCounter,
              WriteBack, MoveIt
<1> SUFFICES PairedNext
  BY <1>1, <1>3 DEF PairedInv, PairedNext
<1>4. \A s \in {"active", "pending", "review", "blocked"} : s \in Statuses
  BY DEF Statuses
<1>5. Sound(ClearLeaseOf(disk)) /\ Paired(ClearLeaseOf(disk).rows, ClearLeaseOf(disk).claim, overtaken)
  BY <1>1, <1>2, ClearLeaseSound, ClearLeasePaired
<1>6. CASE Lapse
  BY <1>2, <1>6 DEF Lapse, PairedNext
<1>7. ASSUME NEW u \in Users, TakeClaim(u) PROVE PairedNext
  <2> DEFINE leased == [EnsureBaseline(disk) EXCEPT !.claim = issued + 1, !.count["fencing_token"] = @ + 1]
             closed == Close(leased, "hold", issued + 1, Counters)
  <2>1. WritesObject(u, Transition(closed, "active"))
    BY <1>7 DEF TakeClaim
  <2>2. PICK taken : taken = overtaken \cup ({disk.claim} \ {0}) /\ overtaken' = taken
    BY <1>7 DEF TakeClaim
  <2>3. Sound(closed) /\ Paired(closed.rows, closed.claim, taken)
    BY <1>1, <1>2, <2>2, ClaimedSound, ClaimPaired
  <2> HIDE DEF closed
  <2>4. /\ Sound(Transition(closed, "active"))
        /\ Paired(Transition(closed, "active").rows, Transition(closed, "active").claim, taken)
    BY <1>1, <1>4, <2>3, TransitionSound, TransitionPaired
  <2>5. /\ Paired(disk.rows, disk.claim, taken)
        /\ \A h \in Holders : Paired(object[h].rows, object[h].claim, taken)
    <3>1. overtaken \subseteq taken
      BY <2>2
    <3> QED BY <1>2, <3>1, PairedLater
  <2> QED BY <2>1, <2>2, <2>4, <2>5, ObjectStepPaired DEF PairedNext
<1>8. ASSUME NEW u \in Users, NEW s \in {"pending", "blocked"}, RecordFailure(u, s) PROVE PairedNext
  <2> DEFINE failed == ClearLeaseOf([EnsureBaseline(disk) EXCEPT !.count["retry_count"] = @ + 1])
             closed == Close(failed, "consume", 0, Counters)
  <2>1. PoolWrites(u, Transition(closed, s)) /\ UNCHANGED object /\ overtaken' = overtaken
    BY <1>8 DEF RecordFailure
  <2>2. Sound(closed) /\ Paired(closed.rows, closed.claim, overtaken)
    BY <1>1, <1>2, FailedSound, FailurePaired
  <2> HIDE DEF closed
  <2>3. Sound(Transition(closed, s)) /\ Paired(Transition(closed, s).rows, Transition(closed, s).claim, overtaken)
    BY <1>1, <1>4, <2>2, TransitionSound, TransitionPaired
  <2> QED BY <1>2, <2>1, <2>3, PoolStepPaired DEF PairedNext
<1>9. ASSUME NEW u \in Users, NEW s \in {"pending", "blocked"}, NEW task, Sound(task),
             Paired(task.rows, task.claim, overtaken), PoolWrites(u, Transition(task, s)),
             UNCHANGED <<object, overtaken>>
      PROVE  PairedNext
  <2>1. Sound(Transition(task, s)) /\ Paired(Transition(task, s).rows, Transition(task, s).claim, overtaken)
    BY <1>1, <1>4, <1>9, TransitionSound, TransitionPaired
  <2> QED BY <1>2, <1>9, <2>1, PoolStepPaired DEF PairedNext
<1>10. ASSUME NEW u \in Users, BlockIt(u) \/ UnblockIt(u) \/ ReclaimIt(u) PROVE PairedNext
  BY <1>1, <1>2, <1>5, <1>9, <1>10 DEF BlockIt, UnblockIt, ReclaimIt
<1>11. ASSUME NEW h \in Holders, NEW s \in Statuses, NEW task, Sound(task),
              Paired(task.rows, task.claim, overtaken), WritesObject(h, Transition(task, s)), overtaken' = overtaken
       PROVE  PairedNext
  <2>1. Sound(Transition(task, s)) /\ Paired(Transition(task, s).rows, Transition(task, s).claim, overtaken)
    BY <1>1, <1>11, TransitionSound, TransitionPaired
  <2> QED BY <1>2, <1>11, <2>1, ObjectStepPaired DEF PairedNext
<1>12. ASSUME NEW h \in Holders, WriteBack(h) PROVE PairedNext
  BY <1>1, <1>2, <1>11, <1>12 DEF WriteBack
<1>13. ASSUME NEW h \in Holders, NEW s \in {"pending", "review"}, MoveIt(h, s) PROVE PairedNext
  <2>1. Sound(ClearLeaseOf(object[h])) /\ Paired(ClearLeaseOf(object[h]).rows, ClearLeaseOf(object[h]).claim, overtaken)
    BY <1>1, <1>2, ClearLeaseSound, ClearLeasePaired
  <2>2. WritesObject(h, Transition(ClearLeaseOf(object[h]), s)) /\ s \in Statuses /\ overtaken' = overtaken
    BY <1>4, <1>13 DEF MoveIt
  <2> QED BY <1>11, <2>1, <2>2
<1>14. ASSUME NEW h \in Holders, Load(h) PROVE PairedNext
  BY <1>1, <1>2, <1>14 DEF Load, LedgerInv, PairedNext
<1>15. ASSUME NEW h \in Holders, BumpCounter(h) PROVE PairedNext
  <2> DEFINE bumped == [object[h] EXCEPT !.count["caller"] = @ + 1]
  <2>1. object' = [object EXCEPT ![h] = bumped] /\ UNCHANGED <<disk, overtaken>>
    BY <1>15 DEF BumpCounter
  <2>2. object[h] \in Record
    BY <1>1 DEF Sound
  <2>3. bumped.rows = object[h].rows /\ bumped.claim = object[h].claim
    BY <2>2 DEF Record
  <2> HIDE DEF bumped
  <2> QED BY <1>1, <1>2, <2>1, <2>3 DEF LedgerInv, PairedNext
<1>16. CASE UNCHANGED ledgerVars
  BY <1>2, <1>16 DEF ledgerVars, PairedNext
<1> QED BY <1>6, <1>7, <1>8, <1>10, <1>12, <1>13, <1>14, <1>15, <1>16 DEF LedgerNext

\* A hold without its release row belongs to the claim that has the task, or to one that was taken
\* over, whichever old objects are written back (clear_lease, _ledger_release and claim_task of
\* core/task.py).
THEOREM HoldsAlwaysEnd ==
    ASSUME "off" \notin Modes
    PROVE  LedgerSpec => []OpenHoldsAreOvertaken
<1>1. LedgerInit => PairedInv
  <2> SUFFICES ASSUME LedgerInit PROVE PairedInv
    OBVIOUS
  <2>1. LedgerInv /\ issued \in Nat /\ \A h \in Holders : object[h] = disk
    BY LedgerInitial DEF LedgerInit
  <2>2. Paired(disk.rows, disk.claim, overtaken)
    <3> DEFINE row == Row("baseline", 0, Fresh.count)
    <3>1. row.kind = "baseline"
      BY DEF Row
    <3> HIDE DEF row
    <3>2. disk.rows = <<>> \/ disk.rows = <<row>>
      BY DEF LedgerInit, Fresh, row
    <3> QED BY <3>1, <3>2 DEF Paired
  <2> QED BY <2>1, <2>2 DEF PairedInv
<1>2. PairedInv => OpenHoldsAreOvertaken
  BY DEF PairedInv, Paired, Released, OpenHoldsAreOvertaken, Rows, RowsOf
<1> QED BY <1>1, <1>2, PairedInductive, PTL DEF LedgerSpec
=============================================================================
