--------------------------- MODULE SelectionProofs ---------------------------
(* What the Researcher's choice of the next task guarantees, for any tasks and limits.      *)
EXTENDS Selection, TLAPS

LOCAL Numbers == INSTANCE WellFoundedInduction

Statuses == {"pending", "claimed", "leased", "lapsed", "review", "settled"}
Entries == [status : Statuses, waiting : BOOLEAN, touched : BOOLEAN, retries : 0 .. RetryLimit - 1,
            streak : 0 .. ReworkLimit, outcome : {"none", "rework", "soft"}, age : 0 .. AgeLimit]

\* The tasks that are not settled, each once.
Listed(list, tasks) ==
    /\ list \in Seq(Wanted)
    /\ \A j, k \in DOMAIN list : list[j] = list[k] => j = k
    /\ \A t \in Wanted : t \in tasks <=> \E k \in DOMAIN list : list[k] = t

Present == {t \in Wanted : pool[t].status # "settled"}

\* A task nobody has claimed has neither failed nor been reviewed.
Unclaimed(r) == ~r.touched => r.status \in {"pending", "settled"} /\ ~r.waiting /\ r.outcome = "none"

PoolInv ==
    /\ pool \in [Wanted -> Entries]
    /\ Listed(order, Present)
    /\ \A t \in Wanted : Unclaimed(pool[t])
    /\ picks \in 0 .. PicksPerCycle

LEMMA EntryFields ==
    ASSUME NEW r \in Entries
    PROVE  /\ r.status \in Statuses /\ r.waiting \in BOOLEAN /\ r.touched \in BOOLEAN
           /\ r.retries \in 0 .. RetryLimit - 1 /\ r.streak \in 0 .. ReworkLimit
           /\ r.outcome \in {"none", "rework", "soft"} /\ r.age \in 0 .. AgeLimit
BY DEF Entries

LEMMA NewEntries ==
    /\ New \in Entries /\ New.status = "pending" /\ New.age = 0 /\ Unclaimed(New)
    /\ Gone \in Entries /\ Gone.status = "settled" /\ Unclaimed(Gone)
<1>1. 0 \in 0 .. RetryLimit - 1 /\ 0 \in 0 .. ReworkLimit /\ 0 \in 0 .. AgeLimit
    BY SelectionAssumption
<1>2. New \in Entries
    BY <1>1 DEF New, Entries, Statuses
<1>3. Gone = [New EXCEPT !.status = "settled"] /\ Gone \in Entries
    BY <1>1 DEF Gone, New, Entries, Statuses
<1>4. /\ New.status = "pending" /\ New.age = 0 /\ New.waiting = FALSE /\ New.outcome = "none"
      /\ Gone.status = "settled" /\ Gone.waiting = FALSE /\ Gone.outcome = "none"
    BY DEF New, Gone
<1>5. QED BY <1>2, <1>3, <1>4 DEF Unclaimed

\* Taking one task out of the list ...
LEMMA WithoutIsListed ==
    ASSUME NEW tasks, Listed(order, tasks), NEW t \in tasks, t \in Wanted
    PROVE  Listed(Without(t), tasks \ {t})
<1> DEFINE k == CHOOSE k \in DOMAIN order : order[k] = t
           rest == [j \in 1 .. Len(order) - 1 |-> order[IF j < k THEN j ELSE j + 1]]
<1>1. order \in Seq(Wanted) /\ DOMAIN order = 1 .. Len(order) /\ Len(order) \in Nat
    BY DEF Listed
<1>2. k \in 1 .. Len(order) /\ order[k] = t
    BY <1>1 DEF Listed
<1>3. Without(t) = rest
    BY DEF Without
<1> HIDE DEF k
<1>4. \A j \in 1 .. Len(order) - 1 : (IF j < k THEN j ELSE j + 1) \in 1 .. Len(order)
    BY <1>1, <1>2
<1>5. rest \in Seq(Wanted) /\ DOMAIN rest = 1 .. Len(order) - 1
  <2>1. rest \in [1 .. Len(order) - 1 -> Wanted]
      BY <1>1, <1>4
  <2>2. Len(order) - 1 \in Nat
      BY <1>1, <1>2
  <2> HIDE DEF rest
  <2>3. QED BY <2>1, <2>2
<1>6. ASSUME NEW i \in DOMAIN rest, NEW j \in DOMAIN rest, rest[i] = rest[j]
      PROVE  i = j
  <2>1. (IF i < k THEN i ELSE i + 1) = (IF j < k THEN j ELSE j + 1)
      BY <1>1, <1>4, <1>5, <1>6 DEF Listed
  <2>2. QED BY <2>1, <1>1, <1>2, <1>5
<1>7. ASSUME NEW u \in Wanted
      PROVE  u \in tasks \ {t} <=> \E j \in DOMAIN rest : rest[j] = u
  <2>1. ASSUME u \in tasks, u # t PROVE \E j \in DOMAIN rest : rest[j] = u
    <3>1. PICK i \in 1 .. Len(order) : order[i] = u
        BY <2>1, <1>1 DEF Listed
    <3>2. i # k
        BY <3>1, <2>1, <1>2
    <3>3. CASE i < k
        BY <3>1, <3>3, <1>2, <1>1, <1>5
    <3>4. CASE k < i
      <4>1. i - 1 \in DOMAIN rest /\ ~(i - 1 < k) /\ (i - 1) + 1 = i
          BY <3>4, <1>2, <1>1, <1>5
      <4>2. rest[i - 1] = u
          BY <4>1, <3>1, <1>5
      <4>3. QED BY <4>1, <4>2
    <3>5. QED BY <3>2, <3>3, <3>4, <1>2
  <2>2. ASSUME NEW j \in DOMAIN rest, rest[j] = u PROVE u \in tasks /\ u # t
    <3>1. PICK i \in 1 .. Len(order) : i = (IF j < k THEN j ELSE j + 1) /\ rest[j] = order[i] /\ i # k
        BY <1>4, <1>5, <1>1, <1>2
    <3>2. order[i] # t
        BY <3>1, <1>1, <1>2 DEF Listed
    <3>3. QED BY <3>1, <3>2, <2>2, <1>1 DEF Listed
  <2>3. QED BY <2>1, <2>2
<1> HIDE DEF rest
<1>8. QED BY <1>3, <1>5, <1>6, <1>7 DEF Listed

\* ... and adding one at the end.
LEMMA AppendIsListed ==
    ASSUME NEW tasks, Listed(order, tasks), NEW t \in Wanted, t \notin tasks
    PROVE  Listed(Append(order, t), tasks \cup {t})
<1> DEFINE more == Append(order, t)
<1>1. order \in Seq(Wanted) /\ DOMAIN order = 1 .. Len(order) /\ Len(order) \in Nat
    BY DEF Listed
<1>2. /\ more \in Seq(Wanted) /\ DOMAIN more = 1 .. Len(order) + 1
      /\ more[Len(order) + 1] = t /\ \A k \in 1 .. Len(order) : more[k] = order[k]
    BY <1>1
<1>3. \A k \in DOMAIN order : order[k] # t
    BY DEF Listed
<1> HIDE DEF more
<1>4. \A j, k \in DOMAIN more : more[j] = more[k] => j = k
    BY <1>1, <1>2, <1>3 DEF Listed
<1>5. \A u \in Wanted : u \in tasks \cup {t} <=> \E k \in DOMAIN more : more[k] = u
  <2>1. ASSUME NEW u \in Wanted, u \in tasks \cup {t} PROVE \E k \in DOMAIN more : more[k] = u
    <3>1. CASE u = t
        BY <3>1, <1>1, <1>2
    <3>2. CASE u \in tasks
      <4>1. PICK k \in 1 .. Len(order) : order[k] = u
          BY <3>2, <1>1 DEF Listed
      <4>2. QED BY <4>1, <1>1, <1>2
    <3>3. QED BY <2>1, <3>1, <3>2
  <2>2. ASSUME NEW u \in Wanted, NEW k \in DOMAIN more, more[k] = u PROVE u \in tasks \cup {t}
    <3>1. CASE k = Len(order) + 1
        BY <3>1, <1>2, <2>2
    <3>2. CASE k \in 1 .. Len(order)
        BY <3>2, <1>1, <1>2, <2>2 DEF Listed
    <3>3. QED BY <3>1, <3>2, <1>1, <1>2
  <2>3. QED BY <2>1, <2>2
<1>6. QED BY <1>2, <1>4, <1>5 DEF Listed, more

-----------------------------------------------------------------------------
(* Choosing. *)

\* A set of positions has a first one.
LEMMA FirstPosition ==
    ASSUME NEW S \in SUBSET Nat, S # {}
    PROVE  \E k \in S : \A j \in S : k <= j
<1>1. \E k \in S : \A j \in S : ~(<<j, k>> \in Numbers!OpToRel(<, Nat))
    BY Numbers!WFMin, Numbers!NatLessThanWellFounded, Zenon
<1>2. PICK k \in S : \A j \in S : ~(j < k)
    BY <1>1 DEF Numbers!OpToRel
<1>3. QED BY <1>2

\* The oldest of some tasks that are there is one of them, and comes before the others.
LEMMA OldestIsFirst ==
    ASSUME NEW tasks, Listed(order, tasks), NEW S \in SUBSET Wanted, S \subseteq tasks, S # {}
    PROVE  /\ Oldest(S) \in S
           /\ \E k \in DOMAIN order :
                order[k] = Oldest(S) /\ \A j \in DOMAIN order : order[j] \in S => k <= j
<1> DEFINE At(k) == order[k] \in S /\ \A j \in 1 .. k - 1 : order[j] \notin S
           places == {k \in DOMAIN order : order[k] \in S}
<1>1. DOMAIN order = 1 .. Len(order) /\ Len(order) \in Nat
    BY DEF Listed
<1>2. places \in SUBSET Nat /\ places # {}
    BY <1>1 DEF Listed
<1>3. PICK k \in places : \A j \in places : k <= j
    BY <1>2, FirstPosition
<1>4. k \in DOMAIN order /\ At(k)
    BY <1>1, <1>3
<1>5. ASSUME NEW i \in DOMAIN order, At(i)
      PROVE  \A j \in DOMAIN order : order[j] \in S => i <= j
    BY <1>1, <1>5
<1>6. Oldest(S) = order[CHOOSE i \in DOMAIN order : At(i)]
    BY DEF Oldest
<1> HIDE DEF At
<1>7. PICK i \in DOMAIN order : At(i) /\ Oldest(S) = order[i]
    BY <1>4, <1>6
<1>8. QED BY <1>5, <1>7 DEF At

\* Of two tasks that are there, the one filed earlier is the older.
LEMMA OldestOfTwo ==
    ASSUME NEW tasks, Listed(order, tasks), NEW t \in tasks, NEW u \in tasks, t \in Wanted, u \in Wanted,
           NEW k \in DOMAIN order, order[k] = t, \A j \in DOMAIN order : order[j] = u => k <= j
    PROVE  Oldest({t, u}) = t
<1>1. {t, u} \in SUBSET Wanted /\ {t, u} \subseteq tasks /\ {t, u} # {}
    OBVIOUS
<1>2. PICK i \in DOMAIN order :
         order[i] = Oldest({t, u}) /\ \A j \in DOMAIN order : order[j] \in {t, u} => i <= j
    BY <1>1, OldestIsFirst
<1>3. Oldest({t, u}) \in {t, u}
    BY <1>1, OldestIsFirst
<1>4. i <= k
    BY <1>2
<1>5. CASE Oldest({t, u}) = u
  <2>1. k <= i
      BY <1>2, <1>5
  <2>2. DOMAIN order = 1 .. Len(order) /\ Len(order) \in Nat
      BY DEF Listed
  <2>3. i = k
      BY <1>4, <2>1, <2>2
  <2>4. QED BY <2>3, <1>2
<1>6. QED BY <1>3, <1>5

\* FirstOf of two, three or four sets: the first that is not empty.
LEMMA FirstOfSets ==
    ASSUME NEW n \in Nat, NEW options, DOMAIN options = 1 .. n, \E k \in 1 .. n : options[k] # {}
    PROVE  \E k \in 1 .. n : FirstOf(options) = options[k] /\ options[k] # {} /\ \A j \in 1 .. k - 1 : options[j] = {}
<1> DEFINE filled == {k \in 1 .. n : options[k] # {}}
           At(k) == options[k] # {} /\ \A j \in 1 .. k - 1 : options[j] = {}
<1>1. filled \in SUBSET Nat /\ filled # {}
    OBVIOUS
<1>2. PICK k \in filled : \A j \in filled : k <= j
    BY <1>1, FirstPosition
<1>3. k \in DOMAIN options /\ At(k)
    BY <1>2
<1>4. FirstOf(options) = options[CHOOSE i \in DOMAIN options : At(i)]
    BY DEF FirstOf
<1> HIDE DEF At
<1>5. PICK i \in DOMAIN options : At(i) /\ FirstOf(options) = options[i]
    BY <1>3, <1>4
<1>6. QED BY <1>5 DEF At

LEMMA FirstOfThree ==
    ASSUME NEW A, NEW B, NEW C, A \cup B \cup C # {}
    PROVE  FirstOf(<<A, B, C>>) = IF A # {} THEN A ELSE IF B # {} THEN B ELSE C
<1> DEFINE options == <<A, B, C>>
<1>1. DOMAIN options = 1 .. 3 /\ options[1] = A /\ options[2] = B /\ options[3] = C
    OBVIOUS
<1> HIDE DEF options
<1>2. 3 \in Nat /\ \E k \in 1 .. 3 : options[k] # {}
    BY <1>1
<1>3. PICK k \in 1 .. 3 : FirstOf(options) = options[k] /\ options[k] # {} /\ \A j \in 1 .. k - 1 : options[j] = {}
    BY <1>1, <1>2, FirstOfSets
<1>4. FirstOf(options) = IF A # {} THEN A ELSE IF B # {} THEN B ELSE C
    BY <1>1, <1>3
<1>5. QED BY <1>4 DEF options

LEMMA FirstOfFour ==
    ASSUME NEW A, NEW B, NEW C, NEW D, A \cup B \cup C \cup D # {}
    PROVE  FirstOf(<<A, B, C, D>>) = IF A # {} THEN A ELSE IF B # {} THEN B ELSE IF C # {} THEN C ELSE D
<1> DEFINE options == <<A, B, C, D>>
<1>1. DOMAIN options = 1 .. 4 /\ options[1] = A /\ options[2] = B /\ options[3] = C /\ options[4] = D
    OBVIOUS
<1> HIDE DEF options
<1>2. 4 \in Nat /\ \E k \in 1 .. 4 : options[k] # {}
    BY <1>1
<1>3. PICK k \in 1 .. 4 : FirstOf(options) = options[k] /\ options[k] # {} /\ \A j \in 1 .. k - 1 : options[j] = {}
    BY <1>1, <1>2, FirstOfSets
<1>4. FirstOf(options) = IF A # {} THEN A ELSE IF B # {} THEN B ELSE IF C # {} THEN C ELSE D
    BY <1>1, <1>3
<1>5. QED BY <1>4 DEF options

LEMMA PoolFacts ==
    ASSUME PoolInv
    PROVE  /\ Listed(order, Present) /\ Eligible \subseteq Pending /\ Pending \subseteq Present /\ Pending \subseteq Wanted
           /\ Present \subseteq Wanted
           /\ \A t \in Wanted : pool[t] \in Entries /\ Unclaimed(pool[t])
BY DEF PoolInv, Eligible, Pending, Present

\* Whom a pick may yield to can be claimed.
LEMMA UntouchedEligible == ASSUME PoolInv, NEW t PROVE UntouchedCandidate(t) \subseteq Eligible
<1> DEFINE others == Eligible \ {t}
           untouched == {u \in others : ~pool[u].touched}
           rework == {u \in others : pool[u].touched /\ (IsReworkCandidate(u) \/ (u \in Admitted /\ Reworked(u)))}
           classes == <<untouched \cap Admitted, untouched, rework \cap Admitted, rework>>
<1>1. CASE untouched \cup rework = {}
    BY <1>1 DEF UntouchedCandidate, Nobody
<1>2. CASE untouched \cup rework # {}
  <2>1. UntouchedCandidate(t) = {Oldest(FirstOf(classes))}
      BY <1>2 DEF UntouchedCandidate, Only
  <2>2. untouched \subseteq Eligible /\ rework \subseteq Eligible
      OBVIOUS
  <2> HIDE DEF untouched, rework
  <2>3. FirstOf(classes) = IF untouched \cap Admitted # {} THEN untouched \cap Admitted
                           ELSE IF untouched # {} THEN untouched
                           ELSE IF rework \cap Admitted # {} THEN rework \cap Admitted ELSE rework
    <3>1. (untouched \cap Admitted) \cup untouched \cup (rework \cap Admitted) \cup rework # {}
        BY <1>2
    <3>2. QED BY <3>1, FirstOfFour
  <2> HIDE DEF classes
  <2>4. FirstOf(classes) \subseteq Eligible /\ FirstOf(classes) # {}
      BY <1>2, <2>2, <2>3
  <2>5. Oldest(FirstOf(classes)) \in FirstOf(classes)
      BY <2>4, PoolFacts, OldestIsFirst
  <2>6. QED BY <2>1, <2>4, <2>5
<1>3. QED BY <1>1, <1>2

LEMMA AgingEligible == ASSUME PoolInv PROVE AgingMedium \subseteq Medium \cap Eligible
<1> DEFINE eligible == Medium \cap Eligible
           qualified == {t \in eligible : IsCompletionCandidate(t)}
           untouched == {t \in eligible : ~pool[t].touched}
           longest == {t \in untouched : \A u \in untouched : pool[u].age <= pool[t].age}
           options == <<qualified, longest, eligible>>
<1>1. CASE Critical \cap Eligible # {} \/ High \cap Eligible = {} \/ eligible = {}
    BY <1>1 DEF AgingMedium, Nobody
<1>2. CASE ~(Critical \cap Eligible # {} \/ High \cap Eligible = {} \/ eligible = {})
  <2>1. AgingMedium = {Oldest(FirstOf(options))}
      BY <1>2, Zenon DEF AgingMedium, Only
  <2>2. qualified \subseteq eligible /\ longest \subseteq eligible /\ eligible # {}
      BY <1>2
  <2> HIDE DEF qualified, longest, eligible
  <2>3. FirstOf(options) = IF qualified # {} THEN qualified ELSE IF longest # {} THEN longest ELSE eligible
      BY <2>2, FirstOfThree
  <2> HIDE DEF options
  <2>4. FirstOf(options) \subseteq eligible /\ FirstOf(options) # {}
      BY <2>2, <2>3
  <2>5. Oldest(FirstOf(options)) \in FirstOf(options)
      BY <2>4, PoolFacts, OldestIsFirst DEF eligible
  <2>6. QED BY <2>1, <2>4, <2>5 DEF eligible
<1>3. QED BY <1>1, <1>2

\* When high and untouched medium tasks wait, no critical one does, and nothing yields, the medium
\* task that ages is one of those that have aged most.
LEMMA AgingLongest ==
    ASSUME PoolInv, Critical \cap Eligible = {}, High \cap Eligible # {}, ~Yields(AgingMedium),
           NEW u \in Medium \cap Eligible, ~pool[u].touched
    PROVE  \E m \in Medium \cap Eligible :
             /\ AgingMedium = {m} /\ ~pool[m].touched
             /\ \A v \in Medium \cap Eligible : ~pool[v].touched => pool[v].age <= pool[m].age
<1> DEFINE eligible == Medium \cap Eligible
           qualified == {t \in eligible : IsCompletionCandidate(t)}
           untouched == {t \in eligible : ~pool[t].touched}
           longest == {t \in untouched : \A v \in untouched : pool[v].age <= pool[t].age}
           options == <<qualified, longest, eligible>>
<1>1. AgingMedium = {Oldest(FirstOf(options))}
  <2>1. ~(Critical \cap Eligible # {} \/ High \cap Eligible = {} \/ eligible = {})
      OBVIOUS
  <2>2. QED BY <2>1, Zenon DEF AgingMedium, Only
<1>2. \A v \in untouched : pool[v].age \in Nat /\ pool[v].age <= AgeLimit
  <2>1. \A v \in untouched : pool[v] \in Entries
      BY PoolFacts
  <2>2. QED BY <2>1, EntryFields, SelectionAssumption
<1>3. longest # {}
  <2> DEFINE left == {AgeLimit - pool[v].age : v \in untouched}
  <2>1. left \in SUBSET Nat /\ left # {}
    <3>1. u \in untouched
        OBVIOUS
    <3>2. AgeLimit \in Nat
        BY SelectionAssumption
    <3> HIDE DEF untouched
    <3>3. QED BY <1>2, <3>1, <3>2
  <2>2. PICK k \in left : \A j \in left : k <= j
      BY <2>1, FirstPosition
  <2>3. PICK v \in untouched : k = AgeLimit - pool[v].age
      BY <2>2
  <2>4. \A w \in untouched : AgeLimit - pool[w].age \in left
      OBVIOUS
  <2> HIDE DEF left, untouched
  <2>5. \A w \in untouched : k <= AgeLimit - pool[w].age
      BY <2>2, <2>4
  <2>6. \A w \in untouched : pool[w].age <= pool[v].age
      BY <1>2, <2>3, <2>5, SelectionAssumption
  <2>7. QED BY <2>3, <2>6 DEF untouched
<1>4. qualified \subseteq eligible /\ longest \subseteq eligible
    OBVIOUS
<1>5. \A v \in qualified : IsCompletionCandidate(v)
    OBVIOUS
<1>6. \A v \in longest : ~pool[v].touched /\ \A w \in eligible : ~pool[w].touched => pool[w].age <= pool[v].age
    OBVIOUS
<1> HIDE DEF qualified, longest, untouched, eligible
<1>7. FirstOf(options) = IF qualified # {} THEN qualified ELSE longest
    BY <1>3, FirstOfThree
<1> HIDE DEF options
<1>8. FirstOf(options) \subseteq eligible /\ FirstOf(options) # {}
    BY <1>3, <1>4, <1>7
<1>9. Oldest(FirstOf(options)) \in FirstOf(options)
    BY <1>8, PoolFacts, OldestIsFirst DEF eligible
<1>10. qualified = {}
    BY <1>1, <1>5, <1>7, <1>9 DEF Yields
<1>11. Oldest(FirstOf(options)) \in longest
    BY <1>7, <1>9, <1>10
<1>12. QED BY <1>1, <1>4, <1>6, <1>11 DEF eligible

\* Only a medium task counts, and only before pending high ones.
LEMMA MediumFacts ==
    ASSUME PoolInv, NEW pass, NEW group
    PROVE  /\ MediumAt(pass, group) \subseteq Medium \cap Eligible
           /\ MediumAt("pending", High) = AgingMedium
BY AgingEligible DEF MediumAt, Nobody

\* What the turn of a list gives can be claimed; a pass through the pending tasks claims one of them.
LEMMA TurnFacts ==
    ASSUME PoolInv, NEW pass, NEW group, NEW t \in Turn(pass, group)
    PROVE  /\ t \in group /\ Candidate(t, pass, group) \in Claimable /\ Candidate(t, pass, group) \in Wanted
           /\ pool[Candidate(t, pass, group)].status \in {"pending", "lapsed"}
           /\ pass = "pending" => t \in Pending
<1> DEFINE c == Candidate(t, pass, group)
<1>1. t \in group \cap InPass(pass) /\ c \in Claimable
    BY DEF Turn
<1> HIDE DEF c
<1>2. c \in Wanted /\ pool[c].status \in {"pending", "lapsed"}
    BY <1>1, PoolFacts DEF Claimable, Pending
<1>3. pass = "pending" => t \in Pending
    BY <1>1 DEF InPass, Pending
<1>4. QED BY <1>1, <1>2, <1>3 DEF c

-----------------------------------------------------------------------------
(* What every step keeps. *)

\* One task changes and stays, or comes back, or goes.
LEMMA TaskStays ==
    ASSUME PoolInv, NEW t \in Wanted, NEW r \in Entries, Unclaimed(r), Update(t, r), UNCHANGED <<order, picks>>,
           pool[t].status # "settled", r.status # "settled"
    PROVE  PoolInv'
<1>1. pool' \in [Wanted -> Entries] /\ \A u \in Wanted : pool'[u] = IF u = t THEN r ELSE pool[u]
    BY DEF PoolInv, Update
<1>2. Present' = Present
    BY <1>1 DEF Present
<1>3. Listed(order', Present')
    BY <1>2 DEF PoolInv, Listed
<1>4. \A u \in Wanted : Unclaimed(pool'[u])
    BY <1>1 DEF PoolInv
<1>5. QED BY <1>1, <1>3, <1>4 DEF PoolInv

LEMMA TaskGoes ==
    ASSUME PoolInv, NEW t \in Wanted, Leaves(t), UNCHANGED picks, pool[t].status # "settled"
    PROVE  PoolInv'
<1>1. pool' \in [Wanted -> Entries] /\ \A u \in Wanted : pool'[u] = IF u = t THEN Gone ELSE pool[u]
    BY NewEntries DEF PoolInv, Leaves, Update
<1>2. Present' = Present \ {t}
    BY <1>1, NewEntries DEF Present
<1>3. Listed(Without(t), Present \ {t})
  <2>1. t \in Present
      BY DEF Present
  <2>2. QED BY <2>1, WithoutIsListed DEF PoolInv
<1>4. Listed(order', Present')
    BY <1>2, <1>3 DEF Leaves
<1>5. \A u \in Wanted : Unclaimed(pool'[u])
    BY <1>1, NewEntries DEF PoolInv
<1>6. QED BY <1>1, <1>4, <1>5 DEF PoolInv

LEMMA TaskComes ==
    ASSUME PoolInv, NEW t \in Wanted, Arrive(t)
    PROVE  PoolInv'
<1>1. pool' \in [Wanted -> Entries] /\ \A u \in Wanted : pool'[u] = IF u = t THEN New ELSE pool[u]
    BY NewEntries DEF PoolInv, Arrive, Update
<1>2. Present' = Present \cup {t}
    BY <1>1, NewEntries DEF Present
<1>3. Listed(Append(order, t), Present \cup {t})
  <2>1. t \notin Present
      BY DEF Present, Arrive
  <2>2. QED BY <2>1, AppendIsListed DEF PoolInv
<1>4. Listed(order', Present')
    BY <1>2, <1>3 DEF Arrive
<1>5. \A u \in Wanted : Unclaimed(pool'[u])
    BY <1>1, NewEntries DEF PoolInv
<1>6. QED BY <1>1, <1>4, <1>5 DEF PoolInv, Arrive

\* The claim of one task, with the wait of others counted.
LEMMA ClaimedEntry ==
    ASSUME PoolInv, NEW c \in Wanted, NEW age \in 0 .. AgeLimit
    PROVE  LET r == [Claimed(c) EXCEPT !.age = age] IN
           r \in Entries /\ Unclaimed(r) /\ r.status = "claimed" /\ r.touched
<1> DEFINE streak == IF ~Reworked(c) THEN 0 ELSE IF pool[c].streak < ReworkLimit THEN pool[c].streak + 1 ELSE pool[c].streak
           r == [pool[c] EXCEPT !.status = "claimed", !.touched = TRUE, !.streak = streak, !.age = age]
<1>1. pool[c] \in Entries
    BY PoolFacts
<1>2. streak \in 0 .. ReworkLimit
    BY <1>1, EntryFields, SelectionAssumption
<1>3. [Claimed(c) EXCEPT !.age = age] = r
    BY <1>1 DEF Claimed, Entries
<1> HIDE DEF streak
<1>4. r \in Entries /\ r.status = "claimed" /\ r.touched = TRUE
    BY <1>1, <1>2 DEF Entries, Statuses
<1>5. QED BY <1>3, <1>4 DEF Unclaimed

LEMMA OlderEntry ==
    ASSUME PoolInv, NEW u \in Wanted, pool[u].age < AgeLimit
    PROVE  LET r == [pool[u] EXCEPT !.age = @ + 1] IN
           /\ r \in Entries /\ Unclaimed(r) /\ r.status = pool[u].status
           /\ r.touched = pool[u].touched /\ r.age = pool[u].age + 1
<1>1. pool[u] \in Entries /\ Unclaimed(pool[u])
    BY PoolFacts
<1>2. pool[u].age + 1 \in 0 .. AgeLimit
    BY <1>1, EntryFields, SelectionAssumption
<1> DEFINE r == [pool[u] EXCEPT !.age = @ + 1]
<1>3. /\ r \in Entries /\ r.status = pool[u].status /\ r.touched = pool[u].touched /\ r.age = pool[u].age + 1
      /\ r.waiting = pool[u].waiting /\ r.outcome = pool[u].outcome
    BY <1>1, <1>2 DEF Entries
<1>4. QED BY <1>1, <1>3 DEF Unclaimed

\* Only a medium task that high ones push aside grows older, and not one whose turn has come.
LEMMA AgesFacts ==
    ASSUME PoolInv, NEW pass, NEW group, NEW c, NEW t,
           NEW medium, medium = MediumAt(pass, group),
           NEW u \in Ages(group, c, t, medium)
    PROVE  u \in Medium \cap Eligible /\ u \in Wanted /\ pool[u].age < AgeLimit
<1>1. ~Yields(medium) /\ u \in medium
    BY DEF Ages
<1>2. u \in Medium \cap Eligible /\ u \in Wanted
    BY <1>1, MediumFacts, PoolFacts
<1>3. ~(pool[u].age >= AgeLimit)
    BY <1>1 DEF Yields
<1>4. pool[u].age \in 0 .. AgeLimit
    BY <1>2, PoolFacts, EntryFields
<1>5. QED BY <1>2, <1>3, <1>4, SelectionAssumption

LEMMA PickKeepsPool == ASSUME PoolInv, PickUp PROVE PoolInv'
<1>1. PICK pass \in Passes : \E group \in Chosen(pass) : \E t \in Turn(pass, group) :
            LET medium == MediumAt(pass, group)
                c == Candidate(t, pass, group)
            IN pool' = [u \in Wanted |->
                     IF u = c THEN [Claimed(c) EXCEPT !.age = IF Yields(medium) THEN 0 ELSE @]
                     ELSE IF u \in Ages(group, c, t, medium) THEN [pool[u] EXCEPT !.age = @ + 1]
                     ELSE pool[u]]
    BY DEF PickUp
<1>2. PICK group \in Chosen(pass) : \E t \in Turn(pass, group) :
            LET medium == MediumAt(pass, group)
                c == Candidate(t, pass, group)
            IN pool' = [u \in Wanted |->
                     IF u = c THEN [Claimed(c) EXCEPT !.age = IF Yields(medium) THEN 0 ELSE @]
                     ELSE IF u \in Ages(group, c, t, medium) THEN [pool[u] EXCEPT !.age = @ + 1]
                     ELSE pool[u]]
    BY <1>1
<1>0. PICK t \in Turn(pass, group) :
            LET medium == MediumAt(pass, group)
                c == Candidate(t, pass, group)
            IN pool' = [u \in Wanted |->
                     IF u = c THEN [Claimed(c) EXCEPT !.age = IF Yields(medium) THEN 0 ELSE @]
                     ELSE IF u \in Ages(group, c, t, medium) THEN [pool[u] EXCEPT !.age = @ + 1]
                     ELSE pool[u]]
    BY <1>2
<1> DEFINE medium == MediumAt(pass, group)
           c == Candidate(t, pass, group)
           age == IF Yields(medium) THEN 0 ELSE pool[c].age
           r == [Claimed(c) EXCEPT !.age = age]
<1>3. pool[c].status \in {"pending", "lapsed"} /\ c \in Wanted
    BY TurnFacts
<1>4. pool[c] \in Entries /\ age \in 0 .. AgeLimit /\ Claimed(c).age = pool[c].age
  <2>1. pool[c] \in Entries
      BY <1>3, PoolFacts
  <2> HIDE DEF c, medium
  <2>2. age \in 0 .. AgeLimit
      BY <2>1, EntryFields, SelectionAssumption
  <2>3. QED BY <2>1, <2>2 DEF Claimed, Entries
<1>5. pool' = [u \in Wanted |->
                 IF u = c THEN r
                 ELSE IF u \in Ages(group, c, t, medium) THEN [pool[u] EXCEPT !.age = @ + 1]
                 ELSE pool[u]]
  <2>1. [Claimed(c) EXCEPT !.age = IF Yields(medium) THEN 0 ELSE @] = r
      BY <1>4 DEF Claimed
  <2>2. QED BY <1>0, <2>1
<1>6. r \in Entries /\ Unclaimed(r) /\ r.status = "claimed"
    BY <1>3, <1>4, ClaimedEntry
<1>7. medium = MediumAt(pass, group)
    OBVIOUS
<1> HIDE DEF r, c, medium
<1>8. ASSUME NEW u \in Wanted
      PROVE  pool'[u] \in Entries /\ Unclaimed(pool'[u]) /\ (pool'[u].status = "settled" <=> pool[u].status = "settled")
  <2>1. CASE u = c
    <3>1. pool[c].status # "settled"
        BY <1>3
    <3>2. QED BY <2>1, <3>1, <1>5, <1>6
  <2>2. CASE u # c /\ u \in Ages(group, c, t, medium)
    <3>1. pool[u].age < AgeLimit
        BY <2>2, <1>7, AgesFacts
    <3>2. pool'[u] = [pool[u] EXCEPT !.age = @ + 1]
        BY <2>2, <1>5
    <3>3. QED BY <3>1, <3>2, OlderEntry
  <2>3. CASE u # c /\ u \notin Ages(group, c, t, medium)
      BY <2>3, <1>5, PoolFacts
  <2>4. QED BY <2>1, <2>2, <2>3
<1>9. Present' = Present
    BY <1>8 DEF Present
<1>10. pool' \in [Wanted -> Entries]
    BY <1>5, <1>8
<1>11. Listed(order', Present')
    BY <1>9 DEF PickUp, PoolInv, Listed
<1>12. picks' \in 0 .. PicksPerCycle
    BY SelectionAssumption DEF PickUp, AtPick, PoolInv
<1>13. QED BY <1>8, <1>10, <1>11, <1>12 DEF PoolInv

\* A claimed task that goes on to review, or back.
LEMMA SettlesKeepsPool ==
    ASSUME PoolInv, NEW t \in Wanted, pool[t].touched, pool[t].status # "settled", Settles(t), UNCHANGED picks
    PROVE  PoolInv'
<1>1. pool[t] \in Entries /\ Unclaimed(pool[t])
    BY PoolFacts
<1>2. CASE Update(t, [pool[t] EXCEPT !.status = "review"]) /\ UNCHANGED order
  <2> DEFINE r == [pool[t] EXCEPT !.status = "review"]
  <2>1. r \in Entries /\ Unclaimed(r) /\ r.status = "review"
      BY <1>1 DEF Entries, Statuses, Unclaimed
  <2> HIDE DEF r
  <2>2. Update(t, r) /\ UNCHANGED <<order, picks>>
      BY <1>2 DEF r
  <2>3. QED BY <2>1, <2>2, TaskStays
<1>3. CASE /\ pool[t].retries + 1 < RetryLimit /\ UNCHANGED order
           /\ Update(t, [pool[t] EXCEPT !.status = "pending", !.waiting = TRUE, !.retries = @ + 1])
  <2> DEFINE r == [pool[t] EXCEPT !.status = "pending", !.waiting = TRUE, !.retries = @ + 1]
  <2>1. pool[t].retries + 1 \in 0 .. RetryLimit - 1
      BY <1>1, <1>3, EntryFields, SelectionAssumption
  <2>2. r \in Entries /\ Unclaimed(r) /\ r.status = "pending"
      BY <1>1, <2>1 DEF Entries, Statuses, Unclaimed
  <2> HIDE DEF r
  <2>3. Update(t, r) /\ UNCHANGED <<order, picks>>
      BY <1>3 DEF r
  <2>4. QED BY <2>2, <2>3, TaskStays
<1>4. QED BY <1>2, <1>3 DEF Settles

LEMMA ResearchKeepsPool == ASSUME PoolInv, NEW t \in Wanted, ResearchEnds(t) PROVE PoolInv'
<1>1. pool[t].touched /\ pool[t].status # "settled" /\ UNCHANGED picks
    BY PoolFacts DEF ResearchEnds, Unclaimed
<1>2. CASE Settles(t)
    BY <1>1, <1>2, SettlesKeepsPool
<1>3. CASE Leaves(t)
    BY <1>1, <1>3, TaskGoes
<1>4. QED BY <1>2, <1>3 DEF ResearchEnds

LEMMA TakingKeepsPool == ASSUME PoolInv, NEW t \in Wanted, TakenByOther(t) PROVE PoolInv'
<1> DEFINE streak == IF ~Reworked(t) THEN 0 ELSE IF pool[t].streak < ReworkLimit THEN pool[t].streak + 1 ELSE pool[t].streak
           r == [pool[t] EXCEPT !.status = "leased", !.touched = TRUE, !.streak = streak]
<1>1. pool[t] \in Entries /\ pool[t].status # "settled"
    BY PoolFacts DEF TakenByOther, Claimable, Eligible, Pending
<1>2. streak \in 0 .. ReworkLimit
    BY <1>1, EntryFields, SelectionAssumption
<1>3. [Claimed(t) EXCEPT !.status = "leased"] = r
    BY <1>1 DEF Claimed, Entries
<1> HIDE DEF streak
<1>4. r \in Entries /\ r.status = "leased" /\ r.touched = TRUE
    BY <1>1, <1>2 DEF Entries, Statuses
<1>5. Unclaimed(r)
    BY <1>4 DEF Unclaimed
<1>6. Update(t, r) /\ UNCHANGED <<order, picks>>
    BY <1>3 DEF TakenByOther
<1> HIDE DEF r
<1>7. QED BY <1>1, <1>4, <1>5, <1>6, TaskStays

LEMMA OtherKeepsPool == ASSUME PoolInv, NEW t \in Wanted, OtherEnds(t) PROVE PoolInv'
<1>1. pool[t] \in Entries /\ pool[t].touched /\ pool[t].status # "settled" /\ UNCHANGED picks
    BY PoolFacts DEF OtherEnds, Unclaimed
<1>2. CASE Update(t, [pool[t] EXCEPT !.status = "lapsed"]) /\ UNCHANGED order
  <2> DEFINE r == [pool[t] EXCEPT !.status = "lapsed"]
  <2>1. r \in Entries /\ Unclaimed(r) /\ r.status = "lapsed"
      BY <1>1 DEF Entries, Statuses, Unclaimed
  <2> HIDE DEF r
  <2>2. Update(t, r) /\ UNCHANGED <<order, picks>>
      BY <1>1, <1>2 DEF r
  <2>3. QED BY <1>1, <2>1, <2>2, TaskStays
<1>3. CASE Settles(t)
    BY <1>1, <1>3, SettlesKeepsPool
<1>4. CASE Leaves(t)
    BY <1>1, <1>4, TaskGoes
<1>5. QED BY <1>2, <1>3, <1>4 DEF OtherEnds

\* Leases that are over are taken back.
LEMMA CycleKeepsPool == ASSUME PoolInv, NextCycle PROVE PoolInv'
<1>1. ASSUME NEW t \in Wanted
      PROVE  /\ pool'[t] \in Entries /\ Unclaimed(pool'[t]) /\ (pool'[t].status = "settled" <=> pool[t].status = "settled")
             /\ pool'[t].touched <=> pool[t].touched
             /\ ~pool[t].touched => pool'[t] = pool[t]
  <2>1. pool[t] \in Entries /\ Unclaimed(pool[t])
      BY PoolFacts
  <2>2. CASE pool[t].status = "lapsed"
    <3> DEFINE r == [pool[t] EXCEPT !.status = "pending"]
    <3>1. r \in Entries /\ Unclaimed(r) /\ r.status = "pending" /\ pool[t].touched /\ r.touched
        BY <2>1, <2>2 DEF Entries, Statuses, Unclaimed
    <3>2. pool'[t] = r
        BY <2>2 DEF NextCycle
    <3> HIDE DEF r
    <3>3. QED BY <2>2, <3>1, <3>2
  <2>3. CASE pool[t].status # "lapsed"
      BY <2>1, <2>3 DEF NextCycle
  <2>4. QED BY <2>2, <2>3
<1>2. pool' \in [Wanted -> Entries]
    BY <1>1 DEF NextCycle
<1>3. Present' = Present
    BY <1>1 DEF Present
<1>4. Listed(order', Present') /\ picks' \in 0 .. PicksPerCycle
    BY <1>3, SelectionAssumption DEF NextCycle, PoolInv, Listed
<1>5. QED BY <1>1, <1>2, <1>4 DEF PoolInv

LEMMA ReviewKeepsPool == ASSUME PoolInv, NEW t \in Wanted, Review(t) PROVE PoolInv'
<1>1. pool[t] \in Entries /\ Unclaimed(pool[t]) /\ pool[t].status = "review" /\ pool[t].touched
    BY PoolFacts DEF Review, Unclaimed
<1>2. CASE Leaves(t)
    BY <1>1, <1>2, TaskGoes DEF Review
<1>3. ASSUME NEW o \in {"rework", "soft"}, UNCHANGED order,
             Update(t, [pool[t] EXCEPT !.status = "pending", !.waiting = TRUE, !.outcome = o])
      PROVE  PoolInv'
  <2> DEFINE r == [pool[t] EXCEPT !.status = "pending", !.waiting = TRUE, !.outcome = o]
  <2>1. r \in Entries /\ Unclaimed(r) /\ r.status = "pending"
      BY <1>1 DEF Entries, Statuses, Unclaimed
  <2> HIDE DEF r
  <2>2. Update(t, r) /\ UNCHANGED <<order, picks>>
      BY <1>3 DEF r, Review
  <2>3. QED BY <2>1, <2>2, <1>1, TaskStays
<1>4. QED BY <1>2, <1>3 DEF Review

LEMMA RetryKeepsPool == ASSUME PoolInv, NEW t \in Wanted, RetryDue(t) PROVE PoolInv'
<1> DEFINE r == [pool[t] EXCEPT !.waiting = FALSE]
<1>1. pool[t] \in Entries /\ Unclaimed(pool[t]) /\ pool[t].status = "pending"
    BY PoolFacts DEF RetryDue
<1>2. r \in Entries /\ Unclaimed(r) /\ r.status = "pending"
    BY <1>1 DEF Entries, Statuses, Unclaimed
<1> HIDE DEF r
<1>3. Update(t, r) /\ UNCHANGED <<order, picks>>
    BY DEF r, RetryDue
<1>4. QED BY <1>1, <1>2, <1>3, TaskStays

LEMMA PoolStep == ASSUME PoolInv, [SelectionNext]_selectionVars PROVE PoolInv'
<1>1. CASE PickUp
    BY <1>1, PickKeepsPool
<1>2. CASE NothingToPick
    BY <1>2, SelectionAssumption DEF NothingToPick, PoolInv, Listed, Present
<1>3. CASE NextCycle
    BY <1>3, CycleKeepsPool
<1>4. ASSUME NEW t \in Wanted,
             ResearchEnds(t) \/ TakenByOther(t) \/ OtherEnds(t) \/ Review(t) \/ RetryDue(t) \/ Arrive(t)
      PROVE  PoolInv'
    BY <1>4, ResearchKeepsPool, TakingKeepsPool, OtherKeepsPool, ReviewKeepsPool, RetryKeepsPool, TaskComes
<1>5. CASE UNCHANGED selectionVars
    BY <1>5 DEF selectionVars, PoolInv, Listed, Present
<1>6. QED BY <1>1, <1>2, <1>3, <1>4, <1>5 DEF SelectionNext

LEMMA PoolInit == ASSUME SelectionInit PROVE PoolInv
<1> DEFINE there == {t \in Wanted : \E k \in DOMAIN Filed : Filed[k] = t}
<1>1. pool = [t \in Wanted |-> IF t \in there THEN New ELSE Gone] /\ order = Filed /\ picks = PicksPerCycle
    BY DEF SelectionInit
<1>2. Listed(Filed, there)
    BY SelectionAssumption DEF Listed
<1> HIDE DEF there
<1>3. pool \in [Wanted -> Entries] /\ \A t \in Wanted : Unclaimed(pool[t]) /\ (pool[t].status # "settled" <=> t \in there)
    BY <1>1, NewEntries
<1>4. Present = {t \in Wanted : t \in there}
    BY <1>3 DEF Present
<1>5. there \subseteq Wanted
    BY DEF there
<1>6. Present = there
    BY <1>4, <1>5
<1>7. picks \in 0 .. PicksPerCycle
    BY <1>1, SelectionAssumption
<1>8. QED BY <1>1, <1>2, <1>3, <1>6, <1>7 DEF PoolInv

LEMMA PoolType == ASSUME PoolInv PROVE SelectionTypeOK
<1>1. {order[k] : k \in DOMAIN order} = Present
  <2>1. \A k \in DOMAIN order : order[k] \in Wanted
      BY DEF PoolInv, Listed
  <2>2. Present \subseteq Wanted
      BY PoolFacts
  <2>3. QED BY <2>1, <2>2 DEF PoolInv, Listed
<1>2. QED BY <1>1 DEF PoolInv, Present, Entries, Statuses, SelectionTypeOK

\* Whatever is chosen, researched and reviewed, what selection reads stays well formed: no task is
\* listed twice, lost from the list or left on it once settled, and none grows older than the limit.
THEOREM SelectionTypeCorrect == SelectionSpec => []SelectionTypeOK
<1>1. SelectionInit => PoolInv
    BY PoolInit
<1>2. PoolInv /\ [SelectionNext]_selectionVars => PoolInv'
    BY PoolStep
<1>3. PoolInv => SelectionTypeOK
    BY PoolType
<1>4. QED BY <1>1, <1>2, <1>3, PTL DEF SelectionSpec

-----------------------------------------------------------------------------
(* How long high tasks push a medium one aside. *)

\* A medium task nobody has touched has been pushed aside as often as the claims were counted.
Overlooked(m) == m \in Medium \cap Pending /\ ~pool[m].touched /\ bypassed <= pool[m].age
FairInv ==
    /\ PoolInv
    /\ bypassed \in Nat /\ bypassed <= AgeLimit
    /\ bypassed > 0 => \E m \in Wanted : Overlooked(m)

LEMMA OverlookedStays ==
    ASSUME NEW m \in Wanted, Overlooked(m), bypassed' = bypassed, m \in Pending', ~pool'[m].touched,
           pool[m].age \in Nat, pool'[m].age = pool[m].age \/ pool'[m].age = pool[m].age + 1, bypassed \in Nat
    PROVE  Overlooked(m)'
BY DEF Overlooked

\* A step that leaves alone the tasks nobody has touched.
LEMMA OthersKeepFair ==
    ASSUME FairInv, PoolInv', bypassed' = bypassed,
           \A m \in Pending : ~pool[m].touched => pool'[m] = pool[m]
    PROVE  FairInv'
<1>1. ASSUME NEW m \in Wanted, Overlooked(m) PROVE Overlooked(m)'
    BY <1>1 DEF Overlooked, Pending
<1>2. QED BY <1>1 DEF FairInv

\* An ordinary high claim while an untouched medium task waits.
LEMMA CompetitionAges ==
    ASSUME FairInv, Suppressible, NEW t \in Turn("pending", High), Candidate(t, "pending", High) \in High \ Admitted
    PROVE  \E m \in Medium \cap Eligible :
             /\ ~pool[m].touched /\ bypassed <= pool[m].age /\ m # Candidate(t, "pending", High)
             /\ m \in Ages(High, Candidate(t, "pending", High), t, AgingMedium)
<1> DEFINE c == Candidate(t, "pending", High)
<1>1. PoolInv /\ High \in SUBSET Wanted /\ High \cap Medium = {}
    BY SelectionAssumption DEF FairInv, Wanted
<1>3. t \in High \cap Pending /\ c \in Claimable /\ c \in High \ Admitted
    BY <1>1, TurnFacts
<1>4. MediumAt("pending", High) = AgingMedium
    BY <1>1, MediumFacts
<1>5. ~Yields(AgingMedium) /\ c \in Eligible
  <2> DEFINE untouched == IF IsReworkCandidate(t) THEN UntouchedCandidate(t) ELSE Nobody
             admitted == {u \in High \cap Admitted \cap Eligible : ~pool[u].touched \/ Reworked(u)}
  <2>1. CASE IsReworkCandidate(t) /\ admitted # {}
    <3>1. c = Oldest(admitted)
        BY <2>1 DEF Candidate
    <3>2. admitted \in SUBSET Wanted /\ admitted \subseteq Present /\ admitted \subseteq Admitted
        BY <1>1, PoolFacts
    <3> HIDE DEF admitted
    <3>3. Oldest(admitted) \in admitted
        BY <1>1, <2>1, <3>2, PoolFacts, OldestIsFirst
    <3>4. QED BY <1>3, <3>1, <3>2, <3>3 DEF c
  <2>2. CASE ~(IsReworkCandidate(t) /\ admitted # {}) /\ Yields(AgingMedium)
    <3>1. c = CHOOSE m \in AgingMedium : TRUE
        BY <1>4, <2>2 DEF Candidate
    <3>2. AgingMedium # {}
        BY <2>2 DEF Yields
    <3>3. c \in AgingMedium
        BY <3>1, <3>2
    <3>4. QED BY <3>3, <1>1, <1>3, AgingEligible
  <2>3. CASE ~(IsReworkCandidate(t) /\ admitted # {}) /\ ~Yields(AgingMedium)
    <3>1. c = IF untouched # Nobody THEN CHOOSE u \in untouched : TRUE ELSE t
        BY <1>4, <2>3 DEF Candidate
    <3>2. CASE untouched # Nobody
      <4>1. c \in untouched /\ untouched \subseteq Eligible
          BY <1>1, <3>1, <3>2, UntouchedEligible DEF Nobody
      <4>2. QED BY <4>1, <2>3
    <3>3. CASE untouched = Nobody
      <4>1. c = t
          BY <3>1, <3>3
      <4>2. c \in Eligible
          BY <4>1, <1>3, <1>1, PoolFacts DEF Claimable, Pending
      <4>3. QED BY <4>2, <2>3
    <3>4. QED BY <3>2, <3>3
  <2>4. QED BY <2>1, <2>2, <2>3
<1>2. c \in High \cap Eligible
    BY <1>3, <1>5
<1>6. PICK u \in Medium \cap Eligible : ~pool[u].touched
    BY DEF Suppressible
<1>7. PICK m \in Medium \cap Eligible :
         /\ AgingMedium = {m} /\ ~pool[m].touched
         /\ \A v \in Medium \cap Eligible : ~pool[v].touched => pool[v].age <= pool[m].age
    BY <1>1, <1>2, <1>5, <1>6, AgingLongest DEF Suppressible
<1>8. bypassed <= pool[m].age
  <2>1. pool[m].age \in Nat
      BY <1>1, <1>7, PoolFacts, EntryFields, SelectionAssumption
  <2>2. CASE bypassed > 0
    <3>1. PICK w \in Wanted : Overlooked(w)
        BY <2>2 DEF FairInv
    <3>2. w \in Medium \cap Eligible /\ ~pool[w].touched /\ bypassed <= pool[w].age
        BY <3>1, <1>1, PoolFacts DEF Overlooked, Eligible, Pending, Unclaimed
    <3>3. pool[w].age <= pool[m].age /\ pool[w].age \in Nat
        BY <3>1, <3>2, <1>1, <1>7, PoolFacts, EntryFields, SelectionAssumption
    <3>4. QED BY <3>2, <3>3, <2>1 DEF FairInv
  <2>3. CASE bypassed = 0
      BY <2>1, <2>3
  <2>4. QED BY <2>2, <2>3 DEF FairInv
<1>9. m \in Ages(High, c, t, AgingMedium)
    BY <1>2, <1>5, <1>7 DEF Ages
<1>10. m # c
    BY <1>1, <1>2, <1>7
<1>11. QED BY <1>7, <1>8, <1>9, <1>10

LEMMA PickKeepsFair == ASSUME FairInv, PickUp PROVE FairInv'
<1>0. PICK pass \in Passes : \E group \in Chosen(pass) : \E t \in Turn(pass, group) :
            LET medium == MediumAt(pass, group)
                c == Candidate(t, pass, group)
            IN /\ pool' = [u \in Wanted |->
                     IF u = c THEN [Claimed(c) EXCEPT !.age = IF Yields(medium) THEN 0 ELSE @]
                     ELSE IF u \in Ages(group, c, t, medium) THEN [pool[u] EXCEPT !.age = @ + 1]
                     ELSE pool[u]]
               /\ bypassed' = IF c \in Medium THEN 0
                              ELSE IF Ordinary(pass, group, c) /\ Suppressible /\ bypassed <= AgeLimit
                                THEN bypassed + 1 ELSE bypassed
    BY DEF PickUp
<1>1. PICK group \in Chosen(pass) : \E t \in Turn(pass, group) :
            LET medium == MediumAt(pass, group)
                c == Candidate(t, pass, group)
            IN /\ pool' = [u \in Wanted |->
                     IF u = c THEN [Claimed(c) EXCEPT !.age = IF Yields(medium) THEN 0 ELSE @]
                     ELSE IF u \in Ages(group, c, t, medium) THEN [pool[u] EXCEPT !.age = @ + 1]
                     ELSE pool[u]]
               /\ bypassed' = IF c \in Medium THEN 0
                              ELSE IF Ordinary(pass, group, c) /\ Suppressible /\ bypassed <= AgeLimit
                                THEN bypassed + 1 ELSE bypassed
    BY <1>0
<1>2. PICK t \in Turn(pass, group) :
            LET medium == MediumAt(pass, group)
                c == Candidate(t, pass, group)
            IN /\ pool' = [u \in Wanted |->
                     IF u = c THEN [Claimed(c) EXCEPT !.age = IF Yields(medium) THEN 0 ELSE @]
                     ELSE IF u \in Ages(group, c, t, medium) THEN [pool[u] EXCEPT !.age = @ + 1]
                     ELSE pool[u]]
               /\ bypassed' = IF c \in Medium THEN 0
                              ELSE IF Ordinary(pass, group, c) /\ Suppressible /\ bypassed <= AgeLimit
                                THEN bypassed + 1 ELSE bypassed
    BY <1>1
<1> DEFINE medium == MediumAt(pass, group)
           c == Candidate(t, pass, group)
<1>3. PoolInv /\ PoolInv'
    BY PickKeepsPool DEF FairInv
<1>4. bypassed' = IF c \in Medium THEN 0
                  ELSE IF Ordinary(pass, group, c) /\ Suppressible /\ bypassed <= AgeLimit
                    THEN bypassed + 1 ELSE bypassed
    BY <1>2
<1>5. \A u \in Wanted : u # c =>
         pool'[u] = IF u \in Ages(group, c, t, medium) THEN [pool[u] EXCEPT !.age = @ + 1] ELSE pool[u]
    BY <1>2
<1>6. medium = MediumAt(pass, group)
    OBVIOUS
<1> HIDE DEF c, medium
\* The others are a claim older, or as they were.
<1>8. ASSUME NEW u \in Wanted, u # c
      PROVE  /\ u \in Pending => u \in Pending'
             /\ pool'[u].touched = pool[u].touched /\ pool[u].age \in Nat
             /\ pool'[u].age = IF u \in Ages(group, c, t, medium) THEN pool[u].age + 1 ELSE pool[u].age
             /\ u \in Ages(group, c, t, medium) => pool[u].age < AgeLimit
  <2>1. pool[u].age \in Nat
      BY <1>3, PoolFacts, EntryFields, SelectionAssumption
  <2>2. CASE u \in Ages(group, c, t, medium)
    <3>1. pool[u].age < AgeLimit
        BY <2>2, <1>3, <1>6, AgesFacts
    <3>2. pool'[u] = [pool[u] EXCEPT !.age = @ + 1]
        BY <2>2, <1>5, <1>8
    <3>3. pool'[u].status = pool[u].status /\ pool'[u].touched = pool[u].touched /\ pool'[u].age = pool[u].age + 1
        BY <3>1, <3>2, <1>3, OlderEntry
    <3>4. QED BY <2>1, <2>2, <3>1, <3>3 DEF Pending
  <2>3. CASE u \notin Ages(group, c, t, medium)
      BY <2>1, <2>3, <1>5, <1>8 DEF Pending
  <2>4. QED BY <2>2, <2>3
<1>9. CASE c \in Medium
    BY <1>3, <1>4, <1>9, SelectionAssumption DEF FairInv
<1>10. CASE c \notin Medium /\ Ordinary(pass, group, c) /\ Suppressible
  <2>1. pass = "pending" /\ group = High /\ c \in High \ Admitted /\ medium = AgingMedium
      BY <1>3, <1>6, <1>10, MediumFacts DEF Ordinary
  <2>2. PICK m \in Medium \cap Eligible :
          /\ ~pool[m].touched /\ bypassed <= pool[m].age /\ m # c /\ m \in Ages(group, c, t, medium)
      BY <1>10, <2>1, CompetitionAges DEF c
  <2>3. m \in Wanted /\ m \in Pending
      BY <1>3, PoolFacts
  <2>4. /\ m \in Pending' /\ ~pool'[m].touched /\ pool[m].age \in Nat
        /\ pool'[m].age = pool[m].age + 1 /\ pool[m].age < AgeLimit
      BY <2>2, <2>3, <1>8
  <2>5. bypassed' = bypassed + 1 /\ bypassed \in Nat
      BY <1>4, <1>10 DEF FairInv
  <2>6. bypassed' <= pool'[m].age /\ bypassed' <= AgeLimit /\ bypassed' \in Nat
      BY <2>2, <2>4, <2>5, SelectionAssumption
  <2>7. Overlooked(m)'
      BY <2>2, <2>4, <2>6 DEF Overlooked
  <2>8. QED BY <2>3, <2>6, <2>7, <1>3 DEF FairInv
<1>11. CASE c \notin Medium /\ ~(Ordinary(pass, group, c) /\ Suppressible)
  <2>1. bypassed' = bypassed
      BY <1>4, <1>11
  <2>2. ASSUME NEW m \in Wanted, Overlooked(m) PROVE Overlooked(m)'
    <3>1. m # c /\ m \in Pending /\ ~pool[m].touched
        BY <2>2, <1>11 DEF Overlooked
    <3>2. QED BY <3>1, <2>1, <2>2, <1>8, OverlookedStays DEF FairInv
  <2>3. QED BY <2>1, <2>2, <1>3 DEF FairInv
<1>12. QED BY <1>9, <1>10, <1>11

LEMMA FairStep == ASSUME FairInv, [SelectionNext]_selectionVars PROVE FairInv'
<1>1. PoolInv /\ PoolInv'
    BY PoolStep DEF FairInv
<1>2. \A m \in Wanted : pool[m].status # "pending" \/ pool[m].waiting => ~(m \in Pending /\ ~pool[m].touched)
    BY <1>1, PoolFacts DEF Pending, Unclaimed
<1>3. CASE PickUp
    BY <1>3, PickKeepsFair
<1>4. CASE NothingToPick \/ UNCHANGED selectionVars
    BY <1>1, <1>4, OthersKeepFair DEF NothingToPick, selectionVars
<1>5. CASE NextCycle
  <2>1. \A m \in Pending : ~pool[m].touched => pool'[m] = pool[m]
      BY <1>5 DEF NextCycle, Pending
  <2>2. QED BY <1>1, <1>5, <2>1, OthersKeepFair DEF NextCycle
<1>6. ASSUME NEW t \in Wanted, TakenByOther(t) PROVE FairInv'
  <2>1. CASE t \in Medium
      BY <1>1, <1>6, <2>1, SelectionAssumption DEF FairInv, TakenByOther
  <2>2. CASE t \notin Medium
    <3>1. \A u \in Wanted : u # t => pool'[u] = pool[u]
        BY <1>1, <1>6 DEF TakenByOther, Update, PoolInv
    <3>2. ASSUME NEW m \in Wanted, Overlooked(m) PROVE Overlooked(m)'
        BY <1>6, <2>2, <3>1, <3>2 DEF Overlooked, Pending, TakenByOther
    <3>3. bypassed' = bypassed
        BY <1>6, <2>2 DEF TakenByOther
    <3>4. QED BY <1>1, <3>2, <3>3 DEF FairInv
  <2>3. QED BY <2>1, <2>2
<1>7. ASSUME NEW t \in Wanted, ResearchEnds(t) \/ OtherEnds(t) \/ Review(t) \/ RetryDue(t) \/ Arrive(t) PROVE FairInv'
  <2>1. bypassed' = bypassed /\ ~(t \in Pending /\ ~pool[t].touched)
      BY <1>2, <1>7 DEF ResearchEnds, OtherEnds, Review, RetryDue, Arrive
  <2>2. \A u \in Wanted : u # t => pool'[u] = pool[u]
      BY <1>1, <1>7 DEF ResearchEnds, OtherEnds, Settles, Review, RetryDue, Arrive, Leaves, Update, PoolInv
  <2>3. \A m \in Pending : ~pool[m].touched => pool'[m] = pool[m]
      BY <2>1, <2>2 DEF Pending
  <2>4. QED BY <1>1, <2>1, <2>3, OthersKeepFair
<1>8. QED BY <1>3, <1>4, <1>5, <1>6, <1>7 DEF SelectionNext

\* A medium task that nobody has touched is passed over by no more ordinary high claims than its
\* age allows, for any tasks and limits: however many tasks come back from research and review, are
\* filed, refused by the execution gate, or claimed by other processes.
THEOREM MediumSuppressedAlwaysBriefly == SelectionSpec => []MediumSuppressedBriefly
<1>1. SelectionInit => FairInv
    BY PoolInit, SelectionAssumption DEF SelectionInit, FairInv
<1>2. FairInv /\ [SelectionNext]_selectionVars => FairInv'
    BY FairStep
<1>3. FairInv => MediumSuppressedBriefly
    BY DEF FairInv, MediumSuppressedBriefly
<1>4. QED BY <1>1, <1>2, <1>3, PTL DEF SelectionSpec
=============================================================================
