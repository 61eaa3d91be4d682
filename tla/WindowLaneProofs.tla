-------------------------- MODULE WindowLaneProofs --------------------------
(* Theorems about WindowLane, for any lanes, regions and interleaving of calls. *)
EXTENDS WindowLane, TLAPS

LOCAL Ordered == INSTANCE WellFoundedInduction

\* A version of the table without live overlaps, as seen at time t.
SoundAt(t, claims) ==
    /\ \A c \in claims : c.until \in Nat
    /\ \A c, d \in claims :
         c.lane # d.lane /\ t <= c.until /\ t <= d.until => ~Overlap(c.region, d.region)

\* What a window does next when its call is over is not a call.
InCall == {"temporary", "rename"}
Plain(o) == "step" \in DOMAIN o /\ o.step \notin InCall

\* A call in flight knows how to go on, and saves a sound table.
Fine(o) ==
    /\ "step" \in DOMAIN o
    /\ o.step \in InCall => Plain(o.then)
    /\ o.step = "temporary" => SoundAt(now, o.next)

\* Every version of the table that is anywhere on its way to disk is sound.
LaneInv ==
    /\ now \in Nat
    /\ win = [l \in Lanes |-> win[l]]
    /\ SoundAt(now, table)
    /\ \A claims \in tmp : SoundAt(now, claims)
    /\ \A l \in Lanes : Fine(win[l])

\* The clock only moves forward, so a claim that ran out never comes back to life.
LEMMA LaterIsSound ==
    ASSUME NEW t \in Nat, NEW claims, SoundAt(t, claims)
    PROVE  SoundAt(t + 1, claims)
BY DEF SoundAt

LEMMA PartIsSound ==
    ASSUME NEW t \in Nat, NEW claims, NEW part \in SUBSET claims, SoundAt(t, claims)
    PROVE  SoundAt(t, part)
BY DEF SoundAt

\* A grant disturbs nothing: claim has compared the region with every live foreign claim.
LEMMA GrantIsSound ==
    ASSUME now \in Nat, SoundAt(now, table), NEW l, NEW region, ~Foreign(l, region),
           NEW part \in SUBSET table
    PROVE  SoundAt(now, part \cup {NewClaim(l, region)})
<1> DEFINE new == NewClaim(l, region)
<1>1. new.lane = l /\ new.region = region /\ new.until = now + Term
    BY DEF NewClaim
<1>2. new.until \in Nat
    BY <1>1, LaneAssumption
<1>3. \A c \in part : c.until \in Nat /\ (c.lane # l /\ now <= c.until => ~Overlap(c.region, region))
    BY DEF SoundAt, Foreign, Live
<1>4. \A c \in part : c.lane # l /\ now <= c.until => ~Overlap(region, c.region)
    BY <1>3 DEF Overlap
<1>5. SoundAt(now, part)
    BY PartIsSound
<1> HIDE DEF new
<1>6. ASSUME NEW c \in part \cup {new}, NEW d \in part \cup {new},
             c.lane # d.lane, now <= c.until, now <= d.until
      PROVE  ~Overlap(c.region, d.region)
  <2>1. CASE c \in part /\ d \in part
    BY <1>5, <1>6, <2>1 DEF SoundAt
  <2>2. CASE c = new /\ d \in part
    BY <1>1, <1>4, <1>6, <2>2
  <2>3. CASE c \in part /\ d = new
    BY <1>1, <1>3, <1>6, <2>3
  <2>4. QED BY <1>6, <2>1, <2>2, <2>3
<1>7. \A c \in part \cup {new} : c.until \in Nat
    BY <1>2, <1>3
<1>8. QED BY <1>6, <1>7 DEF SoundAt, new

\* A call in memory: only the caller's state changes, and what it is about to save is sound.
LEMMA PlainIsFine ==
    ASSUME NEW o, Plain(o)
    PROVE  Fine(o)
BY DEF Plain, Fine, InCall

LEMMA CallKeepsInv ==
    ASSUME LaneInv, UNCHANGED <<table, tmp, now>>, NEW l \in Lanes, NEW o, Continue(l, o), Fine(o)
    PROVE  LaneInv'
BY DEF LaneInv, Continue, Fine

LEMMA SavingKeepsInv ==
    ASSUME LaneInv, UNCHANGED <<table, tmp, now>>, NEW l \in Lanes, NEW claims, NEW then,
           Saving(l, claims, then), SoundAt(now, claims), Plain(then)
    PROVE  LaneInv'
<1> DEFINE o == [step |-> "temporary", next |-> claims, then |-> then]
<1>1. Continue(l, o)
    BY DEF Saving
<1>2. Fine(o)
    BY DEF Fine, InCall
<1>3. QED BY <1>1, <1>2, CallKeepsInv

LEMMA ReleaseKeepsInv ==
    ASSUME LaneInv, UNCHANGED <<table, tmp, now>>, NEW l \in Lanes, NEW c, NEW then,
           Release(l, c, then), Plain(then)
    PROVE  LaneInv'
<1>1. CASE \E d \in table : SameId(c, d) /\ Live(d)
  <2>1. Saving(l, {d \in table : ~SameId(c, d)}, then)
      BY <1>1 DEF Release
  <2>2. SoundAt(now, {d \in table : ~SameId(c, d)})
      BY PartIsSound DEF LaneInv
  <2>3. QED BY <2>1, <2>2, SavingKeepsInv
<1>2. CASE ~\E d \in table : SameId(c, d) /\ Live(d)
    BY <1>2, CallKeepsInv, PlainIsFine DEF Release
<1>3. QED BY <1>1, <1>2

LEMMA LaneInitial == LaneInit => LaneInv
BY DEF LaneInit, LaneInv, SoundAt, Rest, Fine, InCall

LEMMA ClaimNextKeepsInv ==
    ASSUME LaneInv, NEW l \in Lanes, ClaimNext(l)
    PROVE  LaneInv'
<1> DEFINE region == Head(win[l].todo)
           got(grant) == [win[l] EXCEPT !.todo = Tail(@), !.got = Append(@, grant)]
<1>1. UNCHANGED <<table, tmp, now>> /\ win[l].step = "start"
    BY DEF ClaimNext
<1>2. ASSUME NEW grant
      PROVE  Plain(got(grant))
    BY <1>1 DEF LaneInv, Fine, Plain, InCall
<1>3. CASE Refused(l, region)
  <2>1. Continue(l, [step |-> "rollback", got |-> win[l].got, gave |-> win[l].got])
      BY <1>3 DEF ClaimNext
  <2>2. Plain([step |-> "rollback", got |-> win[l].got, gave |-> win[l].got])
      BY DEF Plain, InCall
  <2>3. QED BY <1>1, <2>1, <2>2, CallKeepsInv, PlainIsFine
<1>4. CASE ~Refused(l, region) /\ OwnerOf(region) = Shared
  <2>1. Saving(l, table, got([lane |-> Shared]))
      BY <1>4 DEF ClaimNext
  <2>2. SoundAt(now, table)
      BY DEF LaneInv
  <2>3. Plain(got([lane |-> Shared]))
      BY <1>2
  <2>4. QED BY <1>1, <2>1, <2>2, <2>3, SavingKeepsInv
<1>5. CASE ~Refused(l, region) /\ OwnerOf(region) # Shared
  <2> DEFINE c == NewClaim(l, region)
             kept == {d \in table : ~Supersedes(d, l, region)}
  <2>1. Saving(l, kept \cup {c}, got(c))
      BY <1>5 DEF ClaimNext
  <2>2. ~Foreign(l, region)
      BY <1>5 DEF Refused
  <2>3. SoundAt(now, kept \cup {c})
      BY <2>2, GrantIsSound DEF LaneInv
  <2>4. Plain(got(c))
      BY <1>2
  <2>5. QED BY <1>1, <2>1, <2>3, <2>4, SavingKeepsInv
<1>6. QED BY <1>3, <1>4, <1>5

LEMMA LaneStep == LaneInv /\ [LaneNext]_laneVars => LaneInv'
<1> SUFFICES ASSUME LaneInv, [LaneNext]_laneVars
             PROVE  LaneInv'
    OBVIOUS
<1>1. CASE UNCHANGED laneVars
    BY <1>1 DEF laneVars, LaneInv, Fine
<1>2. CASE Tick
  <2>1. now \in Nat /\ now' = now + 1 /\ UNCHANGED <<table, tmp, win>>
      BY <1>2 DEF Tick, LaneInv
  <2>2. SoundAt(now', table') /\ \A claims \in tmp' : SoundAt(now', claims)
      BY <2>1, LaterIsSound DEF LaneInv
  <2>3. ASSUME NEW l \in Lanes
        PROVE  Fine(win[l])'
    <3>1. Fine(win[l])
        BY DEF LaneInv
    <3>2. win[l].step = "temporary" => SoundAt(now + 1, win[l].next)
        BY <2>1, <3>1, LaterIsSound DEF Fine
    <3>3. QED BY <2>1, <3>1, <3>2 DEF Fine
  <2>4. QED BY <2>1, <2>2, <2>3 DEF LaneInv
<1>3. ASSUME NEW l \in Lanes, NEW regions \in Starts, Start(l, regions)
      PROVE  LaneInv'
  <2> DEFINE o == [step |-> "start", todo |-> regions, got |-> <<>>]
  <2>1. Plain(o)
      BY DEF Plain, InCall
  <2>2. UNCHANGED <<table, tmp, now>> /\ (Saving(l, table, o) \/ Continue(l, o))
      BY <1>3 DEF Start
  <2>3. SoundAt(now, table)
      BY DEF LaneInv
  <2> HIDE DEF o
  <2>4. QED BY <2>1, <2>2, <2>3, SavingKeepsInv, CallKeepsInv, PlainIsFine
<1>5. ASSUME NEW l \in Lanes, ClaimNext(l)
      PROVE  LaneInv'
    BY <1>5, ClaimNextKeepsInv
<1>6. ASSUME NEW l \in Lanes, Started(l) \/ Answered(l) \/ Crash(l)
      PROVE  LaneInv'
  <2>1. UNCHANGED <<table, tmp, now>>
        /\ (Continue(l, [step |-> "working", got |-> win[l].got]) \/ Continue(l, Rest))
      BY <1>6 DEF Started, Answered, Crash
  <2>2. Plain([step |-> "working", got |-> win[l].got]) /\ Plain(Rest)
      BY DEF Plain, InCall, Rest
  <2>3. QED BY <2>1, <2>2, CallKeepsInv, PlainIsFine
<1>7. ASSUME NEW l \in Lanes, RollBack(l)
      PROVE  LaneInv'
  <2>1. UNCHANGED <<table, tmp, now>> /\ win[l].step = "rollback"
      BY <1>7 DEF RollBack
  <2>2. Plain([win[l] EXCEPT !.step = "refused"]) /\ Plain([step |-> "raised"])
        /\ Plain([win[l] EXCEPT !.got = Tail(@)])
      BY <2>1 DEF LaneInv, Fine, Plain, InCall
  <2>3. \/ Continue(l, [win[l] EXCEPT !.step = "refused"])
        \/ Continue(l, [step |-> "raised"])
        \/ Release(l, Head(win[l].got), [win[l] EXCEPT !.got = Tail(@)])
      BY <1>7 DEF RollBack
  <2>4. QED BY <2>1, <2>2, <2>3, CallKeepsInv, ReleaseKeepsInv, PlainIsFine
<1>8. ASSUME NEW l \in Lanes, Finish(l)
      PROVE  LaneInv'
  <2> DEFINE rest == [win[l] EXCEPT !.got = Tail(@)]
  <2>1. UNCHANGED <<table, tmp, now>> /\ win[l].step = "working"
      BY <1>8 DEF Finish
  <2>2. Plain(Rest) /\ Plain(rest)
      BY <2>1 DEF LaneInv, Fine, Plain, InCall, Rest
  <2>3. Continue(l, Rest) \/ Continue(l, rest) \/ Release(l, Head(win[l].got), rest)
      BY <1>8 DEF Finish
  <2> HIDE DEF rest
  <2>4. QED BY <2>1, <2>2, <2>3, CallKeepsInv, ReleaseKeepsInv, PlainIsFine
<1>9. ASSUME NEW l \in Lanes, ExpireStale(l)
      PROVE  LaneInv'
  <2>1. UNCHANGED <<table, tmp, now>> /\ Saving(l, {c \in table : Live(c)}, Rest)
      BY <1>9 DEF ExpireStale
  <2>2. SoundAt(now, {c \in table : Live(c)})
      BY PartIsSound DEF LaneInv
  <2>3. Plain(Rest)
      BY DEF Plain, InCall, Rest
  <2>4. QED BY <2>1, <2>2, <2>3, SavingKeepsInv
<1>10. ASSUME NEW l \in Lanes, WriteTemporary(l)
       PROVE  LaneInv'
  <2> DEFINE o == [step |-> "rename", then |-> win[l].then]
  <2>1. tmp' = {win[l].next} /\ UNCHANGED <<table, now>> /\ Continue(l, o)
      BY <1>10 DEF WriteTemporary
  <2>2. SoundAt(now, win[l].next) /\ Fine(o)
      BY <1>10 DEF WriteTemporary, LaneInv, Fine, InCall
  <2>3. QED BY <2>1, <2>2 DEF LaneInv, Continue, Fine
<1>11. ASSUME NEW l \in Lanes, Rename(l)
       PROVE  LaneInv'
  <2>1. CASE tmp # {}
    <3>1. table' \in tmp /\ tmp' = {} /\ UNCHANGED now /\ Continue(l, win[l].then)
        BY <1>11, <2>1 DEF Rename
    <3>2. Fine(win[l].then)
        BY <1>11, PlainIsFine DEF Rename, LaneInv, Fine, InCall
    <3>3. QED BY <3>1, <3>2 DEF LaneInv, Continue, Fine
  <2>2. CASE tmp = {}
    <3>1. UNCHANGED <<table, tmp, now>> /\ Continue(l, [step |-> "raised"])
        BY <1>11, <2>2 DEF Rename
    <3>2. Plain([step |-> "raised"])
        BY DEF Plain, InCall
    <3>3. QED BY <3>1, <3>2, CallKeepsInv, PlainIsFine
  <2>3. QED BY <2>1, <2>2
<1>13. QED
    BY <1>1, <1>2, <1>3, <1>5, <1>6, <1>7, <1>8, <1>9, <1>10, <1>11 DEF LaneNext

\* However the calls of any number of windows interleave or are cut off, the claims file
\* never shows two live overlapping claims of different lanes: a race loses claims, it does
\* not make the file contradict itself.
THEOREM FileNeverShowsOverlap == LaneSpec => []TableExclusive
<1>1. LaneInv => TableExclusive
    BY DEF LaneInv, SoundAt, TableExclusive, Exclusive, Live
<1>2. QED BY <1>1, LaneInitial, LaneStep, PTL DEF LaneSpec

-----------------------------------------------------------------------------
(* Type correctness, for any interleaving. *)

\* A bounded set of numbers has a largest one.
LEMMA LargestExists ==
    ASSUME NEW S \in SUBSET Nat, NEW top \in Nat, S # {}, \A n \in S : n <= top
    PROVE  \E n \in S : \A m \in S : m <= n
<1> DEFINE T == {top - n : n \in S}
<1>1. T \subseteq Nat /\ T # {}
  <2>1. PICK n \in S : TRUE
      OBVIOUS
  <2>2. top - n \in T
      BY <2>1
  <2>3. QED BY <2>2
<1>2. \E x \in T : \A y \in T : ~(<<y, x>> \in Ordered!OpToRel(<, Nat))
    BY <1>1, Ordered!WFMin, Ordered!NatLessThanWellFounded, Zenon
<1>3. PICK x \in T : \A y \in T : ~(y < x)
    BY <1>1, <1>2 DEF Ordered!OpToRel
<1>4. PICK n \in S : x = top - n
    OBVIOUS
<1>5. \A m \in S : ~(top - m < top - n)
    BY <1>3, <1>4
<1>6. QED BY <1>4, <1>5

\* In one version of the table the tokens differ.
Numbered(claims) ==
    /\ claims \subseteq Claim
    /\ \A c \in claims : c.token <= MaxToken
    /\ \A c, d \in claims : c.token = d.token => c = d

\* What start hands out: claims of the lane, or the leave to write a shared region.
OwnClaim(l) == {c \in Claim : c.lane = l}
Leave == [lane |-> Shared]
Grants(l) == OwnClaim(l) \cup {Leave}

\* The state of a window between two calls, and within one.
Shape(l, o) ==
    \/ o = Rest
    \/ o = [step |-> "raised"]
    \/ /\ o = [step |-> "start", todo |-> o.todo, got |-> o.got]
       /\ o.todo \in Seq(Regions) /\ o.got \in Seq(Grants(l))
    \/ o = [step |-> "working", got |-> o.got] /\ o.got \in Seq(Grants(l))
    \/ /\ o = [step |-> o.step, got |-> o.got, gave |-> o.gave] /\ o.step \in {"rollback", "refused"}
       /\ o.got \in Seq(Grants(l)) /\ o.gave \in Seq(Grants(l))

Formed(l, o) ==
    \/ Shape(l, o)
    \/ o = [step |-> "temporary", next |-> o.next, then |-> o.then] /\ Shape(l, o.then) /\ Numbered(o.next)
    \/ o = [step |-> "rename", then |-> o.then] /\ Shape(l, o.then)

FormedInv ==
    /\ now \in Nat
    /\ win = [l \in Lanes |-> win[l]]
    /\ Numbered(table)
    /\ \A claims \in tmp : Numbered(claims)
    /\ \A l \in Lanes : Formed(l, win[l])

\* The next token is larger than any in the table.
LEMMA NextTokenFresh ==
    ASSUME Numbered(table)
    PROVE  NextToken \in Nat \ {0} /\ \A c \in table : c.token < NextToken
<1>1. CASE table = {}
    BY <1>1 DEF NextToken
<1>2. CASE table # {}
  <2> DEFINE S == {c.token : c \in table}
  <2>1. S \subseteq Nat /\ S # {} /\ (\A n \in S : n <= MaxToken) /\ MaxToken \in Nat
      BY <1>2, LaneAssumption DEF Numbered, Claim
  <2>2. \E n \in S : \A m \in S : m <= n
      BY <2>1, LargestExists
  <2>3. \E n \in S : \A c \in table : c.token <= n
      BY <2>2
  <2> HIDE DEF S
  <2>4. PICK n \in S : n = (CHOOSE k \in S : \A c \in table : c.token <= k) /\ \A c \in table : c.token <= n
      BY <2>3
  <2>5. NextToken = 1 + n
      BY <1>2, <2>4 DEF NextToken, S
  <2>6. n \in Nat /\ \A c \in table : c.token \in Nat
      BY <2>1, <2>4 DEF Numbered, Claim
  <2>7. ASSUME NEW c \in table PROVE c.token < 1 + n
    <3>1. c.token \in Nat /\ n \in Nat
        BY <2>6
    <3>2. c.token <= n
        BY <2>4
    <3>3. QED BY <3>1, <3>2
  <2>8. 1 + n \in Nat \ {0}
      BY <2>6
  <2>9. QED BY <2>5, <2>7, <2>8, Zenon
<1>3. QED BY <1>1, <1>2

LEMMA NewClaimType ==
    ASSUME FormedInv, NEW l \in Lanes, NEW region \in Regions
    PROVE  /\ NewClaim(l, region) \in OwnClaim(l)
           /\ NewClaim(l, region).lane = l
           /\ NewClaim(l, region).region = region
           /\ NewClaim(l, region).token = NextToken
           /\ NewClaim(l, region).until = now + Term
<1>1. NextToken \in Nat \ {0} /\ now + Term \in Nat
    BY NextTokenFresh, LaneAssumption DEF FormedInv
<1>2. QED BY <1>1 DEF NewClaim, OwnClaim, Claim

LEMMA PartNumbered ==
    ASSUME NEW claims, NEW part \in SUBSET claims, Numbered(claims)
    PROVE  Numbered(part)
BY DEF Numbered

LEMMA GrantNumbered ==
    ASSUME FormedInv, NEW l \in Lanes, NEW region \in Regions, NextToken <= MaxToken, NEW part \in SUBSET table
    PROVE  Numbered(part \cup {NewClaim(l, region)})
<1> DEFINE c == NewClaim(l, region)
<1>1. c \in Claim /\ c.token = NextToken
    BY NewClaimType DEF OwnClaim
<1>2. Numbered(part) /\ \A d \in part : d.token < NextToken
    BY PartNumbered, NextTokenFresh DEF FormedInv
<1>3. NextToken \in Nat /\ \A d \in part : d.token \in Nat
    BY NextTokenFresh, <1>2 DEF FormedInv, Numbered, Claim
<1> HIDE DEF c
<1>4. ASSUME NEW d \in part \cup {c}, NEW e \in part \cup {c}, d.token = e.token
      PROVE  d = e
    BY <1>1, <1>2, <1>3, <1>4 DEF Numbered
<1>5. \A d \in part \cup {c} : d \in Claim /\ d.token <= MaxToken
    BY <1>1, <1>2 DEF Numbered
<1>6. Numbered(part \cup {c})
    BY <1>4, <1>5 DEF Numbered
<1>7. QED BY <1>6 DEF c

LEMMA LeaveIsNoClaim == Leave \notin Claim /\ Leave.lane = Shared /\ \A c \in Claim : c.lane # Shared
BY SharedIsNoLane DEF Leave, Claim, Shared

LEMMA StartShape ==
    ASSUME NEW l, NEW todo \in Seq(Regions), NEW got \in Seq(Grants(l))
    PROVE  Shape(l, [step |-> "start", todo |-> todo, got |-> got])
BY DEF Shape

LEMMA WorkingShape ==
    ASSUME NEW l, NEW got \in Seq(Grants(l))
    PROVE  Shape(l, [step |-> "working", got |-> got])
BY DEF Shape

LEMMA RollbackShape ==
    ASSUME NEW l, NEW got \in Seq(Grants(l)), NEW gave \in Seq(Grants(l)), NEW s \in {"rollback", "refused"}
    PROVE  Shape(l, [step |-> s, got |-> got, gave |-> gave])
BY DEF Shape

LEMMA PlainShapes == \A l : Shape(l, Rest) /\ Shape(l, [step |-> "raised"])
BY DEF Shape

\* A window that is not in a call has the shape its step says.
LEMMA ShapeOf ==
    ASSUME NEW l, NEW o, Formed(l, o)
    PROVE  /\ o.step \notin InCall <=> Shape(l, o)
           /\ o.step \in InCall => Shape(l, o.then)
           /\ o.step = "start" => /\ o = [step |-> "start", todo |-> o.todo, got |-> o.got]
                                  /\ o.todo \in Seq(Regions) /\ o.got \in Seq(Grants(l))
           /\ o.step = "working" => o = [step |-> "working", got |-> o.got] /\ o.got \in Seq(Grants(l))
           /\ o.step \in {"rollback", "refused"} =>
                /\ o = [step |-> o.step, got |-> o.got, gave |-> o.gave]
                /\ o.got \in Seq(Grants(l)) /\ o.gave \in Seq(Grants(l))
           /\ o.step = "temporary" => Numbered(o.next)
           /\ o.step \in {"idle", "start", "temporary", "rename", "rollback", "refused", "raised",
                          "working"}
BY DEF Formed, Shape, Rest, InCall

\* The claims of one start: later ones run out no earlier, and have larger tokens than
\* those before them that are live at time t ...
Ladder(t, got) ==
    \A i, j \in 1 .. Len(got) :
        i < j /\ got[i] # Leave /\ got[j] # Leave =>
            /\ got[i].until <= got[j].until
            /\ t <= got[i].until => got[i].token < got[j].token

\* ... and each that is live at time t is among these claims, or a later one of its region is.
Covered(t, got, claims) ==
    \A i \in 1 .. Len(got) :
        got[i] # Leave /\ t <= got[i].until =>
            \E j \in i .. Len(got) : got[j] # Leave /\ got[j] \in claims /\ got[j].region = got[i].region

\* What a refused start still has to give back is what is left of its grants.
Owed(t, o, claims) ==
    \A k \in 1 .. Len(o.gave) :
        o.gave[k] \in claims /\ t <= o.gave[k].until =>
            o.step = "rollback" /\ \E j \in 1 .. Len(o.got) : o.got[j] = o.gave[k]

\* What a window may believe when the file shows these claims.
Keeps(t, o, claims) ==
    /\ o.step \in {"start", "working"} => Ladder(t, o.got) /\ Covered(t, o.got, claims)
    /\ o.step = "start" => \A i \in 1 .. Len(o.got) : o.got[i] # Leave => o.got[i].until <= t + Term
    /\ o.step \in {"rollback", "refused"} => Owed(t, o, claims)

\* A version of the table l is about to save leaves the live claims of other lanes alone,
\* and drops one of its own only for a newer one or in a release.
Spares(t, l, old, claims) ==
    /\ \A c \in claims \ old : c.lane = l
    /\ \A c \in old \ claims : t <= c.until => c.lane = l
Explained(t, l, old, claims, then) ==
    /\ \A c \in old \ claims : t <= c.until =>
         \/ then.step \in {"rollback", "working"}
         \/ \E d \in claims : d.lane = l /\ d.region = c.region
    /\ then.step = "working" => claims \subseteq old
Pending(t, l, old, claims, then) ==
    Spares(t, l, old, claims) /\ Explained(t, l, old, claims, then) /\ Keeps(t, then, claims)

\* What a window's call comes to in memory: a new place, or a version to save.  Only a
\* release by a reissued id saves something else than it decided on.
Effect(l) ==
    \/ \E o : /\ Continue(l, o) /\ Shape(l, o)
              /\ Keeps(now, win[l], table) => Keeps(now, o, table)
    \/ \E claims, then :
         /\ Saving(l, claims, then) /\ Shape(l, then) /\ Numbered(claims)
         /\ Keeps(now, win[l], table) =>
              /\ l \in crossed' \/ Pending(now, l, table, claims, then)
              /\ then.step = "working" => Keeps(now, then, table)

LEMMA PlainEffect ==
    ASSUME NEW l, NEW o, Continue(l, o), Shape(l, o), Keeps(now, win[l], table) => Keeps(now, o, table)
    PROVE  Effect(l)
BY DEF Effect

LEMMA SavingEffect ==
    ASSUME NEW l, NEW claims, NEW then, Saving(l, claims, then), Shape(l, then), Numbered(claims),
           Keeps(now, win[l], table) => Pending(now, l, table, claims, then),
           then.step # "working"
    PROVE  Effect(l)
BY DEF Effect

LEMMA IdleKeeps ==
    ASSUME NEW t, NEW o, NEW claims, o.step \in {"idle", "raised"}
    PROVE  Keeps(t, o, claims)
BY DEF Keeps

LEMMA SameTable ==
    ASSUME NEW t, NEW l, NEW old, NEW then, Keeps(t, then, old)
    PROVE  Pending(t, l, old, old, then)
BY DEF Pending, Spares, Explained

\* A grant is a claim of the lane exactly when it is not the leave.
LEMMA GrantKinds ==
    ASSUME NEW l \in Lanes, NEW g \in Grants(l)
    PROVE  /\ g.lane = Shared <=> g = Leave
           /\ g # Leave => g \in Claim /\ g.lane = l /\ g.token \in Nat /\ g.until \in Nat
BY LeaveIsNoClaim DEF Grants, OwnClaim, Claim

LEMMA AppendItems ==
    ASSUME NEW S, NEW s \in Seq(S), NEW e \in S
    PROVE  /\ Append(s, e) \in Seq(S) /\ Len(Append(s, e)) = Len(s) + 1 /\ Len(s) \in Nat
           /\ \A i \in 1 .. Len(s) : Append(s, e)[i] = s[i]
           /\ Append(s, e)[Len(s) + 1] = e
OBVIOUS

LEMMA TailItems ==
    ASSUME NEW S, NEW s \in Seq(S), s # <<>>
    PROVE  /\ Head(s) \in S /\ Head(s) = s[1] /\ Tail(s) \in Seq(S)
           /\ Len(s) \in Nat \ {0} /\ Len(Tail(s)) = Len(s) - 1
           /\ \A i \in 1 .. Len(s) - 1 : Tail(s)[i] = s[i + 1]
OBVIOUS

LEMMA StartEffect ==
    ASSUME FormedInv, NEW l \in Lanes, NEW regions \in Starts, Start(l, regions)
    PROVE  Effect(l)
<1> DEFINE o == [step |-> "start", todo |-> regions, got |-> <<>>]
<1>1. Shape(l, o)
  <2>1. regions \in Seq(Regions) /\ <<>> \in Seq(Grants(l))
      BY LaneAssumption
  <2>2. QED BY <2>1, StartShape
<1>2. Keeps(now, o, table)
    BY DEF Keeps, Ladder, Covered
<1>3. (Saving(l, table, o) \/ Continue(l, o)) /\ Numbered(table) /\ o.step # "working"
    BY DEF Start, FormedInv
<1> HIDE DEF o
<1>4. Pending(now, l, table, table, o)
    BY <1>2, SameTable
<1>5. QED BY <1>1, <1>2, <1>3, <1>4, PlainEffect, SavingEffect

LEMMA QuietEffect ==
    ASSUME FormedInv, NEW l \in Lanes, Started(l) \/ Answered(l) \/ ExpireStale(l)
    PROVE  Effect(l)
<1>f. Formed(l, win[l]) /\ Numbered(table)
    BY DEF FormedInv
<1>1. CASE Started(l)
  <2> DEFINE o == [step |-> "working", got |-> win[l].got]
  <2>1. win[l].step = "start" /\ Continue(l, o)
      BY <1>1 DEF Started
  <2>2. Shape(l, o)
      BY <1>f, <2>1, ShapeOf, WorkingShape
  <2>3. Keeps(now, win[l], table) => Keeps(now, o, table)
      BY <2>1 DEF Keeps
  <2>4. QED BY <2>1, <2>2, <2>3, PlainEffect
<1>2. CASE Answered(l)
  <2>1. Continue(l, Rest) /\ Shape(l, Rest) /\ Keeps(now, Rest, table)
      BY <1>2, PlainShapes, IdleKeeps DEF Answered, Rest
  <2>2. QED BY <2>1, PlainEffect
<1>3. CASE ExpireStale(l)
  <2> DEFINE kept == {c \in table : Live(c)}
  <2>1. Saving(l, kept, Rest) /\ Shape(l, Rest) /\ Keeps(now, Rest, kept) /\ Rest.step # "working"
      BY <1>3, PlainShapes, IdleKeeps DEF ExpireStale, Rest
  <2>2. Numbered(kept)
      BY <1>f, PartNumbered
  <2>3. Spares(now, l, table, kept) /\ Explained(now, l, table, kept, Rest)
      BY DEF Spares, Explained, Live, Rest
  <2>4. Pending(now, l, table, kept, Rest)
      BY <2>1, <2>3 DEF Pending
  <2> HIDE DEF kept
  <2>5. QED BY <2>1, <2>2, <2>4, SavingEffect
<1>4. QED BY <1>1, <1>2, <1>3

\* A grant that is added to those of a start keeps them in order ...
LEMMA LadderGrows ==
    ASSUME NEW l \in Lanes, NEW got \in Seq(Grants(l)), NEW g \in Grants(l), NEW t, Ladder(t, got),
           g # Leave => \A i \in 1 .. Len(got) : got[i] # Leave =>
                           got[i].until <= g.until /\ (t <= got[i].until => got[i].token < g.token)
    PROVE  Ladder(t, Append(got, g))
<1>1. /\ Len(Append(got, g)) = Len(got) + 1 /\ Len(got) \in Nat
      /\ \A i \in 1 .. Len(got) : Append(got, g)[i] = got[i]
      /\ Append(got, g)[Len(got) + 1] = g
    BY AppendItems
<1> DEFINE more == Append(got, g)
<1>2. ASSUME NEW i \in 1 .. Len(more), NEW j \in 1 .. Len(more), i < j, more[i] # Leave, more[j] # Leave
      PROVE  more[i].until <= more[j].until /\ (t <= more[i].until => more[i].token < more[j].token)
  <2>1. i \in 1 .. Len(got) /\ more[i] = got[i]
      BY <1>1, <1>2
  <2>2. CASE j \in 1 .. Len(got)
      BY <1>1, <1>2, <2>1, <2>2 DEF Ladder
  <2>3. CASE j = Len(got) + 1
      BY <1>1, <1>2, <2>1, <2>3
  <2>4. QED BY <1>1, <2>2, <2>3
<1>3. QED BY <1>2 DEF Ladder

\* ... and they stay covered when it takes the place of an older one of its region.
LEMMA CoverGrows ==
    ASSUME NEW l \in Lanes, NEW got \in Seq(Grants(l)), NEW g \in Grants(l), NEW t, NEW old, NEW claims,
           Covered(t, got, old),
           g # Leave => g \in claims,
           \A c \in old \ claims : c.lane = l => g # Leave /\ c.region = g.region
    PROVE  Covered(t, Append(got, g), claims)
<1>1. /\ Len(Append(got, g)) = Len(got) + 1 /\ Len(got) \in Nat
      /\ \A i \in 1 .. Len(got) : Append(got, g)[i] = got[i]
      /\ Append(got, g)[Len(got) + 1] = g
    BY AppendItems
<1> DEFINE more == Append(got, g)
<1> HIDE DEF more
<1>2. ASSUME NEW i \in 1 .. Len(more), more[i] # Leave, t <= more[i].until
      PROVE  \E j \in i .. Len(more) : more[j] # Leave /\ more[j] \in claims /\ more[j].region = more[i].region
  <2>1. CASE i = Len(got) + 1
      BY <1>1, <1>2, <2>1 DEF more
  <2>2. CASE i \in 1 .. Len(got)
    <3>1. PICK j \in i .. Len(got) : got[j] # Leave /\ got[j] \in old /\ got[j].region = got[i].region
        BY <1>1, <1>2, <2>2 DEF Covered, more
    <3>2. got[j].lane = l /\ j \in 1 .. Len(got) /\ j \in i .. Len(more) /\ more[j] = got[j] /\ more[i] = got[i]
      <4>1. j \in 1 .. Len(got) /\ got[j] \in Grants(l)
          BY <1>1, <2>2, <3>1
      <4>2. QED BY <1>1, <2>2, <3>1, <4>1, GrantKinds DEF more
    <3>3. CASE got[j] \in claims
        BY <3>1, <3>2, <3>3
    <3>4. CASE got[j] \notin claims
      <4>1. g # Leave /\ g.region = got[i].region
          BY <3>1, <3>2, <3>4
      <4>2. Len(got) + 1 \in i .. Len(more) /\ more[Len(got) + 1] = g
          BY <1>1, <2>2 DEF more
      <4>3. QED BY <3>2, <4>1, <4>2
    <3>5. QED BY <3>3, <3>4
  <2>3. QED BY <1>1, <1>2, <2>1, <2>2 DEF more
<1>3. QED BY <1>2 DEF Covered, more

LEMMA TakenGrant ==
    ASSUME NEW w, DOMAIN w = {"step", "todo", "got"}, w.step = "start", NEW x, NEW y
    PROVE  [w EXCEPT !.todo = x, !.got = y] = [step |-> "start", todo |-> x, got |-> y]
<1>1. [w EXCEPT !.todo = x, !.got = y] =
        [i \in DOMAIN w |-> IF i = "got" THEN y ELSE IF i = "todo" THEN x ELSE w[i]]
    OBVIOUS
<1>2. QED BY ONLY <1>1, DOMAIN w = {"step", "todo", "got"}, w.step = "start"

LEMMA ClaimNextEffect ==
    ASSUME FormedInv, NEW l \in Lanes, ClaimNext(l)
    PROVE  Effect(l)
<1> DEFINE region == Head(win[l].todo)
           taken(g) == [step |-> "start", todo |-> Tail(win[l].todo), got |-> Append(win[l].got, g)]
<1>1. /\ win[l].step = "start" /\ win[l].todo # <<>>
      /\ win[l] = [step |-> "start", todo |-> win[l].todo, got |-> win[l].got]
      /\ win[l].todo \in Seq(Regions) /\ win[l].got \in Seq(Grants(l))
    BY ShapeOf DEF ClaimNext, FormedInv
<1>2. region \in Regions /\ Tail(win[l].todo) \in Seq(Regions)
    BY <1>1, TailItems
<1>3. ASSUME NEW g
      PROVE  [win[l] EXCEPT !.todo = Tail(@), !.got = Append(@, g)] = taken(g)
  <2> DEFINE todo == Tail(win[l].todo)
             more == Append(win[l].got, g)
  <2>1. DOMAIN win[l] = {"step", "todo", "got"}
      BY ONLY <1>1
  <2> HIDE DEF todo, more
  <2>2. win[l].step = "start"
      BY <1>1
  <2>3. [win[l] EXCEPT !.todo = todo, !.got = more] = [step |-> "start", todo |-> todo, got |-> more]
    <3> DEFINE w == win[l]
    <3>1. DOMAIN w = {"step", "todo", "got"} /\ w.step = "start"
        BY <2>1, <2>2
    <3> HIDE DEF w
    <3>2. [w EXCEPT !.todo = todo, !.got = more] = [step |-> "start", todo |-> todo, got |-> more]
        BY ONLY <3>1, TakenGrant, ZenonT(60)
    <3>3. QED BY <3>2 DEF w
  <2>4. QED BY <2>3 DEF todo, more
<1>4. ASSUME NEW g \in Grants(l)
      PROVE  Shape(l, taken(g))
    BY <1>1, <1>2, <1>4, AppendItems, StartShape
<1>5. CASE Refused(l, region)
  <2> DEFINE o == [step |-> "rollback", got |-> win[l].got, gave |-> win[l].got]
  <2>1. Continue(l, o)
      BY <1>5 DEF ClaimNext
  <2>2. Shape(l, o)
      BY <1>1, RollbackShape
  <2>3. Keeps(now, o, table)
      BY DEF Keeps, Owed
  <2> HIDE DEF o
  <2>4. QED BY <2>1, <2>2, <2>3, PlainEffect
<1>6. CASE ~Refused(l, region) /\ OwnerOf(region) = Shared
  <2>1. Saving(l, table, taken(Leave))
      BY <1>3, <1>6 DEF ClaimNext, Leave
  <2>2. Leave \in Grants(l)
      BY DEF Grants
  <2>3. ASSUME Keeps(now, win[l], table)
        PROVE  Keeps(now, taken(Leave), table)
    <3>1. Ladder(now, win[l].got) /\ Covered(now, win[l].got, table)
          /\ \A i \in 1 .. Len(win[l].got) : win[l].got[i] # Leave => win[l].got[i].until <= now + Term
        BY <1>1, <2>3 DEF Keeps
    <3>2. Ladder(now, Append(win[l].got, Leave)) /\ Covered(now, Append(win[l].got, Leave), table)
        BY <1>1, <2>2, <3>1, LadderGrows, CoverGrows
    <3>3. \A i \in 1 .. Len(Append(win[l].got, Leave)) :
            Append(win[l].got, Leave)[i] # Leave => Append(win[l].got, Leave)[i].until <= now + Term
        BY <1>1, <2>2, <3>1, AppendItems
    <3>4. QED BY <3>2, <3>3 DEF Keeps
  <2>4. Shape(l, taken(Leave)) /\ Numbered(table) /\ taken(Leave).step # "working"
      BY <1>4, <2>2 DEF FormedInv
  <2> HIDE DEF taken
  <2>5. QED BY <1>1, <2>1, <2>3, <2>4, SameTable, SavingEffect
<1>7. CASE ~Refused(l, region) /\ OwnerOf(region) # Shared
  <2> DEFINE c == NewClaim(l, region)
             kept == {d \in table : ~Supersedes(d, l, region)}
             claims == kept \cup {c}
  <2>1. Saving(l, claims, taken(c)) /\ NextToken <= MaxToken
      BY <1>3, <1>7 DEF ClaimNext
  <2>2. /\ c \in OwnClaim(l) /\ c \in Claim /\ c.lane = l /\ c.region = region
        /\ c.token = NextToken /\ c.until = now + Term
      BY <1>2, NewClaimType DEF OwnClaim
  <2>3. c \in Grants(l) /\ c # Leave
      BY <2>2, LeaveIsNoClaim DEF Grants
  <2>4. Numbered(claims)
      BY <1>2, <2>1, GrantNumbered
  <2>5. \A d \in table \ claims : d.lane = l /\ d.region = region
      BY DEF Supersedes
  <2>6. Spares(now, l, table, claims) /\ Explained(now, l, table, claims, taken(c))
      BY <2>2, <2>5 DEF Spares, Explained
  <2>7. ASSUME Keeps(now, win[l], table)
        PROVE  Keeps(now, taken(c), claims)
    <3> DEFINE got == win[l].got
    <3>1. /\ got \in Seq(Grants(l)) /\ Ladder(now, got) /\ Covered(now, got, table)
          /\ \A i \in 1 .. Len(got) : got[i] # Leave => got[i].until <= now + Term
        BY <1>1, <2>7 DEF Keeps
    <3> HIDE DEF got, c, claims
    <3>2. ASSUME NEW i \in 1 .. Len(got), got[i] # Leave
          PROVE  got[i].until <= c.until /\ (now <= got[i].until => got[i].token < c.token)
      <4>1. got[i] \in Grants(l) /\ got[i].until <= now + Term /\ i \in Nat /\ Len(got) \in Nat
          BY <3>1, <3>2
      <4>2. got[i].until <= c.until
          BY <2>2, <4>1
      <4>3. ASSUME now <= got[i].until
            PROVE  got[i].token < c.token
        <5>1. got[i].token \in Nat
            BY <4>1, <3>2, GrantKinds
        <5>2. PICK j \in i .. Len(got) : got[j] # Leave /\ got[j] \in table /\ got[j].region = got[i].region
            BY <3>1, <3>2, <4>3 DEF Covered
        <5>3. got[j].token < NextToken /\ NextToken \in Nat /\ got[j].token \in Nat
            BY <5>2, NextTokenFresh DEF FormedInv, Numbered, Claim
        <5>4. i = j \/ got[i].token < got[j].token
            BY <3>1, <3>2, <4>1, <4>3, <5>2 DEF Ladder
        <5>5. QED BY <2>2, <5>1, <5>3, <5>4
      <4>4. QED BY <4>2, <4>3
    <3>3. Ladder(now, Append(got, c))
        BY <2>3, <3>1, <3>2, LadderGrows
    <3>4. c \in claims /\ \A d \in table \ claims : d.lane = l => c # Leave /\ d.region = c.region
        BY <2>2, <2>3, <2>5 DEF claims
    <3>5. Covered(now, Append(got, c), claims)
        BY <2>3, <3>1, <3>4, CoverGrows
    <3>6. \A i \in 1 .. Len(Append(got, c)) : Append(got, c)[i] # Leave => Append(got, c)[i].until <= now + Term
      <4>1. c.until <= now + Term
          BY <2>2, LaneAssumption DEF FormedInv
      <4>2. QED BY <2>3, <3>1, <4>1, AppendItems
    <3>7. QED BY <3>3, <3>5, <3>6 DEF Keeps, got
  <2>8. Shape(l, taken(c)) /\ taken(c).step # "working"
      BY <1>4, <2>3
  <2> HIDE DEF taken, c, claims
  <2>9. Keeps(now, win[l], table) => Pending(now, l, table, claims, taken(c))
      BY <2>6, <2>7 DEF Pending
  <2>10. QED BY <1>1, <2>1, <2>4, <2>8, <2>9, SavingEffect
<1>8. QED BY <1>5, <1>6, <1>7

\* Releasing the first grant: what the rest relies on stays, and the claim itself goes.
LEMMA TailOrdered ==
    ASSUME NEW l \in Lanes, NEW got \in Seq(Grants(l)), got # <<>>, NEW t, Ladder(t, got)
    PROVE  Ladder(t, Tail(got))
<1>1. /\ Tail(got) \in Seq(Grants(l)) /\ Len(got) \in Nat \ {0} /\ Len(Tail(got)) = Len(got) - 1
      /\ \A i \in 1 .. Len(got) - 1 : Tail(got)[i] = got[i + 1]
    BY TailItems
<1>2. ASSUME NEW i \in 1 .. Len(Tail(got)), NEW j \in 1 .. Len(Tail(got)), i < j,
             Tail(got)[i] # Leave, Tail(got)[j] # Leave
      PROVE  /\ Tail(got)[i].until <= Tail(got)[j].until
             /\ t <= Tail(got)[i].until => Tail(got)[i].token < Tail(got)[j].token
  <2>1. i + 1 \in 1 .. Len(got) /\ j + 1 \in 1 .. Len(got) /\ i + 1 < j + 1
      BY <1>1, <1>2
  <2>2. Tail(got)[i] = got[i + 1] /\ Tail(got)[j] = got[j + 1]
      BY <1>1
  <2>3. QED BY <1>2, <2>1, <2>2 DEF Ladder
<1>3. QED BY <1>2 DEF Ladder

LEMMA TailCovered ==
    ASSUME NEW l \in Lanes, NEW got \in Seq(Grants(l)), got # <<>>, NEW t, Ladder(t, got),
           NEW old, NEW claims, Covered(t, got, old),
           \A d \in old \ claims : Head(got) # Leave /\ d.token = Head(got).token /\ t <= Head(got).until
    PROVE  Covered(t, Tail(got), claims)
<1>1. /\ Len(got) \in Nat \ {0} /\ Len(Tail(got)) = Len(got) - 1 /\ Head(got) = got[1]
      /\ \A i \in 1 .. Len(got) - 1 : Tail(got)[i] = got[i + 1]
    BY TailItems
<1>2. ASSUME NEW i \in 1 .. Len(Tail(got)), Tail(got)[i] # Leave, t <= Tail(got)[i].until
      PROVE  \E j \in i .. Len(Tail(got)) :
                Tail(got)[j] # Leave /\ Tail(got)[j] \in claims /\ Tail(got)[j].region = Tail(got)[i].region
  <2>1. i + 1 \in 1 .. Len(got) /\ Tail(got)[i] = got[i + 1] /\ i \in Nat /\ i >= 1
      BY <1>1
  <2>2. PICK k \in i + 1 .. Len(got) : got[k] # Leave /\ got[k] \in old /\ got[k].region = got[i + 1].region
      BY <1>2, <2>1 DEF Covered
  <2>3. k - 1 \in i .. Len(Tail(got)) /\ Tail(got)[k - 1] = got[k] /\ k \in 1 .. Len(got) /\ 1 < k
      BY <1>1, <2>1, <2>2
  <2>4. got[k] \in claims
    <3>1. SUFFICES ASSUME got[k] \notin claims PROVE FALSE
        OBVIOUS
    <3>2. got[1] # Leave /\ got[k].token = got[1].token /\ t <= got[1].until
        BY <1>1, <2>2, <3>1
    <3>3. got[1].token < got[k].token
        BY <1>1, <2>2, <2>3, <3>2 DEF Ladder
    <3>4. got[1] \in Grants(l) /\ got[1].token \in Nat
        BY <1>1, <3>2, GrantKinds
    <3>5. QED BY <3>2, <3>3, <3>4
  <2>5. QED BY <2>1, <2>2, <2>3, <2>4
<1> DEFINE rest == Tail(got)
<1> HIDE DEF rest
<1>3. \A i \in 1 .. Len(rest) : rest[i] # Leave /\ t <= rest[i].until =>
         \E j \in i .. Len(rest) : rest[j] # Leave /\ rest[j] \in claims /\ rest[j].region = rest[i].region
    BY <1>2 DEF rest
<1>4. Covered(t, rest, claims)
    BY <1>3 DEF Covered
<1>5. QED BY <1>4 DEF rest

LEMMA TailOwed ==
    ASSUME NEW l \in Lanes, NEW o, o.step = "rollback", o.got \in Seq(Grants(l)), o.got # <<>>,
           NEW r, r.step = "rollback", r.got = Tail(o.got), r.gave = o.gave,
           NEW t, NEW old, NEW claims, Owed(t, o, old), claims \subseteq old,
           Head(o.got) \in claims => ~(t <= Head(o.got).until)
    PROVE  Owed(t, r, claims)
<1>1. /\ Len(o.got) \in Nat \ {0} /\ Len(r.got) = Len(o.got) - 1 /\ Head(o.got) = o.got[1]
      /\ \A i \in 1 .. Len(o.got) - 1 : r.got[i] = o.got[i + 1]
    BY TailItems
<1>2. ASSUME NEW k \in 1 .. Len(r.gave), r.gave[k] \in claims, t <= r.gave[k].until
      PROVE  \E j \in 1 .. Len(r.got) : r.got[j] = r.gave[k]
  <2>1. PICK j \in 1 .. Len(o.got) : o.got[j] = o.gave[k]
      BY <1>2 DEF Owed
  <2>2. j # 1
      BY <1>1, <1>2, <2>1
  <2>3. j - 1 \in 1 .. Len(r.got) /\ r.got[j - 1] = o.got[j]
      BY <1>1, <2>1, <2>2
  <2>4. QED BY <2>1, <2>3
<1>3. QED BY <1>2 DEF Owed

LEMMA RestRecord ==
    ASSUME NEW w, DOMAIN w = {"step", "got"}, w.step = "working", NEW x
    PROVE  [w EXCEPT !.got = x] = [step |-> "working", got |-> x]
<1>1. [w EXCEPT !.got = x] = [i \in DOMAIN w |-> IF i = "got" THEN x ELSE w[i]]
    OBVIOUS
<1>2. QED BY ONLY <1>1, DOMAIN w = {"step", "got"}, w.step = "working"

LEMMA RollbackRecord ==
    ASSUME NEW w, DOMAIN w = {"step", "got", "gave"}, w.step = "rollback", NEW x, NEW g, NEW v,
           w.got = g, w.gave = v
    PROVE  /\ [w EXCEPT !.got = x] = [step |-> "rollback", got |-> x, gave |-> v]
           /\ [w EXCEPT !.step = "refused"] = [step |-> "refused", got |-> g, gave |-> v]
<1>1. [w EXCEPT !.got = x] = [i \in DOMAIN w |-> IF i = "got" THEN x ELSE w[i]]
    OBVIOUS
<1>2. [w EXCEPT !.step = "refused"] = [i \in DOMAIN w |-> IF i = "step" THEN "refused" ELSE w[i]]
    OBVIOUS
<1>3. DOMAIN w = {"step", "got", "gave"} /\ w.step = "rollback" /\ w.got = g /\ w.gave = v
    OBVIOUS
<1>4. [w EXCEPT !.got = x] = [step |-> "rollback", got |-> x, gave |-> v]
    BY ONLY <1>1, <1>3
<1>5. [w EXCEPT !.step = "refused"] = [step |-> "refused", got |-> g, gave |-> v]
    BY ONLY <1>2, <1>3
<1>6. QED BY <1>4, <1>5

\* A release saves the table without its claim, or finds nothing to release.
LEMMA ReleaseEffect ==
    ASSUME FormedInv, NEW l \in Lanes, NEW c \in Grants(l), c # Leave,
           NEW then, Shape(l, then), then.step \in {"rollback", "working"}, Release(l, c, then),
           \A claims \in SUBSET table :
              /\ \A d \in table \ claims : d.token = c.token /\ Live(c)
              /\ then.step = "rollback" => (c \in claims => ~Live(c))
              /\ Keeps(now, win[l], table)
              => Keeps(now, then, claims)
    PROVE  Effect(l)
<1>1. c.lane = l /\ Numbered(table)
    BY GrantKinds DEF FormedInv
<1>2. CASE \E d \in table : SameId(c, d) /\ Live(d)
  <2> DEFINE claims == {d \in table : ~SameId(c, d)}
  <2>1. Saving(l, claims, then) /\ (c \in table \/ l \in crossed')
      BY <1>2 DEF Release
  <2>2. claims \in SUBSET table /\ c \notin claims
        /\ \A d \in table \ claims : d.lane = l /\ d.token = c.token
      BY <1>1 DEF SameId
  <2> HIDE DEF claims
  <2>3. Numbered(claims)
      BY <1>1, <2>2, PartNumbered
  <2>4. ASSUME Keeps(now, win[l], table)
        PROVE  l \in crossed' \/ Pending(now, l, table, claims, then)
    <3>1. CASE c \in table
      <4>1. Live(c)
          BY <1>1, <1>2, <3>1 DEF SameId, Numbered
      <4>2. Keeps(now, then, claims)
          BY <2>2, <2>4, <4>1
      <4>3. Spares(now, l, table, claims) /\ Explained(now, l, table, claims, then)
          BY <2>2 DEF Spares, Explained
      <4>4. QED BY <4>2, <4>3 DEF Pending
    <3>2. QED BY <2>1, <3>1
  <2>5. ASSUME Keeps(now, win[l], table), then.step = "working"
        PROVE  Keeps(now, then, table)
      BY <2>5
  <2>6. QED BY <2>1, <2>3, <2>4, <2>5 DEF Effect
<1>3. CASE ~\E d \in table : SameId(c, d) /\ Live(d)
  <2>1. Continue(l, then)
      BY <1>3 DEF Release
  <2>2. c \in table => ~Live(c)
      BY <1>3 DEF SameId
  <2>3. Keeps(now, win[l], table) => Keeps(now, then, table)
      BY <2>2
  <2>4. QED BY <2>1, <2>3, PlainEffect
<1>4. QED BY <1>2, <1>3

LEMMA FinishEffect ==
    ASSUME FormedInv, NEW l \in Lanes, Finish(l)
    PROVE  Effect(l)
<1> DEFINE got == win[l].got
           rest == [step |-> "working", got |-> Tail(got)]
<1>1. /\ win[l].step = "working"
      /\ win[l] = [step |-> "working", got |-> got] /\ got \in Seq(Grants(l))
    BY ShapeOf DEF Finish, FormedInv
<1>2. CASE got = <<>>
  <2>1. Continue(l, Rest) /\ Shape(l, Rest) /\ Keeps(now, Rest, table)
      BY <1>2, PlainShapes, IdleKeeps DEF Finish, Rest
  <2>2. QED BY <2>1, PlainEffect
<1>3. CASE got # <<>>
  <2>1. Head(got) \in Grants(l) /\ Tail(got) \in Seq(Grants(l))
      BY <1>1, <1>3, TailItems
  <2>2. [win[l] EXCEPT !.got = Tail(@)] = rest
    <3> DEFINE x == Tail(got)
    <3>1. DOMAIN win[l] = {"step", "got"}
        BY ONLY <1>1
    <3> HIDE DEF x
    <3>2. [win[l] EXCEPT !.got = x] = [step |-> "working", got |-> x]
        BY <1>1, <3>1, RestRecord
    <3>3. QED BY <3>2 DEF x
  <2>3. Shape(l, rest) /\ rest.step = "working" /\ rest.got = Tail(got)
      BY <2>1, WorkingShape
  <2>4. IF Head(got).lane = Shared THEN Continue(l, rest) ELSE Release(l, Head(got), rest)
      BY <1>3, <2>2 DEF Finish
  <2>5. ASSUME NEW claims \in SUBSET table, Keeps(now, win[l], table),
               \A d \in table \ claims : Head(got) # Leave /\ d.token = Head(got).token /\ Live(Head(got))
        PROVE  Keeps(now, rest, claims)
    <3>1. Ladder(now, got) /\ Covered(now, got, table)
        BY <1>1, <2>5 DEF Keeps
    <3>2. Ladder(now, Tail(got)) /\ Covered(now, Tail(got), claims)
        BY <1>1, <1>3, <2>5, <3>1, TailOrdered, TailCovered DEF Live
    <3>3. QED BY <2>3, <3>2 DEF Keeps
  <2> HIDE DEF got, rest
  <2>6. CASE Head(got).lane = Shared
    <3>1. Keeps(now, win[l], table) => Keeps(now, rest, table)
        BY <2>5
    <3>2. QED BY <2>3, <2>4, <2>6, <3>1, PlainEffect
  <2>7. CASE Head(got).lane # Shared
    <3>1. Head(got) # Leave
        BY <2>1, <2>7, GrantKinds
    <3>2. QED BY <1>1, <2>1, <2>3, <2>4, <2>5, <2>7, <3>1, ReleaseEffect
  <2>8. QED BY <2>6, <2>7
<1>4. QED BY <1>2, <1>3

LEMMA RollBackEffect ==
    ASSUME FormedInv, NEW l \in Lanes, RollBack(l)
    PROVE  Effect(l)
<1> DEFINE got == win[l].got
           gave == win[l].gave
           rest == [step |-> "rollback", got |-> Tail(got), gave |-> gave]
           over == [step |-> "refused", got |-> got, gave |-> gave]
<1>1. /\ win[l].step = "rollback"
      /\ win[l] = [step |-> "rollback", got |-> got, gave |-> gave]
      /\ got \in Seq(Grants(l)) /\ gave \in Seq(Grants(l))
    BY ShapeOf DEF RollBack, FormedInv
<1>2. [win[l] EXCEPT !.got = Tail(got)] = rest /\ [win[l] EXCEPT !.step = "refused"] = over
  <2> DEFINE x == Tail(got)
  <2>1. DOMAIN win[l] = {"step", "got", "gave"}
      BY ONLY <1>1
  <2> HIDE DEF x
  <2>2. /\ [win[l] EXCEPT !.got = x] = [step |-> "rollback", got |-> x, gave |-> gave]
        /\ [win[l] EXCEPT !.step = "refused"] = over
      BY <1>1, <2>1, RollbackRecord
  <2>3. QED BY <2>2 DEF x
<1>3. CASE got = <<>>
  <2>1. Continue(l, over) /\ Shape(l, over)
      BY <1>1, <1>2, <1>3, RollbackShape DEF RollBack
  <2>2. ASSUME Keeps(now, win[l], table)
        PROVE  Keeps(now, over, table)
    <3>1. Owed(now, win[l], table)
        BY <1>1, <2>2 DEF Keeps
    <3>2. Owed(now, over, table)
        BY <1>1, <1>3, <3>1 DEF Owed
    <3>3. QED BY <3>2 DEF Keeps
  <2> HIDE DEF over
  <2>3. QED BY <2>1, <2>2, PlainEffect
<1>4. CASE got # <<>> /\ Head(got).lane = Shared
  <2>1. Continue(l, [step |-> "raised"]) /\ Shape(l, [step |-> "raised"]) /\ Keeps(now, [step |-> "raised"], table)
      BY <1>4, PlainShapes, IdleKeeps DEF RollBack
  <2>2. QED BY <2>1, PlainEffect
<1>5. CASE got # <<>> /\ Head(got).lane # Shared
  <2>1. Head(got) \in Grants(l) /\ Tail(got) \in Seq(Grants(l)) /\ Head(got) # Leave
      BY <1>1, <1>5, TailItems, GrantKinds
  <2>2. Shape(l, rest) /\ rest.step = "rollback" /\ rest.got = Tail(got) /\ rest.gave = gave
      BY <1>1, <2>1, RollbackShape
  <2>3. Release(l, Head(got), rest)
      BY <1>2, <1>5 DEF RollBack
  <2>4. ASSUME NEW claims \in SUBSET table, Keeps(now, win[l], table), Head(got) \in claims => ~Live(Head(got))
        PROVE  Keeps(now, rest, claims)
    <3>1. Owed(now, win[l], table)
        BY <1>1, <2>4 DEF Keeps
    <3>2. Owed(now, rest, claims)
        BY <1>1, <1>5, <2>2, <2>4, <3>1, TailOwed DEF Live
    <3>3. QED BY <2>2, <3>2 DEF Keeps
  <2> HIDE DEF got, rest
  <2>5. QED BY <1>1, <2>1, <2>2, <2>3, <2>4, ReleaseEffect
<1>6. QED BY <1>3, <1>4, <1>5


LEMMA CallEffect ==
    ASSUME FormedInv, NEW l \in Lanes,
           \/ \E regions \in Starts : Start(l, regions)
           \/ ClaimNext(l) \/ Started(l) \/ RollBack(l) \/ Finish(l) \/ Answered(l) \/ ExpireStale(l) \/ Crash(l)
    PROVE  /\ Effect(l) /\ UNCHANGED <<table, tmp, now, astray>>
           /\ \A k \in Lanes \ {l} : k \in crossed' <=> k \in crossed
           /\ Crash(l) \/ crossed \subseteq crossed'
<1>1. Effect(l)
  <2>1. CASE Crash(l)
    <3>1. Continue(l, Rest) /\ Shape(l, Rest) /\ Keeps(now, Rest, table)
        BY <2>1, PlainShapes, IdleKeeps DEF Crash, Rest
    <3>2. QED BY <3>1, PlainEffect
  <2>2. CASE \E regions \in Starts : Start(l, regions)
      BY <2>2, StartEffect
  <2>3. QED BY <2>1, <2>2, ClaimNextEffect, QuietEffect, RollBackEffect, FinishEffect
<1>2. /\ UNCHANGED <<table, tmp, now, astray>>
      /\ \A k \in Lanes \ {l} : k \in crossed' <=> k \in crossed
      /\ Crash(l) \/ crossed \subseteq crossed'
    BY DEF Start, ClaimNext, Started, RollBack, Finish, Answered, ExpireStale, Crash, Release
<1>3. QED BY <1>1, <1>2

\* One window moves on, the others stay.
LEMMA OneMoves ==
    ASSUME FormedInv, NEW l \in Lanes, NEW o, Continue(l, o)
    PROVE  /\ win' = [k \in Lanes |-> win'[k]] /\ win'[l] = o
           /\ \A k \in Lanes \ {l} : win'[k] = win[k]
BY DEF FormedInv, Continue

LEMMA FormedMoves ==
    ASSUME FormedInv, NEW l \in Lanes, NEW o, Continue(l, o), Formed(l, o),
           now' \in Nat, Numbered(table'), \A claims \in tmp' : Numbered(claims)
    PROVE  FormedInv'
<1>1. /\ win' = [k \in Lanes |-> win'[k]] /\ win'[l] = o
      /\ \A k \in Lanes \ {l} : win'[k] = win[k]
    BY OneMoves
<1>2. \A k \in Lanes : Formed(k, win[k])
    BY DEF FormedInv
<1>3. \A k \in Lanes : Formed(k, win'[k])
    BY <1>1, <1>2
<1>4. QED BY <1>1, <1>3 DEF FormedInv

LEMMA FormedStep == FormedInv /\ [LaneNext]_laneVars => FormedInv'
<1> SUFFICES ASSUME FormedInv, [LaneNext]_laneVars
             PROVE  FormedInv'
    OBVIOUS
<1>i. now \in Nat /\ Numbered(table) /\ (\A claims \in tmp : Numbered(claims)) /\ \A k \in Lanes : Formed(k, win[k])
    BY DEF FormedInv
<1>1. CASE UNCHANGED laneVars
    BY <1>1 DEF laneVars, FormedInv
<1>2. CASE Tick
  <2>1. now + 1 \in Nat /\ now' = now + 1 /\ UNCHANGED <<table, tmp, win>>
      BY <1>2, <1>i DEF Tick
  <2>2. QED BY <2>1 DEF FormedInv
<1>3. ASSUME NEW l \in Lanes, UNCHANGED <<table, tmp, now>>, Effect(l)
      PROVE  FormedInv'
  <2>1. CASE \E o : Continue(l, o) /\ Shape(l, o)
      BY <1>3, <1>i, <2>1, FormedMoves DEF Formed
  <2>2. CASE \E claims, then : Saving(l, claims, then) /\ Shape(l, then) /\ Numbered(claims)
    <3>1. PICK claims, then : Saving(l, claims, then) /\ Shape(l, then) /\ Numbered(claims)
        BY <2>2
    <3> DEFINE o == [step |-> "temporary", next |-> claims, then |-> then]
    <3>2. Continue(l, o) /\ Formed(l, o)
        BY <3>1 DEF Saving, Formed
    <3> HIDE DEF o
    <3>3. QED BY <1>3, <1>i, <3>2, FormedMoves
  <2>3. QED BY <1>3, <2>1, <2>2 DEF Effect
<1>5. ASSUME NEW l \in Lanes, WriteTemporary(l)
      PROVE  FormedInv'
  <2> DEFINE o == [step |-> "rename", then |-> win[l].then]
  <2>1. win[l].step = "temporary" /\ tmp' = {win[l].next} /\ UNCHANGED <<table, now>> /\ Continue(l, o)
      BY <1>5 DEF WriteTemporary
  <2>2. Formed(l, o) /\ Numbered(win[l].next)
      BY <1>i, <2>1, ShapeOf DEF Formed, InCall
  <2> HIDE DEF o
  <2>3. QED BY <1>i, <2>1, <2>2, FormedMoves
<1>6. ASSUME NEW l \in Lanes, Rename(l)
      PROVE  FormedInv'
  <2>1. win[l].step \in InCall /\ Shape(l, win[l].then) /\ Shape(l, [step |-> "raised"])
      BY <1>6, <1>i, ShapeOf, PlainShapes DEF Rename, InCall
  <2>2. /\ UNCHANGED now /\ (Continue(l, win[l].then) \/ Continue(l, [step |-> "raised"]))
        /\ (table' \in tmp /\ tmp' = {}) \/ UNCHANGED <<table, tmp>>
      BY <1>6 DEF Rename
  <2>3. Numbered(table') /\ \A claims \in tmp' : Numbered(claims)
      BY <1>i, <2>2
  <2>4. QED BY <1>i, <2>1, <2>2, <2>3, FormedMoves DEF Formed
<1>7. QED
    BY <1>1, <1>2, <1>3, <1>5, <1>6, CallEffect DEF LaneNext

LEMMA FormedInitial == LaneInit => FormedInv
BY DEF LaneInit, FormedInv, Numbered, Formed, Shape, Rest

HistoryFits == crossed \subseteq Lanes /\ astray \in BOOLEAN

LEMMA HistoryStep == HistoryFits /\ [LaneNext]_laneVars => HistoryFits'
<1> SUFFICES ASSUME HistoryFits, [LaneNext]_laneVars
             PROVE  HistoryFits'
    OBVIOUS
<1>1. CASE Tick \/ UNCHANGED laneVars
    BY <1>1 DEF HistoryFits, Tick, laneVars
<1>2. ASSUME NEW l \in Lanes,
             \/ \E regions \in Starts : Start(l, regions)
             \/ ClaimNext(l) \/ Started(l) \/ RollBack(l) \/ Finish(l) \/ Answered(l) \/ ExpireStale(l)
      PROVE  HistoryFits'
    BY <1>2 DEF HistoryFits, Start, ClaimNext, Started, RollBack, Finish, Answered, ExpireStale, Release
<1>3. ASSUME NEW l \in Lanes, WriteTemporary(l) \/ Rename(l) \/ Crash(l)
      PROVE  HistoryFits'
    BY <1>3 DEF HistoryFits, WriteTemporary, Rename, Crash
<1>4. QED BY <1>1, <1>2, <1>3 DEF LaneNext

\* Whatever the windows do, the file and what they are doing stay well formed; the file
\* never shows one fencing token twice, even when races lose claims.
THEOREM LaneTypeCorrect == LaneSpec => []LaneTypeOK
<1>1. FormedInv /\ HistoryFits => LaneTypeOK
    BY ShapeOf DEF FormedInv, HistoryFits, LaneTypeOK, Numbered
<1>2. LaneInit => HistoryFits
    BY DEF LaneInit, HistoryFits
<1>3. QED BY <1>1, <1>2, FormedInitial, FormedStep, HistoryStep, PTL DEF LaneSpec



-----------------------------------------------------------------------------
(* The guarantees of window_lane.py, until a call is saved over a table it has not loaded. *)

\* What a window relies on: between its calls, and in one the claims of the start it works under.
Steady(t, o, claims) ==
    /\ o.step \notin InCall => Keeps(t, o, claims)
    /\ o.step \in InCall /\ o.then.step = "working" => Keeps(t, o.then, claims)

\* What a call that nobody has crossed is about to save.
Own(t, l, o, claims, files) ==
    /\ o.step = "temporary" => Pending(t, l, claims, o.next, o.then)
    /\ o.step = "rename" => \E saved : files = {saved} /\ Pending(t, l, claims, saved, o.then)

Dependable(t, l, o, claims, files, cross) ==
    Steady(t, o, claims) /\ (l \notin cross => Own(t, l, o, claims, files))

\* Of two windows about to rename the one temporary file, one knows that it is not its own.
SteadyInv ==
    /\ FormedInv
    /\ LaneInv
    /\ \A k, l \in Lanes :
         k # l /\ win[k].step = "rename" /\ win[l].step = "rename" => k \in crossed \/ l \in crossed
    /\ ~astray => \A l \in Lanes : Dependable(now, l, win[l], table, tmp, crossed)

\* What one window saves leaves alone what another relies on.
LEMMA SparedKeeps ==
    ASSUME NEW k \in Lanes, NEW l \in Lanes, k # l, NEW o, Shape(k, o),
           NEW t \in Nat, NEW old, NEW claims, Keeps(t, o, old), Spares(t, l, old, claims)
    PROVE  Keeps(t, o, claims)
<1>f. Formed(k, o)
    BY DEF Formed
<1>1. ASSUME o.step \in {"start", "working"}
      PROVE  Covered(t, o.got, claims)
  <2> DEFINE got == o.got
  <2>1. got \in Seq(Grants(k)) /\ Ladder(t, got) /\ Covered(t, got, old)
      BY <1>f, <1>1, ShapeOf DEF Keeps
  <2> HIDE DEF got
  <2>2. ASSUME NEW i \in 1 .. Len(got), got[i] # Leave, t <= got[i].until
        PROVE  \E j \in i .. Len(got) : got[j] # Leave /\ got[j] \in claims /\ got[j].region = got[i].region
    <3>1. PICK j \in i .. Len(got) : got[j] # Leave /\ got[j] \in old /\ got[j].region = got[i].region
        BY <2>1, <2>2 DEF Covered
    <3>2. j \in 1 .. Len(got) /\ Len(got) \in Nat /\ i \in Nat /\ j \in Nat /\ (i = j \/ i < j)
        BY <2>1, <3>1
    <3>3. got[j] \in Grants(k) /\ got[i] \in Grants(k) /\ (i = j \/ got[i].until <= got[j].until)
        BY <2>1, <2>2, <3>1, <3>2 DEF Ladder
    <3>4. got[j].lane = k /\ got[i].until \in Nat /\ got[j].until \in Nat
        BY <2>2, <3>1, <3>3, GrantKinds
    <3>5. t <= got[j].until
        BY <2>2, <3>3, <3>4
    <3>6. got[j] \in claims
        BY <3>1, <3>4, <3>5 DEF Spares
    <3>7. QED BY <3>1, <3>6
  <2>3. Covered(t, got, claims)
      BY <2>2 DEF Covered
  <2>4. QED BY <2>3 DEF got
<1>2. ASSUME o.step \in {"rollback", "refused"}
      PROVE  Owed(t, o, claims)
  <2>1. o.gave \in Seq(Grants(k)) /\ Owed(t, o, old)
      BY <1>f, <1>2, ShapeOf DEF Keeps
  <2>2. ASSUME NEW i \in 1 .. Len(o.gave), o.gave[i] \in claims
        PROVE  o.gave[i] \in old
    <3>1. o.gave[i] \in Grants(k)
        BY <2>1
    <3>2. o.gave[i].lane # l
        BY <3>1, GrantKinds, LeaveIsNoClaim, SharedIsNoLane DEF Shared
    <3>3. QED BY <2>2, <3>2 DEF Spares
  <2>3. QED BY <2>1, <2>2 DEF Owed
<1>3. QED BY <1>1, <1>2 DEF Keeps

\* Time only takes claims away from what a window relies on ...
LEMMA LaterKeeps ==
    ASSUME NEW l \in Lanes, NEW o, Shape(l, o), NEW t \in Nat, NEW claims \in SUBSET Claim, Keeps(t, o, claims)
    PROVE  Keeps(t + 1, o, claims)
<1>f. Formed(l, o)
    BY DEF Formed
<1>1. ASSUME o.step \in {"start", "working"}
      PROVE  Ladder(t + 1, o.got) /\ Covered(t + 1, o.got, claims)
  <2>1. o.got \in Seq(Grants(l)) /\ Ladder(t, o.got) /\ Covered(t, o.got, claims)
      BY <1>f, <1>1, ShapeOf DEF Keeps
  <2>2. ASSUME NEW i \in 1 .. Len(o.got), o.got[i] # Leave, t + 1 <= o.got[i].until
        PROVE  t <= o.got[i].until
    <3>1. o.got[i] \in Grants(l)
        BY <2>1
    <3>2. o.got[i].until \in Nat
        BY <2>2, <3>1, GrantKinds
    <3>3. QED BY <2>2, <3>2
  <2>3. Ladder(t + 1, o.got)
      BY <2>1, <2>2 DEF Ladder
  <2>4. Covered(t + 1, o.got, claims)
      BY <2>1, <2>2 DEF Covered
  <2>5. QED BY <2>3, <2>4
<1>2. ASSUME o.step = "start", NEW i \in 1 .. Len(o.got), o.got[i] # Leave
      PROVE  o.got[i].until <= t + 1 + Term
  <2>1. o.got \in Seq(Grants(l)) /\ o.got[i].until <= t + Term
      BY <1>f, <1>2, ShapeOf DEF Keeps
  <2>2. o.got[i] \in Grants(l)
      BY <2>1
  <2>3. o.got[i].until \in Nat
      BY <1>2, <2>2, GrantKinds
  <2>4. QED BY <2>1, <2>3, LaneAssumption
<1>3. ASSUME o.step \in {"rollback", "refused"}
      PROVE  Owed(t + 1, o, claims)
  <2>1. Owed(t, o, claims)
      BY <1>3 DEF Keeps
  <2>2. \A c \in claims : t + 1 <= c.until => t <= c.until
      BY DEF Claim
  <2>3. QED BY <2>1, <2>2 DEF Owed
<1>4. QED BY <1>1, <1>2, <1>3 DEF Keeps

\* ... and from what a call may not take.
LEMMA LaterPending ==
    ASSUME NEW l \in Lanes, NEW then, Shape(l, then), NEW t \in Nat,
           NEW old \in SUBSET Claim, NEW claims \in SUBSET Claim, Pending(t, l, old, claims, then)
    PROVE  Pending(t + 1, l, old, claims, then)
<1>1. \A c \in old : t + 1 <= c.until => t <= c.until
    BY DEF Claim
<1>2. Keeps(t + 1, then, claims)
    BY LaterKeeps DEF Pending
<1>3. QED BY <1>1, <1>2 DEF Pending, Spares, Explained

LEMMA LaterDependable ==
    ASSUME FormedInv, NEW l \in Lanes, Dependable(now, l, win[l], table, tmp, crossed)
    PROVE  Dependable(now + 1, l, win[l], table, tmp, crossed)
<1>1. /\ now \in Nat /\ table \in SUBSET Claim /\ Formed(l, win[l])
      /\ \A claims \in tmp : claims \in SUBSET Claim
    BY DEF FormedInv, Numbered
<1>2. /\ win[l].step \notin InCall => Shape(l, win[l])
      /\ win[l].step \in InCall => Shape(l, win[l].then)
      /\ win[l].step = "temporary" => win[l].next \in SUBSET Claim
    BY <1>1, ShapeOf DEF Numbered
<1>3. Steady(now + 1, win[l], table)
    BY <1>1, <1>2, LaterKeeps DEF Dependable, Steady
<1>4. ASSUME l \notin crossed
      PROVE  Own(now + 1, l, win[l], table, tmp)
  <2>1. Own(now, l, win[l], table, tmp)
      BY <1>4 DEF Dependable
  <2>2. CASE win[l].step = "temporary"
      BY <1>1, <1>2, <2>1, <2>2, LaterPending DEF Own, InCall
  <2>3. CASE win[l].step = "rename"
    <3>1. PICK saved : tmp = {saved} /\ Pending(now, l, table, saved, win[l].then)
        BY <2>1, <2>3 DEF Own
    <3>2. saved \in SUBSET Claim
        BY <1>1, <3>1
    <3>3. Pending(now + 1, l, table, saved, win[l].then)
        BY <1>1, <1>2, <2>3, <3>1, <3>2, LaterPending DEF InCall
    <3>4. QED BY <2>3, <3>1, <3>3 DEF Own
  <2>4. QED BY <2>2, <2>3 DEF Own
<1>5. QED BY <1>3, <1>4 DEF Dependable

LEMMA SteadyInitial == LaneInit => SteadyInv
<1> SUFFICES ASSUME LaneInit PROVE SteadyInv
    OBVIOUS
<1>1. \A l \in Lanes : win[l] = Rest
    BY DEF LaneInit
<1>2. \A l \in Lanes : Dependable(now, l, win[l], table, tmp, crossed)
    BY <1>1, IdleKeeps DEF Dependable, Steady, Own, Rest, InCall
<1>3. QED BY <1>1, <1>2, FormedInitial, LaneInitial DEF SteadyInv, Rest

\* A call in memory, or a crash: the caller moves, the others rely on what they did.
LEMMA CallSteady ==
    ASSUME SteadyInv, FormedInv', LaneInv', NEW l \in Lanes,
           \/ \E regions \in Starts : Start(l, regions)
           \/ ClaimNext(l) \/ Started(l) \/ RollBack(l) \/ Finish(l) \/ Answered(l) \/ ExpireStale(l) \/ Crash(l)
    PROVE  SteadyInv'
<1>i. FormedInv
    BY DEF SteadyInv
<1>1. /\ Effect(l) /\ UNCHANGED <<table, tmp, now, astray>>
      /\ \A k \in Lanes \ {l} : k \in crossed' <=> k \in crossed
    BY <1>i, CallEffect
<1>2. Crash(l) \/ win[l].step \notin InCall
    BY DEF InCall, Start, ClaimNext, Started, RollBack, Finish, Answered, ExpireStale
<1>3. PICK o : Continue(l, o)
    BY <1>1 DEF Effect, Saving
<1>4. win'[l] = o /\ \A k \in Lanes \ {l} : win'[k] = win[k]
    BY <1>i, <1>3, OneMoves
<1>5. win'[l].step # "rename" /\ (~astray => Dependable(now, l, win'[l], table, tmp, crossed'))
  <2>1. CASE Crash(l)
    <3>1. win'[l] = Rest
        BY <1>i, <2>1, OneMoves DEF Crash
    <3>2. QED BY <3>1, IdleKeeps DEF Dependable, Steady, Own, Rest, InCall
  <2>2. CASE win[l].step \notin InCall /\ \E p : Continue(l, p) /\ Shape(l, p) /\ (Keeps(now, win[l], table) => Keeps(now, p, table))
    <3>1. PICK p : Continue(l, p) /\ Shape(l, p) /\ (Keeps(now, win[l], table) => Keeps(now, p, table))
        BY <2>2
    <3>2. win'[l] = p /\ p.step \notin InCall
        BY <1>i, <3>1, OneMoves, ShapeOf DEF Formed
    <3>3. ~astray => Keeps(now, p, table)
        BY <2>2, <3>1 DEF SteadyInv, Dependable, Steady
    <3>4. QED BY <3>2, <3>3 DEF Dependable, Steady, Own, InCall
  <2>3. CASE /\ win[l].step \notin InCall
             /\ \E claims, then :
                   /\ Saving(l, claims, then)
                   /\ Keeps(now, win[l], table) =>
                        /\ l \in crossed' \/ Pending(now, l, table, claims, then)
                        /\ then.step = "working" => Keeps(now, then, table)
    <3>1. PICK claims, then :
                   /\ Saving(l, claims, then)
                   /\ Keeps(now, win[l], table) =>
                        /\ l \in crossed' \/ Pending(now, l, table, claims, then)
                        /\ then.step = "working" => Keeps(now, then, table)
        BY <2>3
    <3> DEFINE p == [step |-> "temporary", next |-> claims, then |-> then]
    <3>2. win'[l] = p
        BY <1>i, <3>1, OneMoves DEF Saving
    <3>3. p.step = "temporary" /\ p.next = claims /\ p.then = then
        OBVIOUS
    <3> HIDE DEF p
    <3>4. ~astray => Keeps(now, win[l], table)
        BY <2>3 DEF SteadyInv, Dependable, Steady
    <3>5. ASSUME ~astray
          PROVE  Dependable(now, l, p, table, tmp, crossed')
      <4>1. Steady(now, p, table)
          BY <3>1, <3>3, <3>4, <3>5 DEF Steady, InCall
      <4>2. l \notin crossed' => Own(now, l, p, table, tmp)
          BY <3>1, <3>3, <3>4, <3>5 DEF Own
      <4>3. QED BY <4>1, <4>2 DEF Dependable
    <3>6. QED BY <3>2, <3>3, <3>5
  <2>4. QED BY <1>1, <1>2, <2>1, <2>2, <2>3 DEF Effect
<1>6. ~astray => \A k \in Lanes : Dependable(now, k, win'[k], table, tmp, crossed')
    BY <1>1, <1>4, <1>5 DEF SteadyInv, Dependable
<1>7. ASSUME NEW j \in Lanes, NEW k \in Lanes, j # k, win'[j].step = "rename", win'[k].step = "rename"
      PROVE  j \in crossed' \/ k \in crossed'
  <2>1. j # l /\ k # l
      BY <1>5, <1>7
  <2>2. QED BY <1>1, <1>4, <1>7, <2>1 DEF SteadyInv
<1>8. QED BY <1>1, <1>6, <1>7 DEF SteadyInv

LEMMA WriteSteady ==
    ASSUME SteadyInv, FormedInv', LaneInv', NEW l \in Lanes, WriteTemporary(l)
    PROVE  SteadyInv'
<1> DEFINE o == [step |-> "rename", then |-> win[l].then]
<1>i. FormedInv
    BY DEF SteadyInv
<1>1. /\ win[l].step = "temporary" /\ tmp' = {win[l].next} /\ UNCHANGED <<table, now, astray>>
      /\ crossed' = crossed \cup {k \in Lanes \ {l} : win[k].step = "rename"}
    BY DEF WriteTemporary
<1>2. win'[l] = o /\ \A k \in Lanes \ {l} : win'[k] = win[k]
    BY <1>i, OneMoves DEF WriteTemporary
<1>3. o.step = "rename" /\ o.then = win[l].then
    OBVIOUS
<1> HIDE DEF o
<1>4. ASSUME ~astray
      PROVE  Dependable(now, l, o, table, tmp', crossed')
  <2>1. Dependable(now, l, win[l], table, tmp, crossed)
      BY <1>4 DEF SteadyInv
  <2>2. Steady(now, o, table)
      BY <1>1, <1>3, <2>1 DEF Dependable, Steady, InCall
  <2>3. l \notin crossed' => Own(now, l, o, table, tmp')
      BY <1>1, <1>3, <2>1 DEF Dependable, Own
  <2>4. QED BY <2>2, <2>3 DEF Dependable
<1>5. ASSUME ~astray, NEW k \in Lanes \ {l}
      PROVE  Dependable(now, k, win[k], table, tmp', crossed')
  <2>1. Dependable(now, k, win[k], table, tmp, crossed)
      BY <1>5 DEF SteadyInv
  <2>2. k \notin crossed' => k \notin crossed /\ win[k].step # "rename"
      BY <1>1
  <2>3. QED BY <2>1, <2>2 DEF Dependable, Own
<1>6. ASSUME NEW j \in Lanes, NEW k \in Lanes, j # k, win'[j].step = "rename", win'[k].step = "rename"
      PROVE  j \in crossed' \/ k \in crossed'
    BY <1>1, <1>2, <1>6
<1>7. QED BY <1>1, <1>2, <1>4, <1>5, <1>6 DEF SteadyInv

LEMMA RenameSteady ==
    ASSUME SteadyInv, FormedInv', LaneInv', NEW l \in Lanes, Rename(l)
    PROVE  SteadyInv'
<1>i. FormedInv /\ Formed(l, win[l])
    BY DEF SteadyInv, FormedInv
<1>1. win[l].step = "rename" /\ UNCHANGED now
      /\ crossed' = (IF table' = table THEN crossed ELSE {k \in Lanes : InFlight(k)}) \ {l}
    BY DEF Rename
<1>2. \/ /\ tmp # {} /\ table' \in tmp /\ tmp' = {} /\ Continue(l, win[l].then)
         /\ astray' = (astray \/ l \in crossed)
      \/ /\ tmp = {} /\ UNCHANGED <<table, tmp, astray>> /\ Continue(l, [step |-> "raised"])
    BY DEF Rename
<1>3. PICK o : Continue(l, o)
    BY <1>2
<1>4. win'[l] = o /\ \A k \in Lanes \ {l} : win'[k] = win[k]
    BY <1>i, <1>3, OneMoves
<1>5. Shape(l, o) /\ o.step \notin InCall
  <2>1. Shape(l, win[l].then) /\ Shape(l, [step |-> "raised"])
      BY <1>1, <1>i, ShapeOf, PlainShapes DEF InCall
  <2>2. o = win[l].then \/ o = [step |-> "raised"]
      BY <1>i, <1>2, <1>4, OneMoves
  <2>3. Shape(l, o)
      BY <2>1, <2>2
  <2>4. QED BY <2>3, ShapeOf DEF Formed
<1>6. ASSUME NEW j \in Lanes, NEW k \in Lanes, j # k, win'[j].step = "rename", win'[k].step = "rename"
      PROVE  j \in crossed' \/ k \in crossed'
  <2>1. j # l /\ k # l
      BY <1>4, <1>5, <1>6 DEF InCall
  <2>2. win[j].step = "rename" /\ win[k].step = "rename"
      BY <1>4, <1>6, <2>1
  <2>3. (j \in crossed \/ k \in crossed) /\ InFlight(j) /\ InFlight(k)
      BY <1>6, <2>2 DEF SteadyInv, InFlight
  <2>4. QED BY <1>1, <2>1, <2>3
<1>7. ASSUME ~astray'
      PROVE  \A k \in Lanes : Dependable(now, k, win'[k], table', tmp', crossed')
  <2>0. \A k \in Lanes : Dependable(now, k, win[k], table, tmp, crossed)
      BY <1>2, <1>7 DEF SteadyInv
  <2>1. CASE tmp = {}
    <3>1. o = [step |-> "raised"]
        BY <1>i, <1>2, <1>4, <2>1, OneMoves
    <3>2. Dependable(now, l, o, table', tmp', crossed')
        BY <3>1, IdleKeeps DEF Dependable, Steady, Own, InCall
    <3>3. \A k \in Lanes \ {l} : Dependable(now, k, win[k], table', tmp', crossed')
        BY <1>1, <1>2, <2>0, <2>1 DEF Dependable
    <3>4. QED BY <1>4, <3>2, <3>3
  <2>2. CASE tmp # {}
    <3>1. o = win[l].then /\ l \notin crossed /\ table' \in tmp /\ tmp' = {}
        BY <1>i, <1>2, <1>4, <1>7, <2>2, OneMoves
    <3>2. Pending(now, l, table, table', o)
        BY <1>1, <2>0, <3>1 DEF Dependable, Own
    <3>3. Dependable(now, l, o, table', tmp', crossed')
        BY <1>5, <3>2 DEF Dependable, Steady, Own, Pending, InCall
    <3>4. ASSUME NEW k \in Lanes \ {l}
          PROVE  Dependable(now, k, win[k], table', tmp', crossed')
      <4>1. Formed(k, win[k]) /\ now \in Nat /\ Spares(now, l, table, table')
          BY <1>i, <3>2 DEF FormedInv, Pending
      <4>2. Steady(now, win[k], table')
        <5>1. Steady(now, win[k], table)
            BY <2>0 DEF Dependable
        <5>2. /\ win[k].step \notin InCall => Shape(k, win[k])
              /\ win[k].step \in InCall => Shape(k, win[k].then)
            BY <4>1, ShapeOf
        <5>3. QED BY <4>1, <5>1, <5>2, SparedKeeps DEF Steady
      <4>3. ASSUME k \notin crossed'
            PROVE  Own(now, k, win[k], table', tmp')
        <5>1. CASE table' = table
          <6>1. k \notin crossed /\ (win[k].step = "rename" => k \in crossed)
              BY <1>1, <3>1, <4>3, <5>1 DEF SteadyInv
          <6>2. QED BY <2>0, <5>1, <6>1 DEF Dependable, Own
        <5>2. CASE table' # table
          <6>1. ~InFlight(k)
              BY <1>1, <4>3, <5>2
          <6>2. QED BY <6>1 DEF Own, InFlight
        <5>3. QED BY <5>1, <5>2
      <4>4. QED BY <4>2, <4>3 DEF Dependable
    <3>5. QED BY <1>4, <3>3, <3>4
  <2>3. QED BY <2>1, <2>2
<1>8. QED BY <1>1, <1>6, <1>7 DEF SteadyInv

LEMMA SteadyStep == SteadyInv /\ [LaneNext]_laneVars => SteadyInv'
<1> SUFFICES ASSUME SteadyInv, [LaneNext]_laneVars
             PROVE  SteadyInv'
    OBVIOUS
<1>i. FormedInv /\ LaneInv
    BY DEF SteadyInv
<1>n. FormedInv' /\ LaneInv'
    BY <1>i, FormedStep, LaneStep
<1>1. CASE UNCHANGED laneVars
    BY <1>1, <1>n DEF laneVars, SteadyInv
<1>2. CASE Tick
  <2>1. now' = now + 1 /\ UNCHANGED <<table, tmp, win, crossed, astray>>
      BY <1>2 DEF Tick
  <2>2. ~astray => \A k \in Lanes : Dependable(now + 1, k, win[k], table, tmp, crossed)
      BY <1>i, LaterDependable DEF SteadyInv
  <2>3. QED BY <1>n, <2>1, <2>2 DEF SteadyInv
<1>3. ASSUME NEW l \in Lanes,
             \/ \E regions \in Starts : Start(l, regions)
             \/ ClaimNext(l) \/ Started(l) \/ RollBack(l) \/ Finish(l) \/ Answered(l) \/ ExpireStale(l) \/ Crash(l)
      PROVE  SteadyInv'
    BY <1>3, <1>n, CallSteady
<1>4. ASSUME NEW l \in Lanes, WriteTemporary(l) \/ Rename(l)
      PROVE  SteadyInv'
    BY <1>4, <1>n, WriteSteady, RenameSteady
<1>5. QED
    BY <1>1, <1>2, <1>3, <1>4 DEF LaneNext

\* What a window at work relies on and may still write is in the file, live.
LEMMA HeldIsInFile ==
    ASSUME SteadyInv, ~astray, NEW l \in Lanes, NEW c \in Held(l)
    PROVE  \E d \in table : d.lane = l /\ d.region = c.region /\ Live(d)
<1> DEFINE o == Doing(l)
           got == o.got
<1>1. o.step = "working" /\ c.lane # Shared /\ Live(c) /\ \E i \in 1 .. Len(got) : got[i] = c
    BY DEF Held
<1>2. Formed(l, win[l]) /\ Steady(now, win[l], table) /\ now \in Nat
    BY DEF SteadyInv, FormedInv, Dependable
<1>3. Shape(l, o) /\ Keeps(now, o, table)
  <2>1. CASE win[l].step \in InCall
    <3>1. "then" \in DOMAIN win[l]
      <4>1. \/ win[l] = [step |-> "temporary", next |-> win[l].next, then |-> win[l].then]
            \/ win[l] = [step |-> "rename", then |-> win[l].then]
          BY <1>2, <2>1, ShapeOf DEF Formed
      <4>2. CASE win[l] = [step |-> "temporary", next |-> win[l].next, then |-> win[l].then]
          BY ONLY <4>2
      <4>3. CASE win[l] = [step |-> "rename", then |-> win[l].then]
          BY ONLY <4>3
      <4>4. QED BY <4>1, <4>2, <4>3
    <3>2. o = win[l].then /\ Shape(l, o)
        BY <1>2, <2>1, <3>1, ShapeOf DEF Doing
    <3>3. QED BY <1>1, <1>2, <2>1, <3>2 DEF Steady
  <2>2. CASE win[l].step \notin InCall
    <3>1. "then" \notin DOMAIN win[l] /\ Shape(l, win[l])
      <4> DEFINE w == win[l]
      <4>1. Shape(l, w)
          BY <1>2, <2>2, ShapeOf
      <4>2. CASE w = Rest \/ w = [step |-> "raised"]
          BY <4>1, <4>2 DEF Rest
      <4>3. CASE w = [step |-> "start", todo |-> w.todo, got |-> w.got]
        <5>1. "then" \notin DOMAIN w
            BY ONLY <4>3
        <5>2. QED BY <4>1, <5>1
      <4>4. CASE w = [step |-> "working", got |-> w.got]
        <5>1. "then" \notin DOMAIN w
            BY ONLY <4>4
        <5>2. QED BY <4>1, <5>1
      <4>5. CASE w = [step |-> w.step, got |-> w.got, gave |-> w.gave]
        <5>1. "then" \notin DOMAIN w
            BY ONLY <4>5
        <5>2. QED BY <4>1, <5>1
      <4> HIDE DEF w
      <4>6. \/ w = Rest \/ w = [step |-> "raised"]
            \/ w = [step |-> "start", todo |-> w.todo, got |-> w.got]
            \/ w = [step |-> "working", got |-> w.got]
            \/ w = [step |-> w.step, got |-> w.got, gave |-> w.gave]
          BY <4>1 DEF Shape
      <4>7. QED BY <4>2, <4>3, <4>4, <4>5, <4>6 DEF w
    <3>2. o = win[l]
        BY <3>1 DEF Doing
    <3>3. QED BY <1>2, <2>2, <3>1, <3>2 DEF Steady
  <2>3. QED BY <2>1, <2>2
<1> HIDE DEF o
<1>5. got \in Seq(Grants(l)) /\ Ladder(now, got) /\ Covered(now, got, table)
    BY <1>1, <1>3, ShapeOf DEF Keeps, Formed
<1> HIDE DEF got
<1>6. PICK i \in 1 .. Len(got) : got[i] = c
    BY <1>1
<1>7. got[i] # Leave /\ now <= got[i].until
    BY <1>1, <1>6, LeaveIsNoClaim DEF Live
<1>8. PICK j \in i .. Len(got) : got[j] # Leave /\ got[j] \in table /\ got[j].region = got[i].region
    BY <1>5, <1>6, <1>7 DEF Covered
<1>9. j \in 1 .. Len(got) /\ (i = j \/ i < j)
    BY <1>5, <1>6, <1>8
<1>10. (i = j \/ got[i].until <= got[j].until) /\ got[j] \in Grants(l) /\ got[i] \in Grants(l)
    BY <1>5, <1>6, <1>7, <1>8, <1>9 DEF Ladder
<1>11. got[j].lane = l /\ got[j].until \in Nat /\ got[i].until \in Nat
    BY <1>7, <1>8, <1>10, GrantKinds
<1>12. now <= got[j].until
    BY <1>2, <1>7, <1>10, <1>11
<1>13. QED BY <1>6, <1>8, <1>11, <1>12 DEF Live

\* Guarantee 1 of window_lane.py, however claims, releases, rollbacks, expiries and crashes
\* of any number of windows interleave: no two windows at work rely on overlapping regions
\* before the first call is saved over a table it has not loaded.
THEOREM RegionsOfOneLane == LaneSpec => []OneLaneUntilAstray
<1>1. ASSUME SteadyInv
      PROVE  OneLaneUntilAstray
  <2>1. ASSUME ~astray, NEW k \in Lanes, NEW l \in Lanes, k # l, NEW c \in Held(k), NEW d \in Held(l)
        PROVE  ~Overlap(c.region, d.region)
    <3>1. PICK e \in table : e.lane = k /\ e.region = c.region /\ Live(e)
        BY <1>1, <2>1, HeldIsInFile
    <3>2. PICK f \in table : f.lane = l /\ f.region = d.region /\ Live(f)
        BY <1>1, <2>1, HeldIsInFile
    <3>3. SoundAt(now, table)
        BY <1>1 DEF SteadyInv, LaneInv
    <3>4. ~Overlap(e.region, f.region)
        BY <2>1, <3>1, <3>2, <3>3 DEF SoundAt, Live
    <3>5. QED BY <3>1, <3>2, <3>4
  <2>2. QED BY <2>1 DEF OneLaneUntilAstray, OneLanePerRegion
<1>2. QED BY <1>1, SteadyInitial, SteadyStep, PTL DEF LaneSpec

\* A start that was refused has given back every claim it was granted before the refusal,
\* unless a call was saved over a table it had not loaded.
THEOREM RefusalLeavesNothing == LaneSpec => []RefusedStartHoldsNothing
<1>1. SteadyInv => RefusedStartHoldsNothing
    BY DEF SteadyInv, Dependable, Steady, RefusedStartHoldsNothing, Keeps, Owed, Live, InCall
<1>2. QED BY <1>1, SteadyInitial, SteadyStep, PTL DEF LaneSpec

\* Nobody takes a live claim away, except by a call that is saved over a table it has not
\* loaded: the claim leaves the file only through its own lane.
THEOREM LiveClaimsStay == LaneSpec => LiveClaimKept
<1> DEFINE Kept ==
       \A c \in table :
         Live(c) /\ c \notin table' =>
             \/ astray'
             \/ Releasing(c.lane)
             \/ \E d \in table' : d.lane = c.lane /\ d.region = c.region
<1>1. ASSUME SteadyInv, [LaneNext]_laneVars
      PROVE  [Kept]_laneVars
  <2>1. ASSUME NEW l \in Lanes, Rename(l)
        PROVE  Kept
    <3>1. CASE tmp = {} \/ astray \/ l \in crossed
        BY <2>1, <3>1 DEF Rename
    <3>2. CASE tmp # {} /\ ~astray /\ l \notin crossed
      <4>1. Own(now, l, win[l], table, tmp)
          BY <1>1, <3>2 DEF SteadyInv, Dependable
      <4>2. PICK saved : tmp = {saved} /\ Pending(now, l, table, saved, win[l].then)
          BY <2>1, <4>1 DEF Rename, Own
      <4>3. table' = saved /\ win[l].step = "rename"
          BY <2>1, <4>2 DEF Rename
      <4>4. QED BY <4>2, <4>3 DEF Pending, Spares, Explained, Live, Releasing
    <3>3. QED BY <3>1, <3>2
  <2>2. ASSUME UNCHANGED table
        PROVE  Kept
      BY <2>2
  <2>3. CASE Tick \/ UNCHANGED laneVars
      BY <2>2, <2>3 DEF Tick, laneVars
  <2>4. ASSUME NEW l \in Lanes,
               \/ \E regions \in Starts : Start(l, regions)
               \/ ClaimNext(l) \/ Started(l) \/ RollBack(l) \/ Finish(l) \/ Answered(l) \/ ExpireStale(l)
               \/ WriteTemporary(l) \/ Crash(l)
        PROVE  UNCHANGED table
      BY <2>4 DEF Start, ClaimNext, Started, RollBack, Finish, Answered, ExpireStale,
                  WriteTemporary, Crash
  <2> HIDE DEF Kept
  <2>5. QED BY <1>1, <2>1, <2>2, <2>3, <2>4 DEF LaneNext
<1>2. QED BY <1>1, SteadyInitial, SteadyStep, PTL DEF LaneSpec, LiveClaimKept
=============================================================================
