----------------------------- MODULE WindowLane -----------------------------
(***************************************************************************)
(* Which window may write which files (core/window_lane.py), as ace_start  *)
(* (core/ace_start.py) uses it.  All claims are in one JSON file.  claim,  *)
(* release and expire_stale load it, decide, write a temporary file whose  *)
(* name every process shares and rename it over the old one; no lock is    *)
(* held meanwhile, so calls of two windows overlap as they please.         *)
(*                                                                         *)
(* A lane is one window at a time; aliases are resolved before anything    *)
(* else happens, so lanes are canonical names.  A region is a normalised   *)
(* path, the sequence of its components.  claim_id is the lane and the     *)
(* token.  The audit list is left out.                                     *)
(*                                                                         *)
(* crossed and astray are history: they say when a call has saved          *)
(* something else than it decided on.  No guard reads them.                *)
(***************************************************************************)
EXTENDS Integers, Sequences, FiniteSets

CONSTANTS
    Lanes,
    Regions,     \* paths that windows name, as sequences of components
    Owners,      \* the ownership table, a function from some paths to lanes
    SharedPaths, \* paths registered as shared
    Overriding,  \* lanes that pass owner_override
    Starts,      \* the region lists windows start with, as sequences
    Term,        \* lease length, in ticks
    MaxTime,     \* bound on the clock
    MaxToken     \* bound on the fencing tokens

ASSUME LaneAssumption ==
    /\ Starts \subseteq Seq(Regions) /\ Overriding \subseteq Lanes
    /\ \A p \in DOMAIN Owners : Owners[p] \in Lanes
    /\ Term \in Nat \ {0} /\ MaxTime \in Nat /\ MaxToken \in Nat
\* owner_of answers "*shared*" where it would name a lane; no lane has that name.
ASSUME SharedIsNoLane == "*shared*" \notin Lanes

VARIABLES
    table,   \* lane_claims.json: the set of claims in it
    tmp,     \* the content of lane_claims.json.tmp, as a set: {} when there is none
    win,     \* win[l]: what the window of lane l is doing
    now,     \* the wall clock
    crossed, \* windows whose call in flight goes by a table, a temporary file or an id
             \* that has become another one's meanwhile (history)
    astray   \* such a call has been saved (history)

laneVars == <<table, tmp, win, now, crossed, astray>>

Shared == "*shared*"
Unowned == "unowned"
Rest == [step |-> "idle"]

Beneath(path, region) == Len(path) <= Len(region) /\ SubSeq(region, 1, Len(path)) = path

OneWay(first, second) == Beneath(first, second)  \* mutant: a claim above the held region is not seen
Overlap(first, second) == Beneath(first, second) \/ Beneath(second, first)

\* The most specific registered path decides; shared paths are looked at first.
OwnerOf(region) ==
    LET above == {p \in DOMAIN Owners : Beneath(p, region)}
    IN IF \E p \in SharedPaths : Beneath(p, region) THEN Shared
       ELSE IF above = {} THEN Unowned
       ELSE Owners[CHOOSE p \in above : \A q \in above : Len(q) <= Len(p)]

Live(c) == now <= c.until
Foreign(l, region) == \E c \in table : Live(c) /\ c.lane # l /\ Overlap(c.region, region)

RefusedToStrangers(l, region) ==  \* mutant: held regions are not looked at for the owner
    /\ OwnerOf(region) \notin {Shared, l}
    /\ (OwnerOf(region) # Unowned /\ l \notin Overriding) \/ Foreign(l, region)

\* What claim answers: a refusal, the leave to write a shared region, or a grant.
Refused(l, region) ==
    \/ OwnerOf(region) \notin {Unowned, Shared, l} /\ l \notin Overriding
    \/ OwnerOf(region) # Shared /\ Foreign(l, region)

TokenFromZero == Cardinality(table)  \* mutant: numbering starts at 0
NextToken == IF table = {} THEN 1 ELSE 1 + CHOOSE n \in {c.token : c \in table} : \A c \in table : c.token <= n

NewClaim(l, region) ==
    [lane |-> l, region |-> region, token |-> NextToken, until |-> now + Term]

SupersedesAll(c, l, region) == c.lane = l  \* mutant: a claim replaces every claim of its lane
Supersedes(c, l, region) == c.lane = l /\ c.region = region

SameId(c, d) == c.lane = d.lane /\ c.token = d.token
-----------------------------------------------------------------------------
LaneInit ==
    /\ table = {}
    /\ tmp = {}
    /\ win = [l \in Lanes |-> Rest]
    /\ now = 0
    /\ crossed = {}
    /\ astray = FALSE

\* Between load and rename a call is in flight.
InFlight(l) == win[l].step \in {"temporary", "rename"}

Tick ==
    /\ now < MaxTime
    /\ now' = now + 1
    /\ UNCHANGED <<table, tmp, win, crossed, astray>>

Continue(l, o) == win' = [win EXCEPT ![l] = o]
Saving(l, claims, then) == Continue(l, [step |-> "temporary", next |-> claims, then |-> then])

\* ace_start.  A start without regions saves the table too: it records the omission.
Start(l, regions) ==
    /\ win[l].step = "idle"
    /\ LET o == [step |-> "start", todo |-> regions, got |-> <<>>]
       IN IF regions = <<>> THEN Saving(l, table, o) ELSE Continue(l, o)
    /\ UNCHANGED <<table, tmp, now, crossed, astray>>

ClaimNext(l) ==
    /\ win[l].step = "start" /\ win[l].todo # <<>>
    /\ LET region == Head(win[l].todo)
           got(grant) == [win[l] EXCEPT !.todo = Tail(@), !.got = Append(@, grant)]
       IN \/ /\ Refused(l, region)
             /\ Continue(l, [step |-> "rollback", got |-> win[l].got, gave |-> win[l].got])
          \/ /\ ~Refused(l, region) /\ OwnerOf(region) = Shared
             /\ Saving(l, table, got([lane |-> Shared]))
          \/ /\ ~Refused(l, region) /\ OwnerOf(region) # Shared /\ NextToken <= MaxToken
             /\ LET c == NewClaim(l, region)
                IN Saving(l, {d \in table : ~Supersedes(d, l, region)} \cup {c}, got(c))
    /\ UNCHANGED <<table, tmp, now, crossed, astray>>

Started(l) ==
    /\ win[l].step = "start" /\ win[l].todo = <<>>
    /\ Continue(l, [step |-> "working", got |-> win[l].got])
    /\ UNCHANGED <<table, tmp, now, crossed, astray>>

\* release refuses an id it does not find and a lease that ran out.  It goes by the id
\* alone: when c is gone from the table and its id was issued again, another claim goes.
Release(l, c, then) ==
    IF \E d \in table : SameId(c, d) /\ Live(d)
      THEN /\ Saving(l, {d \in table : ~SameId(c, d)}, then)
           /\ crossed' = IF c \in table THEN crossed ELSE crossed \cup {l}
      ELSE Continue(l, then) /\ UNCHANGED crossed

RollBackOne(l) ==  \* mutant: only the first claim is given back
    /\ win[l].step = "rollback"
    /\ \/ /\ win[l].got = <<>>
          /\ Continue(l, [win[l] EXCEPT !.step = "refused"]) /\ UNCHANGED crossed
       \/ /\ win[l].got # <<>> /\ Head(win[l].got).lane = Shared
          /\ Continue(l, [step |-> "raised"]) /\ UNCHANGED crossed
       \/ /\ win[l].got # <<>> /\ Head(win[l].got).lane # Shared
          /\ Release(l, Head(win[l].got), [win[l] EXCEPT !.step = "refused"])
    /\ UNCHANGED <<table, tmp, now, astray>>

\* The rollback of a refused start, in the order of the grants; the leave to write a
\* shared region carries no fencing token, so it raises KeyError.
RollBack(l) ==
    /\ win[l].step = "rollback"
    /\ \/ /\ win[l].got = <<>>
          /\ Continue(l, [win[l] EXCEPT !.step = "refused"]) /\ UNCHANGED crossed
       \/ /\ win[l].got # <<>> /\ Head(win[l].got).lane = Shared
          /\ Continue(l, [step |-> "raised"]) /\ UNCHANGED crossed
       \/ /\ win[l].got # <<>> /\ Head(win[l].got).lane # Shared
          /\ Release(l, Head(win[l].got), [win[l] EXCEPT !.got = Tail(@)])
    /\ UNCHANGED <<table, tmp, now, astray>>

\* The window gives its claims back one by one when its work is done.
Finish(l) ==
    /\ win[l].step = "working"
    /\ \/ win[l].got = <<>> /\ Continue(l, Rest) /\ UNCHANGED crossed
       \/ /\ win[l].got # <<>>
          /\ LET rest == [win[l] EXCEPT !.got = Tail(@)]
             IN IF Head(win[l].got).lane = Shared
                  THEN Continue(l, rest) /\ UNCHANGED crossed
                  ELSE Release(l, Head(win[l].got), rest)
    /\ UNCHANGED <<table, tmp, now, astray>>

\* The window learns that its start was refused or has raised.
Answered(l) ==
    /\ win[l].step \in {"refused", "raised"}
    /\ Continue(l, Rest)
    /\ UNCHANGED <<table, tmp, now, crossed, astray>>

ExpireStale(l) ==
    /\ win[l].step = "idle"
    /\ \E c \in table : ~Live(c)
    /\ Saving(l, {c \in table : Live(c)}, Rest)
    /\ UNCHANGED <<table, tmp, now, crossed, astray>>

\* One file name for all: whoever is about to rename will rename this version.
WriteTemporary(l) ==
    /\ win[l].step = "temporary"
    /\ tmp' = {win[l].next}
    /\ Continue(l, [step |-> "rename", then |-> win[l].then])
    /\ crossed' = crossed \cup {k \in Lanes \ {l} : win[k].step = "rename"}
    /\ UNCHANGED <<table, now, astray>>

\* Whatever the temporary file holds by now becomes the table; if another process has
\* renamed it away, replace raises.  The others in flight loaded the old table.
Rename(l) ==
    /\ win[l].step = "rename"
    /\ IF tmp # {}
         THEN table' \in tmp /\ tmp' = {} /\ Continue(l, win[l].then) /\ astray' = (astray \/ l \in crossed)
         ELSE UNCHANGED <<table, tmp, astray>> /\ Continue(l, [step |-> "raised"])
    /\ crossed' = (IF table' = table THEN crossed ELSE {k \in Lanes : InFlight(k)}) \ {l}
    /\ UNCHANGED now

\* The window is closed or dies; its claims stay in the table until their leases end.
Crash(l) ==
    /\ win[l].step # "idle"
    /\ Continue(l, Rest)
    /\ crossed' = crossed \ {l}
    /\ UNCHANGED <<table, tmp, now, astray>>

LaneNext ==
    \/ Tick
    \/ \E l \in Lanes :
         \/ \E regions \in Starts : Start(l, regions)
         \/ ClaimNext(l)
         \/ Started(l)
         \/ RollBack(l)
         \/ Finish(l)
         \/ Answered(l)
         \/ ExpireStale(l)
         \/ WriteTemporary(l)
         \/ Rename(l)
         \/ Crash(l)

LaneSpec == LaneInit /\ [][LaneNext]_laneVars
-----------------------------------------------------------------------------
(* Properties. *)

Claim ==
    [lane : Lanes, region : Regions, token : Nat \ {0}, until : Nat]

\* The table, the temporary file and the states of the windows are well formed.
LaneTypeOK ==
    /\ table \subseteq Claim
    /\ \A claims \in tmp : claims \subseteq Claim
    /\ \A l \in Lanes :
         win[l].step \in {"idle", "start", "temporary", "rename", "rollback", "refused", "raised",
                          "working"}
    /\ now \in Nat /\ crossed \subseteq Lanes /\ astray \in BOOLEAN

\* What the window of l relies on: the claims its start handed it, while their leases last.
Doing(l) == IF "then" \in DOMAIN win[l] THEN win[l].then ELSE win[l]
Held(l) ==
    IF Doing(l).step # "working" THEN {}
    ELSE {c \in {Doing(l).got[k] : k \in 1 .. Len(Doing(l).got)} : c.lane # Shared /\ Live(c)}

\* "Overlapping regions from different lanes are refused, not warned about" (window_lane.py):
\* however calls interleave, the file never shows two live claims that overlap.
Exclusive(claims) ==
    \A c, d \in claims : c.lane # d.lane /\ Live(c) /\ Live(d) => ~Overlap(c.region, d.region)
TableExclusive == Exclusive(table)

\* Guarantee 1 of window_lane.py: "A write region is claimed by at most one lane at a
\* time."  No two windows at work rely on overlapping regions.  Overlapping calls break it ...
OneLanePerRegion ==
    \A k, l \in Lanes : k # l => \A c \in Held(k), d \in Held(l) : ~Overlap(c.region, d.region)

\* ... but only in one way: calls, expiries, crashes, failed renames and rollbacks may
\* interleave as they please, the guarantee stands until the first call is saved over a
\* table it has not loaded, in another call's temporary file or under a reissued id.
OneLaneUntilAstray == ~astray => OneLanePerRegion

\* Until then nobody takes a live claim away: it leaves the table when its own lane
\* claims the same region again or releases it.
Releasing(l) == win[l].step = "rename" /\ win[l].then.step \in {"rollback", "working"}
LiveClaimKept ==
    [][\A c \in table :
         Live(c) /\ c \notin table' =>
             \/ astray'
             \/ Releasing(c.lane)
             \/ \E d \in table' : d.lane = c.lane /\ d.region = c.region]_laneVars

\* "Half a lane claim is an unclaimed file the window still believes it owns" (ace_start.py):
\* until then a start that was refused has given every claim of its own back.
RefusedStartHoldsNothing ==
    \A l \in Lanes :
        win[l].step = "refused" /\ ~astray =>
            \A k \in 1 .. Len(win[l].gave) : win[l].gave[k] \in table => ~Live(win[l].gave[k])
=============================================================================
