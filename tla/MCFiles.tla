------------------------------- MODULE MCFiles -------------------------------
(* One run for three components of which none shares a file or a variable  *)
(* with another: the lane registry, the runtime claims, and the ledger     *)
(* inside a task record.  A behaviour is one of one component; the states  *)
(* of the run are the sum of theirs, not the product.                      *)
EXTENDS MCWindowLane, RuntimeClaim, TaskLedger

VARIABLE part

vars == <<part, laneVars, claimVars, ledgerVars>>

Init ==
    /\ part \in {"lanes", "claims", "ledger"}
    /\ LaneInit /\ ClaimInit /\ LedgerInit
    /\ part # "ledger" => legacy /\ mode = [u \in Users |-> CHOOSE m \in Modes : TRUE]

Turn(p) == part = p /\ UNCHANGED part

\* Bound: behaviours of the lanes are followed up to the first save that went astray; what
\* the run checks of them, but for the exclusive table, is about the time before it.
Followed == ~astray

Next ==
    \/ Turn("lanes") /\ Followed /\ LaneNext /\ UNCHANGED <<claimVars, ledgerVars>>
    \/ Turn("claims") /\ ClaimStep /\ UNCHANGED <<laneVars, ledgerVars>>
    \/ Turn("ledger") /\ LedgerNext /\ UNCHANGED <<laneVars, claimVars>>

FilesSpec == Init /\ [][Next]_vars
=============================================================================
