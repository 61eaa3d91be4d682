------------------------------ MODULE MCDaemon ------------------------------
(* One run for two components of the resident daemon that share no         *)
(* variable: its owner files and its choice of the next task.  A behaviour *)
(* is one of one of them; the states of the run are the sum of theirs.     *)
EXTENDS OwnerFiles, Selection

CONSTANTS h1, h2, m1, l1

FilingOrder == <<l1, h2, h1, m1>>

VARIABLE part

vars == <<part, ownerVars, selectionVars>>

NothingFiled ==
    /\ pool = [t \in Wanted |-> Gone] /\ order = <<>>
    /\ picks = 0 /\ bypassed = 0

Init ==
    /\ OwnersInit
    /\ \/ part = "owners" /\ NothingFiled
       \/ part = "selection" /\ SelectionInit

Turns(p) == part = p /\ UNCHANGED part

\* Bound: the owner files are followed up to the first call that acts on what is out of date.
Followed == ~crossed

Next ==
    \/ Turns("owners") /\ Followed /\ OwnersNext /\ UNCHANGED selectionVars
    \/ Turns("selection") /\ SelectionNext /\ UNCHANGED ownerVars

\* The fairness of each in its own behaviours, of those that do not end in a crossing.  A
\* process that is not dead always has a step to take, each changes its run, so the first
\* conjunct is OwnersFairness; and cycles go on.
Fairness ==
    /\ \A p \in Starters : []<><<part = "owners" => run[p].step = "dead" \/ run'[p] # run[p]>>_vars
    /\ []<><<part = "selection" => picks' # picks>>_vars

DaemonSpec == Init /\ [][Next]_vars /\ Fairness
=============================================================================
