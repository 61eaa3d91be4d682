---------------------------- MODULE MCWindowLane ----------------------------
(* Instances of WindowLane for TLC. *)
EXTENDS WindowLane, TLC

CONSTANTS gov, nim

Core == <<"core">>                \* a directory gov owns ...
Task == <<"core", "task">>        \* ... a file in it ...
Pool == <<"core", "pool">>        \* ... and one registered to nim
Notes == <<"notes">>              \* a shared surface
Draft == <<"draft">>              \* nobody's
SharedTable == {Notes}
AllRegions == {Core, Task, Pool, Notes, Draft}
OwnerTable == (Core :> gov) @@ (Pool :> nim)

MixedStarts == {<<>>, <<Core>>, <<Core, Task>>, <<Core, Task, Pool>>, <<Notes, Pool>>}
DraftStarts == {<<Draft>>}
=============================================================================
