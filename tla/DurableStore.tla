---------------------------- MODULE DurableStore ----------------------------
(***************************************************************************)
(* What a task pool's directory promises to whoever loads a task from it:  *)
(* one record per task id, replaced in one step by a newer version of the  *)
(* same task, never lost, and taken back by nothing but a refused archive, *)
(* after which a load may return an older version.  It is the atomic store *)
(* the operations of TaskPool are written against.                         *)
(***************************************************************************)
EXTENDS Integers

CONSTANTS Ids, Missing

VARIABLES
    rec,       \* rec[i]: what load_task(i) returns, with its task and stamp, or Missing
    refusals   \* how many refused archives have been written

DurableInit ==
    /\ \A i \in Ids : rec[i] = Missing \/ rec[i].task = rec[i].stamp
    /\ refusals = 0

Newer(i) == \A j \in Ids : rec[j] # Missing => rec'[i].stamp > rec[j].stamp

Written(i) ==
    /\ rec' = [rec EXCEPT ![i] = rec'[i]]
    /\ rec'[i] # Missing /\ Newer(i) /\ UNCHANGED refusals
    /\ IF rec[i] = Missing
         THEN \A j \in Ids \ {i} : rec[j] # Missing => rec[j].task # rec'[i].task
         ELSE rec[i].task = rec'[i].task

\* The record the load returns now is one of the same task, of whatever age.
WrittenBack(i) ==
    /\ rec[i] # Missing /\ rec'[i] # Missing
    /\ rec' = [rec EXCEPT ![i] = rec'[i]]
    /\ rec'[i].task = rec[i].task
    /\ refusals' = refusals + 1

DurableSpec == DurableInit /\ [][\E i \in Ids : Written(i) \/ WrittenBack(i)]_<<rec, refusals>>
=============================================================================
