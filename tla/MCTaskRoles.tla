---------------------------- MODULE MCTaskRoles ----------------------------
(* Instances of TaskRoles for TLC. *)
EXTENDS TaskRoles

CONSTANTS t1, t2, t3

ThreeTasks == <<t1, t2, t3>>

FairRolesSpec == RolesSpec /\ RolesFairness
=============================================================================
