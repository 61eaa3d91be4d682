----------------------------- MODULE MCPoolFaults ----------------------------
(* Two settings in one run: processes that start one after the other, each *)
(* running recovery (the constants of the run), and survivors, which are   *)
(* all there from the start and go on without recovery next to readers     *)
(* that make renames and unlinks fail.                                     *)
EXTENDS MCPoolStore

Survivor == INSTANCE PoolStore WITH
    Running <- Procs, MaxAlive <- Cardinality(Procs), Daemons <- {},
    Preloaded <- 1, MaxTasks <- 1, MaxStamp <- 4, MaxRefused <- 2, SharingFaults <- TRUE

VARIABLE setting

vars == <<storeVars, setting>>

BothInit ==
    \/ setting = "restart" /\ StoreInit
    \/ setting = "survivors" /\ Survivor!StoreInit

BothNext ==
    \/ setting = "restart" /\ StoreNext /\ UNCHANGED setting
    \/ setting = "survivors" /\ Survivor!StoreNext /\ UNCHANGED setting

BothSpec == BothInit /\ [][BothNext]_vars

\* After every constructor the directory and the index are in order; survivors, which call
\* none, may keep a superseded copy whose unlink was refused.
RestartCleansPool == setting = "restart" => ReadyPoolIsClean
=============================================================================
