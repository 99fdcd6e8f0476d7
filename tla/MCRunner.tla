------------------------------ MODULE MCRunner ------------------------------
(* Three scenarios of one process: a GA build with a day-2 workload cluster   *)
(* and the default tear-down, a supplied cluster, and a build with a listed   *)
(* cleanup (the shapes of workload-attach, *-existing and platform-upgrade).  *)
EXTENDS Runner

MCPlan == <<
  [steps |-> <<"create_cluster", "create_workload_cluster", "switch_to_workload",
               "assert", "switch_to_management", "delete_workload_cluster">>,
   cleanup |-> <<>>],
  [steps |-> <<"use_existing_cluster", "assert">>, cleanup |-> <<>>],
  [steps |-> <<"create_cluster", "create_workload_cluster", "assert">>,
   cleanup |-> <<"delete_app", "delete_workload_cluster", "finish_cluster">>] >>

MCVersion == <<"v2.17.0", Unset, Unset>>
MCDefault == <<"first", "second", Unset>>
=============================================================================
