------------------------------ MODULE MCUpgrade ------------------------------
(* Two upgrades of one cluster, to a version that is released and to one   *)
(* that only your bundle makes.  charts alone would be one more sequential *)
(* case: with content every part of the change-set is delivered.           *)
EXTENDS Upgrade

MCChangeSets == {{}, {"image", "content"}, {"charts", "content"}}
\* A failed step ends the scenario: what the cluster does afterwards is not looked at.
ScenarioGoesOn == at # "red"
AllChangeSets == SUBSET Kinds
=============================================================================
