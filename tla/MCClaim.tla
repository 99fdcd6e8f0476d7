------------------------------- MODULE MCClaim -------------------------------
(* Claim with two control planes, a volume, two CRDs, two tries of a script. *)
(* The view leaves out what neither a later step nor a property of this run  *)
(* reads: the parts that are over, the exceptions when they no longer count, *)
(* and what flux holds when half-built content is excused.                   *)
EXTENDS Claim

CONSTANTS n1, n2, v1, c1, c2
MCCPs == {n1, n2}
MCSeed == n1
MCPVs == {v1}
MCCrds == {c1, c2}

Excused == odd \cap {"refused", "cut"} # {}
SettleSeen == <<suspended, unsure, repo, script, sts, pod, serving, storage, post, gates, Excused,
                pod = "never" /\ odd \cap {"loose", "overtaken"} # {},
                IF Excused THEN <<>> ELSE <<artifact, applied>>>>

Seen ==
  CASE phase = "settle" -> <<phase, SettleSeen>>
    [] phase = "window" /\ attempt = Attempts -> <<phase, again, bypassVars>>
    [] OTHER -> <<phase, again, prepVars, bypassVars>>
=============================================================================
