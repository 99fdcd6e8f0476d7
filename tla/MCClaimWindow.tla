---------------------------- MODULE MCClaimWindow ----------------------------
(* ClaimWindow with two Machines.  The view leaves out what neither a later   *)
(* step nor a property of the run reads once a join has run out of time: the  *)
(* machines and their tools, or, with a connection lost as well, the secrets  *)
(* and their writers.                                                         *)
EXTENDS ClaimWindow, TLC

CONSTANTS s1, s2
MCSlots == {s1, s2}
Seen ==
  CASE ~late -> vars
    [] late /\ ~lost -> <<main, failures = {}, window, tool["rebind"], secrets>>
    [] late /\ lost -> <<main, failures = {}, window, tool["remint"], tool["rename"], machines>>
Sym == Permutations(MCSlots)
=============================================================================
