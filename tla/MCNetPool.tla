------------------------------ MODULE MCNetPool ------------------------------
(* NetPool for TLC: every run has two owner names of its own, as a user's     *)
(* different scenarios have (ctx.cluster() and the clone's name).             *)
EXTENDS NetPool

MCOwner == Run \X {"cluster", "clone"}
MCPoolName == [r \in Run |-> <<r, "cluster">>]
MCClaimName == [r \in Run |-> <<r, "clone">>]
=============================================================================
