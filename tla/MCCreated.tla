------------------------------ MODULE MCCreated ------------------------------
(* Created with one control plane, one worker and the git volume.  The view   *)
(* leaves out what neither a later step nor a property of this run reads: the *)
(* create once the freeze is past its gates, the manifest and the mirror, and *)
(* the bundle when no further freeze can meet it.                             *)
EXTENDS Created

CONSTANTS git, c1, w1, h1, h2
MCVols == {git}
MCCPs == {c1}
MCWorkers == {w1}
MCHrNames == {h1, h2}

BundleIsRead == attempt < Attempts \/ freeze \in {"gates", "git"}
FreezeSeen == <<attempt, freeze, content, wanted, attached, suspended, paused, vm, up, machine,
                blank, point, taken, own, odd \ {"kept"},
                IF BundleIsRead THEN <<bundle, listed>> ELSE <<>>>>

Seen == IF main = "freeze" /\ freeze # "gates" THEN FreezeSeen
        ELSE <<deliveryVars, FreezeSeen>>
=============================================================================
