----------------------------- MODULE MCOverrides -----------------------------
(* Overrides with one process, two images each of an application and of a     *)
(* chart, and one controller.  The view is one state for all where no         *)
(* property of the run holds any longer: odd only grows.                      *)
EXTENDS Overrides, TLC

CONSTANTS t1, a1, a2, b1, b2, c1, d1
MCTools == {t1}
MCFluxApp == {a1, a2}
MCChart == {b1, b2}
MCCtrls == {c1}
MCImages == {d1}
Seen == IF odd \cap {"refused", "cut", "unread", "raced"} = {} THEN overrideVars ELSE <<odd>>
Sym == Permutations(MCFluxApp) \cup Permutations(MCChart)
=============================================================================
