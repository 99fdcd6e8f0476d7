--------------------------- MODULE RemintContract ---------------------------
(***************************************************************************)
(* What the claim expects of instant-cluster/remint_machinenames.py, run   *)
(* by run_tool (claim.py): the Machines of the restored tree lose their    *)
(* template names one by one and never get them back, and the tool is      *)
(* reported to have succeeded only when none has its template name left.   *)
(* ClaimWindow uses these actions; Remint implements them.                 *)
(***************************************************************************)
CONSTANT Slots    \* the template's Machines

VARIABLES
  named,   \* those whose template-named object is gone
  result   \* what run_tool made of the tool: idle, running, ok or failed

Init == named = {} /\ result = "running"

\* One more Machine is replaced by a claim-named one, even after run_tool has
\* stopped waiting: an instance on the seed outlives the connection to it.
Replace ==
  /\ \E s \in Slots \ named : named' = named \cup {s}
  /\ UNCHANGED result

Succeed == result = "running" /\ named = Slots /\ result' = "ok" /\ UNCHANGED named

Fail == result = "running" /\ result' = "failed" /\ UNCHANGED named

Next == Replace \/ Succeed \/ Fail

Spec == Init /\ [][Next]_<<named, result>>
=============================================================================
