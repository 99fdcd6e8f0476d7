-------------------------------- MODULE Claim --------------------------------
(***************************************************************************)
(* A claim from its first clone to its gates (claim_cluster, claim.py and  *)
(* the programs it starts): ClaimPrep, then the window with its bypassed   *)
(* conversion webhooks (ConversionBypass), then ClaimSettle.  A claim that *)
(* has failed or was killed may be run again under its name.  clone.py     *)
(* then reuses the clones, and what the seed's database says by now is     *)
(* restored again: whatever the failed window has changed in it is met by  *)
(* the next one.                                                           *)
(***************************************************************************)
EXTENDS Naturals, FiniteSets

CONSTANTS CPs, Seed, Workers, PVs, Attempts,    \* see ClaimPrep
          Crds, MaxTries,                       \* see ConversionBypass
          Pinning                               \* see ClaimSettle

ASSUME SeedAssumption == Seed \in CPs
ASSUME BoundAssumption == {Attempts, MaxTries} \subseteq Nat \ {0}
ASSUME PinningAssumption == Pinning \in BOOLEAN

VARIABLES
  phase,    \* prep, window or settle
  again,    \* a window of this name has been left before its boot
  attempt, main, vm, power, powerErr, mid, midJob, midFail, file, placed, fetch, prep,
  shipped, data, vg, pairs, subErr, vgResult, late,
  bypass, crd, seedScript, listed, saved, local, onseed, restore, window, warned, lost,
  suspended, unsure, repo, artifact, applied, script, sts, pod, serving, storage, post,
  gates, odd

Prep == INSTANCE ClaimPrep
Bypass == INSTANCE ConversionBypass WITH main <- bypass, script <- seedScript
Settle == INSTANCE ClaimSettle

prepVars == <<attempt, main, vm, power, powerErr, mid, midJob, midFail, file, placed, fetch, prep,
              shipped, data, vg, pairs, subErr, vgResult, late>>
bypassVars == <<bypass, crd, seedScript, listed, saved, local, onseed, restore, window, warned,
                lost>>
settleVars == <<suspended, unsure, repo, artifact, applied, script, sts, pod, serving, storage,
                post, gates, odd>>
vars == <<phase, again, prepVars, bypassVars, settleVars>>

Init ==
  /\ phase = "prep" /\ again = FALSE
  /\ Prep!Init /\ Bypass!Init /\ Settle!Init

Prepares ==
  phase = "prep" /\ Prep!Next /\ UNCHANGED <<phase, again, bypassVars, settleVars>>

\* The seed's apiserver serves the database that the seed has restored: the template's,
\* or what an earlier run under the name has made of it.
Opens ==
  /\ phase = "prep" /\ main = "replaced" /\ phase' = "window"
  /\ crd' = IF data[Seed] = attempt THEN crd ELSE [c \in Crds |-> "Webhook"]
  /\ UNCHANGED <<again, prepVars, bypass, seedScript, listed, saved, local, onseed, restore,
                 window, warned, lost, settleVars>>

Windows ==
  phase = "window" /\ Bypass!Next /\ UNCHANGED <<phase, again, prepVars, settleVars>>

\* claim.py has given up, or its time is up; a script at work on the seed gets to its end.
Leaves ==
  /\ phase = "window" /\ bypass # "booted" /\ phase' = "prep" /\ again' = TRUE
  /\ main' = "exit" /\ Prep!NoJobs
  /\ \E done \in SUBSET UNION {listed[i] : i \in {j \in 1..MaxTries : seedScript[j] = "listed"}} :
       Bypass!Set(done, "None")
  /\ bypass' \in {"bypass", "laptop"}
  /\ seedScript' = [i \in 1..MaxTries |-> "off"] /\ listed' = [i \in 1..MaxTries |-> {}]
  /\ saved' = {} /\ local' = {} /\ onseed' = FALSE
  /\ restore' = "idle" /\ window' = TRUE /\ warned' = FALSE /\ lost' = FALSE
  /\ UNCHANGED <<attempt, vm, mid, file, placed, shipped, data, settleVars>>

\* The window has rewritten the repository on its volume, left it or broken it.
Boots ==
  /\ phase = "window" /\ bypass = "booted" /\ phase' = "settle"
  /\ repo' \in {"template", "claim", "broken"}
  /\ UNCHANGED <<again, prepVars, bypassVars, suspended, unsure, artifact, applied, script, sts,
                 pod, serving, storage, post, gates, odd>>

Settles ==
  phase = "settle" /\ Settle!Next /\ UNCHANGED <<phase, again, prepVars, bypassVars>>

Next == Prepares \/ Opens \/ Windows \/ Leaves \/ Boots \/ Settles

Spec == Init /\ [][Next]_vars

-----------------------------------------------------------------------------
(* Properties.                                                              *)

\* What a claim boots was prepared by its own run: every machine of it is on, and has a
\* machine-id of its own unless a join ran out of time; every volume has its pair.
BootedArePrepared == Prep!PreparedIsOn /\ Prep!OwnMachineIds /\ Prep!ReplaceIsComplete

\* FIX-1: every control plane of a first run has the seed's database.
AllFromOneDb == Prep!AllFromOneDb

\* The window of a name that has not been left before boots, or gives up at its last
\* check, with the webhooks put back or a warning, unless a connection was lost, or a script
\* failed and the laptop's restore died.
RestoredOrWarned == again \/ Bypass!RestoredOrWarned

\* "An empty or half-built repo reconciled with prune=true would delete the platform".
HalfBuiltNeverApplied == Settle!HalfBuiltNeverApplied

\* "Leaving flux suspended is the worst outcome".
NothingLeftSuspended == Settle!NothingLeftSuspended

\* LEVER-A: the git pod is first placed on the node its volumes are attached to, unless
\* a patch was refused, gates.py resumed its kustomization, two minutes were too short, or a
\* reconcile that had begun before the suspend has overtaken the nodeSelector.
FirstPlacedOnPin ==
  [][Pinning /\ pod = "never" /\ pod' = "other" => odd \cap {"loose", "overtaken"} # {}]_vars

\* Departures, each from the words quoted where it is defined: a second run restores the
\* first one's database; webhooks stay bypassed after a lost connection, an exception in the
\* restore or an early end; a half-built repository is applied after a rebuild that was cut
\* off; the git pod is placed elsewhere by the bounce, and placed there at first though every
\* patch was done, for nothing waits between the suspend and the nodeSelector.
NoStaleDb == Prep!NoStaleDb
BootIsVerbatim == Bypass!BootIsVerbatim
AbortRestores == Bypass!AbortRestores
ResumedWhenInPlace == Settle!ResumedWhenInPlace
PlacedStays == Settle!PlacedStays
SurvivesUntilPlaced == Settle!SurvivesUntilPlaced

\* The webhooks of a claim that is run again under its name: the second run lists none to
\* bypass where the first has left them bypassed, and has none to put back.
RerunIsVerbatim == Bypass!RestoredOrWarned
=============================================================================
