-------------------------------- MODULE Created --------------------------------
(***************************************************************************)
(* A created cluster up to its template (create_cluster and finish_cluster *)
(* of steps.py): Delivery, then the freeze that finish_cluster runs        *)
(* (Freeze).  A freeze that has failed keeps the cluster, and may be run   *)
(* again by hand.                                                          *)
(***************************************************************************)
EXTENDS Naturals, FiniteSets

CONSTANTS HrNames, HrName,                                         \* see Delivery
          Vols, Git, CPs, Workers, Attempts, MaxVersion, MaxOdd    \* see Freeze

ASSUME NameAssumption == HrName \in HrNames
ASSUME GitAssumption == Git \in Vols
ASSUME BoundAssumption == {Attempts, MaxVersion} \subseteq Nat \ {0} /\ MaxOdd \in Nat

VARIABLES
  main, mode, left, boot, kubeconfig, api, watcher, target, cm, running, gens, asserted,
  tainted, version, blind,
  attempt, freeze, content, wanted, attached, suspended, paused, vm, up, machine, blank,
  bundle, listed, point, manifest, mirrored, taken, own, odd

Delivery == INSTANCE Delivery
Freeze == INSTANCE Freeze WITH main <- freeze

deliveryVars == <<main, mode, left, boot, kubeconfig, api, watcher, target, cm, running, gens,
                  asserted, tainted, version, blind>>
freezeVars == <<attempt, freeze, content, wanted, attached, suspended, paused, vm, up, machine,
                blank, bundle, listed, point, manifest, mirrored, taken, own, odd>>
vars == <<deliveryVars, freezeVars>>

Init == Delivery!Init /\ Freeze!Init

Creates == Delivery!Next /\ UNCHANGED freezeVars

Freezes ==
  main = "freeze" /\ Freeze!Next /\ UNCHANGED <<deliveryVars>>

Next == Creates \/ Freezes

Spec == Init /\ [][Next]_vars

-----------------------------------------------------------------------------
(* Properties.                                                              *)

\* What is frozen has your override at rest; after an assertion it runs your image, and after
\* a strict one it has never run another, unless a fingerprint was not read.
FrozenIsYours == Delivery!FrozenIsYours

\* "Wait for volumeattachments to drain": the template's recovery points hold what the
\* volumes held at the end.
SnapshotIsFinal == Freeze!SnapshotIsFinal

\* "A frozen cluster must be DEAD".
FrozenIsDead == Freeze!FrozenIsDead

\* Departures, each from the words quoted where it is defined: an older cluster is seeded,
\* the gate passes when the shipped image has run, a template is frozen that still runs it,
\* kept bundles are old, a cluster that is
\* not paused is frozen, and the mirror lacks what the manifest says.
SeedsTheNew == Delivery!SeedsTheNew
GateMeansNoOldCode == Delivery!GateMeansNoOldCode
BornWithYours == Delivery!BornWithYours
KeptIsCurrent == Freeze!KeptIsCurrent
CompleteIsPaused == Freeze!CompleteIsPaused
MirrorIsWhole == Freeze!MirrorIsWhole
=============================================================================
