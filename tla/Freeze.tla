-------------------------------- MODULE Freeze --------------------------------
(***************************************************************************)
(* The freeze of a created cluster into a template                         *)
(* (instant-cluster/freeze.py, run by finish_cluster): gates, the bundle   *)
(* of the git repository, the quiesce of the consumers, the pause, a       *)
(* recovery point per volume, the identity of the machines, the power-off  *)
(* and the check that the cluster is dead.  The cluster works on meanwhile *)
(* until what it runs on is off.  Most calls are made with kx() or         *)
(* pcapi(), which give an empty answer for a failed call.  What a freeze   *)
(* leaves behind (its files and its recovery points, which are found by    *)
(* name) is met by the next freeze under the name, with or without a thaw  *)
(* in between.                                                             *)
(***************************************************************************)
EXTENDS Naturals, FiniteSets

CONSTANTS
  Vols,         \* the volume groups of the cluster's data PVs
  Git,          \* the one kommander.git is on
  CPs,          \* the control-plane nodes
  Workers,      \* the other nodes
  Attempts,     \* bound: freezes under one name
  MaxVersion,   \* bound: versions of a volume's content
  MaxOdd        \* bound: nodes whose Machine or providerID is wrong, and nodes replaced

Nodes == CPs \cup Workers
None == 0      \* a snapshot or bundle that was not made; a providerID of a twin
VMs == Nodes \X (0..2)    \* per node: the twin nobody runs on, its VM, its replacement

VARIABLES
  attempt,    \* which freeze under the name this is
  main,       \* where it is, or how it ended
  \* the cluster
  content,    \* per volume: the version of what it holds
  wanted,     \* the volumes whose consumer is scaled up
  attached,   \* the volumes that have a volumeattachment
  suspended,  \* the kustomization git-operator
  paused,     \* spec.paused of the Cluster and the NKPCluster
  vm,         \* per node: the VM its kubelet runs on
  up,         \* the nodes whose VM is on
  machine,    \* per node: the VM the providerID of its Machine names
  blank,      \* the nodes without a providerID
  \* what a freeze leaves behind
  bundle,     \* kommander.bundle: the version it was made of
  listed,     \* the git-bundles.json exists
  point,      \* per volume: the golden recovery point of its name
  manifest,   \* the freeze manifest lists the VMs
  mirrored,   \* the artifacts in the durable mirror
  \* this freeze
  taken,      \* the volumes it has a recovery point of
  own,        \* the VMs it powers off
  odd         \* what went wrong or was only logged, in this freeze or before a snapshot

cluster == <<content, wanted, attached, suspended, paused, vm, up, machine, blank>>
left == <<bundle, listed, point, manifest, mirrored>>
run == <<taken, own>>
vars == <<attempt, main, cluster, left, run, odd>>

Artifacts == {"manifest", "rps", "bundles.json", "kubeconfig", "bundles"}
Ended == {"complete", "failed", "thawed"}

TypeOK ==
  /\ attempt \in 1..Attempts
  /\ main \in {"gates", "git", "suspend", "scale", "drain", "pause", "points", "scope",
               "identity", "record", "off", "dead", "mirror"} \cup Ended
  /\ content \in [Vols -> 1..MaxVersion] /\ wanted \subseteq Vols /\ attached \subseteq Vols
  /\ {suspended, paused, listed} \subseteq BOOLEAN
  /\ vm \in [Nodes -> 1..2] /\ up \subseteq Nodes
  /\ machine \in [Nodes -> 0..2] /\ blank \subseteq Nodes
  /\ bundle \in 0..MaxVersion /\ point \in [Vols -> 0..MaxVersion]
  /\ manifest \in BOOLEAN /\ mirrored \subseteq Artifacts
  /\ taken \subseteq Vols /\ own \subseteq VMs
  /\ odd \subseteq {"kept", "loose", "undrained", "unpaused", "blind", "warned", "blip",
                    "thawed"}

\* A cluster at work; a Machine may name the twin of a duplicate-name pair.
Init ==
  /\ attempt = 1 /\ main = "gates"
  /\ content = [v \in Vols |-> 1] /\ wanted = Vols /\ attached = Vols
  /\ suspended = FALSE /\ paused = FALSE
  /\ vm = [n \in Nodes |-> 1] /\ up = Nodes
  /\ machine \in [Nodes -> 0..1] /\ blank \in SUBSET Nodes
  /\ Cardinality(blank \cup {n \in Nodes : machine[n] = 0}) <= MaxOdd
  /\ bundle = None /\ listed = FALSE /\ point = [v \in Vols |-> None]
  /\ manifest = FALSE /\ mirrored = {}
  /\ taken = {} /\ own = {} /\ odd = {}

\* The control plane answers when a majority of its members does.
Serves == 2 * Cardinality(up \cap CPs) > Cardinality(CPs)

Step(from, to) == main = from /\ main' = to
Fails(from) ==
  Step(from, "failed") /\ taken' = {} /\ own' = {} /\ UNCHANGED <<attempt, cluster, left, odd>>
Works == main \notin Ended    \* the cluster's steps after the end are those of the next freeze's start
Odd(why) == odd' = odd \cup {why}

-----------------------------------------------------------------------------
(* The cluster.                                                             *)

Write(v) ==
  /\ Works /\ v \in attached /\ up # {} /\ content[v] < MaxVersion
  /\ content' = [content EXCEPT ![v] = @ + 1]
  /\ UNCHANGED <<attempt, main, wanted, attached, suspended, paused, vm, up, machine, blank,
                 left, run, odd>>

\* A volume follows its consumer.
Attach(v) ==
  /\ Works /\ Serves
  /\ \/ v \in wanted \ attached /\ attached' = attached \cup {v}
     \/ v \in attached \ wanted /\ attached' = attached \ {v}
  /\ UNCHANGED <<attempt, main, content, wanted, suspended, paused, vm, up, machine, blank,
                 left, run, odd>>

\* Flux scales the git server up again.
Flux ==
  /\ Works /\ Serves /\ ~suspended /\ Git \notin wanted /\ wanted' = wanted \cup {Git}
  /\ UNCHANGED <<attempt, main, content, attached, suspended, paused, vm, up, machine, blank,
                 left, run, odd>>

\* A controller replaces a node: its Machine is of the new VM, the old VM is gone.
Replace(n) ==
  /\ Works /\ Serves /\ ~paused /\ n \in up
  /\ vm[n] = 1 /\ Cardinality({m \in Nodes : vm[m] = 2}) < MaxOdd
  /\ vm' = [vm EXCEPT ![n] = 2] /\ machine' = [machine EXCEPT ![n] = 2]
  /\ UNCHANGED <<attempt, main, content, wanted, attached, suspended, paused, up, blank,
                 left, run, odd>>

-----------------------------------------------------------------------------
(* Up to the quiesce.                                                       *)

\* Green, reconciled, the ssh key, the federated members, and the list of the volumes:
\* each refuses, or lets pass.
Gates ==
  \/ Step("gates", "git") /\ UNCHANGED <<attempt, cluster, left, run, odd>>
  \/ Fails("gates")

\* A fresh bundle of a running git server; copying it out may fail, and an older file of
\* the name is then taken for it.
Captures ==
  /\ main = "git" /\ Git \in attached /\ listed' = TRUE
  /\ \/ bundle' = content[Git] /\ main' = "suspend" /\ UNCHANGED odd
     \/ main' = "suspend" /\ bundle # None /\ UNCHANGED <<bundle, odd>>
     \/ main' = "failed" /\ UNCHANGED <<bundle, odd>>
  /\ UNCHANGED <<attempt, cluster, point, manifest, mirrored, run>>

\* The git pod is not Running: the bundles of a prior freeze are kept.
Keeps ==
  /\ main = "git"
  /\ \/ listed /\ bundle # None /\ main' = "suspend" /\ Odd("kept")
     \/ ~(listed /\ bundle # None) /\ main' = "failed" /\ UNCHANGED odd
  /\ UNCHANGED <<attempt, cluster, left, run>>

-----------------------------------------------------------------------------
(* Quiesce and pause.                                                       *)

\* Mutant of Suspend: the consumers are scaled down with flux at work.
Suspend_Not ==
  /\ Step("suspend", "scale") /\ UNCHANGED <<attempt, cluster, left, run, odd>>
\* The annotation and the patch; nobody looks whether they were accepted.
Suspend ==
  /\ Step("suspend", "scale")
  /\ \/ suspended' = TRUE /\ UNCHANGED odd
     \/ Odd("loose") /\ UNCHANGED suspended
  /\ UNCHANGED <<attempt, content, wanted, attached, paused, vm, up, machine, blank, left, run>>

Scale ==
  /\ Step("scale", "drain")
  /\ \E some \in SUBSET Vols : wanted' = wanted \ some
  /\ UNCHANGED <<attempt, content, attached, suspended, paused, vm, up, machine, blank,
                 left, run, odd>>

\* No volumeattachment is left; or the list is empty because it could not be read; or
\* four minutes are over, and what is left is logged.
Drain ==
  /\ Step("drain", "pause")
  /\ \/ attached = {} /\ UNCHANGED odd
     \/ attached # {} /\ Odd("undrained")
  /\ UNCHANGED <<attempt, cluster, left, run>>

\* Mutant of Pause: only the name of the Cluster is looked up.
Pause_Not ==
  /\ Step("pause", "points") /\ taken' = {}
  /\ UNCHANGED <<attempt, cluster, left, own, odd>>
\* The patches are sent; a cluster whose name was not found is refused.
Pause ==
  \/ /\ Step("pause", "points") /\ taken' = {}
     /\ \/ paused' = TRUE /\ UNCHANGED odd
        \/ Odd("unpaused") /\ UNCHANGED paused
     /\ UNCHANGED <<attempt, content, wanted, attached, suspended, vm, up, machine, blank,
                    left, own>>
  \/ Fails("pause")

-----------------------------------------------------------------------------
(* The recovery points.                                                     *)

\* One that has the name already is reused; a list that could not be read hides it.
Mint(v) ==
  /\ main = "points" /\ v \notin taken /\ taken' = taken \cup {v}
  /\ \/ point[v] # None /\ UNCHANGED point
     \/ point' = [point EXCEPT ![v] = content[v]]
  /\ UNCHANGED <<attempt, main, cluster, bundle, listed, manifest, mirrored, own, odd>>

\* The caches, and a manifest without VMs.
Caches ==
  /\ Step("points", "scope") /\ taken = Vols /\ manifest' = FALSE
  /\ UNCHANGED <<attempt, cluster, bundle, listed, point, mirrored, run, odd>>

-----------------------------------------------------------------------------
(* The machines.                                                            *)

\* The VMs of the Machines; none is an error.
Scope ==
  \/ /\ Step("scope", "identity") /\ Serves
     /\ own' = {<<n, machine[n]>> : n \in Nodes}
     /\ UNCHANGED <<attempt, cluster, left, taken, odd>>
  \/ Fails("scope")

\* Mutant of Identity: the power-off is scoped by the Machines, and that is that.
Identity_Trusted ==
  /\ Step("identity", "record") /\ UNCHANGED <<attempt, cluster, left, run, odd>>
Known == {<<n, vm[n]>> : n \in Nodes \ blank}
\* Every node with a providerID runs on one of them, unless the nodes could not be listed;
\* and the VIP is no node's address.
Identity ==
  \/ /\ Step("identity", "record")
     /\ \/ Known \subseteq own /\ UNCHANGED odd
        \/ Odd("blind")
     /\ UNCHANGED <<attempt, cluster, left, run>>
  \/ Fails("identity")

\* The Machines are read again for the manifest, or could not be.
Record ==
  /\ Step("record", "off")
  /\ \/ manifest' = TRUE /\ UNCHANGED odd
     \/ manifest' = FALSE /\ Odd("blind")
  /\ UNCHANGED <<attempt, cluster, bundle, listed, point, mirrored, run>>

\* A VM of the scope that is read as on is asked to go off, and may do so, soon or late.
GoesOff(n) ==
  /\ main \in {"off", "dead"} /\ n \in up /\ <<n, vm[n]>> \in own /\ up' = up \ {n}
  /\ UNCHANGED <<attempt, main, content, wanted, attached, suspended, paused, vm, machine,
                 blank, left, run, odd>>

On == {n \in up : <<n, vm[n]>> \in own}
\* All that were asked are off; a VM that could not be read counts as off, and one that is
\* on after four minutes is logged.
Polled ==
  /\ Step("off", "dead")
  /\ \/ On = {} /\ UNCHANGED odd
     \/ On # {} /\ (Odd("warned") \/ Odd("blind"))
  /\ UNCHANGED <<attempt, cluster, left, run>>

\* Mutant of Dead: the check is left out.
Dead_Not ==
  /\ Step("dead", "mirror") /\ UNCHANGED <<attempt, cluster, left, run, odd>>
\* The endpoint is down; one answer of six that is not 200 is enough.
Dead ==
  \/ /\ Step("dead", "mirror")
     /\ \/ ~Serves /\ UNCHANGED odd
        \/ Serves /\ Odd("blip")
     /\ UNCHANGED <<attempt, cluster, left, run>>
  \/ Serves /\ Fails("dead")

\* With a mirror apart from the working directory: what the loop over the files leaves in
\* its last variables is copied, the kubeconfig, and then the directory of the bundles.
Mirror ==
  \/ /\ Step("mirror", "complete") /\ taken' = {} /\ own' = {}
     /\ mirrored' = mirrored \cup {"kubeconfig", "bundles"}
     /\ UNCHANGED <<attempt, cluster, bundle, listed, point, manifest, odd>>
  \/ Fails("mirror")

-----------------------------------------------------------------------------
(* The end of a freeze, and the next one.                                   *)

\* finish_cluster's half hour is over, or a call has raised: the cluster is kept as it is.
\* A call to Prism Central may be refused at any step that makes one.
Killed == main \notin Ended /\ Fails(main)

\* By hand: the machines are on, the Machines name them, and nothing is held.
Thaw ==
  /\ main \in {"complete", "failed"} /\ attempt < Attempts
  /\ up' = Nodes /\ machine' = vm /\ suspended' = FALSE /\ paused' = FALSE
  /\ wanted' = Vols /\ main' = "thawed" /\ Odd("thawed")
  /\ UNCHANGED <<attempt, content, attached, vm, blank, left, run>>

\* "Then re-run freeze."
Again ==
  /\ main \in Ended /\ attempt < Attempts /\ Serves
  /\ attempt' = attempt + 1 /\ main' = "gates" /\ taken' = {} /\ own' = {}
  /\ odd' = odd \ {"blind", "warned", "blip", "kept"}
  /\ UNCHANGED <<cluster, left>>

Next ==
  \/ \E v \in Vols : Write(v) \/ Attach(v) \/ Mint(v)
  \/ \E n \in Nodes : Replace(n) \/ GoesOff(n)
  \/ Flux \/ Gates \/ Captures \/ Keeps \/ Suspend \/ Scale \/ Drain \/ Pause \/ Caches
  \/ Scope \/ Identity \/ Record \/ Polled \/ Dead \/ Mirror \/ Killed \/ Thaw \/ Again

Spec == Init /\ [][Next]_vars

-----------------------------------------------------------------------------
(* Properties.                                                              *)

Said(words) == odd \cap words # {}

\* "Stop the consumers, wait for volumeattachments to drain": the recovery points of a
\* complete freeze hold what the volumes held when the cluster went off, those it reused
\* from a freeze that had failed included; unless attachments were left, or not seen, flux
\* was not suspended, or the cluster was thawed in between.
SnapshotIsFinal ==
  main = "complete" =>
    point = content \/ Said({"undrained", "loose", "thawed"})

\* "A frozen cluster must be DEAD": its control plane does not answer, unless it answered
\* the last check with something else; and no other node is left running, unless the log
\* says so, a listing or the pause failed, or the node has no providerID.
FrozenIsDead ==
  main = "complete" =>
    /\ Serves => Said({"blip"})
    /\ up \subseteq blank \/ Said({"warned", "blind", "unpaused"})

\* "So the prior bundles are exactly current": the kept ones are of what the git volume
\* held, as long as the cluster was not thawed.
KeptIsCurrent ==
  main = "complete" /\ Said({"kept"}) => bundle = content[Git] \/ Said({"thawed"})

\* "Refusing to freeze an unpaused cluster": a complete freeze has paused it.
CompleteIsPaused == main = "complete" => paused

\* "They must survive the scratch dir": the mirror has every artifact.
MirrorIsWhole == main = "complete" => mirrored = Artifacts
=============================================================================
