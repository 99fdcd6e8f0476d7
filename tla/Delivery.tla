------------------------------- MODULE Delivery -------------------------------
(***************************************************************************)
(* The create of a cluster with a change-set (steps.py, smart_cluster down *)
(* to finish_cluster's decision).  The core of the platform is installed   *)
(* while the create runs; so that its first render has your image, a       *)
(* thread writes the overrides ConfigMaps as soon as the new apiserver     *)
(* answers.  The thread is started before the create sweeps what an        *)
(* earlier run of the name has left, its cluster and the bootstrap cluster *)
(* with the kubeconfig.  A gate, a second seed, the install and the        *)
(* delivery follow, then the scenario's own steps, then the decision.      *)
(***************************************************************************)
EXTENDS Naturals, FiniteSets

CONSTANTS
  HrNames,   \* the names the component's HelmRelease may have
  HrName     \* the one it has in this release line

VARIABLES
  main,      \* the step the run is at
  mode,      \* smart_mode: created-incomplete or created
  left,      \* an earlier run's cluster: none, answers or swept
  boot,      \* whose kubeconfig the bootstrap cluster has: none, old or new
  kubeconfig,\* the create has written the kubeconfig file
  api,       \* the new apiserver answers
  watcher,   \* the thread: look, seed, done, dead or late
  target,    \* the cluster whose kubeconfig it has taken
  cm,        \* the override ConfigMaps on the new cluster, by HelmRelease name
  running,   \* the component's Deployment: none, ga, yours or other
  gens,      \* what its ReplicaSets say, the old ones included
  asserted,  \* what assert_change_running has passed: none, runs or strict
  tainted,   \* changeset_tainted
  version,   \* KommanderCore's version, and what the fingerprint says of it: 0 for nothing
  blind      \* the fingerprint could not be read

world == <<left, boot, kubeconfig, api>>
seed == <<watcher, target>>
code == <<cm, running, gens>>
test == <<asserted, tainted, version, blind>>
vars == <<main, mode, world, seed, code, test>>

Ended == {"kept", "deleted", "freeze"}

TypeOK ==
  /\ main \in {"sweep", "reset", "create", "gate", "preseed", "install", "retry", "deliver",
               "fingerprint", "scenario", "finish"} \cup Ended
  /\ mode \in {"created-incomplete", "created"}
  /\ left \in {"none", "answers", "swept"} /\ boot \in {"none", "old", "new"}
  /\ {kubeconfig, api, tainted, blind} \subseteq BOOLEAN /\ asserted \in {"none", "runs", "strict"}
  /\ watcher \in {"look", "seed", "done", "dead", "late"} /\ target \in {"none", "old", "new"}
  /\ cm \subseteq HrNames
  /\ running \in {"none", "ga", "yours", "other"} /\ gens \subseteq {"ga", "yours", "other"}
  /\ version \in [now : 1..2, born : 0..1]

\* A first run of the name, or one after a run whose cluster was kept.
Init ==
  /\ main = "sweep" /\ mode = "created-incomplete"
  /\ left \in {"none", "answers"} /\ boot = (IF left = "none" THEN "none" ELSE "old")
  /\ kubeconfig = FALSE /\ api = FALSE
  /\ watcher = "look" /\ target = "none"
  /\ cm = {} /\ running = "none" /\ gens = {}
  /\ asserted = "none" /\ tainted = FALSE /\ version = [now |-> 1, born |-> 0] /\ blind = FALSE

Step(from, to) == main = from /\ main' = to
\* An exception of create_cluster: the cleanup follows.
Raises(from) == Step(from, "finish") /\ UNCHANGED <<mode, world, seed, code, test>>
Live == main \notin Ended

-----------------------------------------------------------------------------
(* The thread.                                                              *)

\* A round of its loop: the file of the create if it is there, else the bootstrap cluster's
\* secret; whose apiserver answers is the one to seed.
Look ==
  /\ Live /\ watcher = "look" /\ watcher' = "seed"
  /\ \/ (kubeconfig \/ boot = "new") /\ api /\ target' = "new"
     \/ ~kubeconfig /\ boot = "old" /\ left = "answers" /\ target' = "old"
  /\ UNCHANGED <<main, mode, world, code, test>>

\* _apply_preseed, one ConfigMap per name: all, or an exception after some of them, which is
\* recorded, and the loop goes on.
Seeds(n) ==
  /\ Live /\ watcher = "seed" /\ target = "new" /\ n \notin cm /\ cm' = cm \cup {n}
  /\ UNCHANGED <<main, mode, world, seed, running, gens, test>>
Seeded ==
  /\ Live /\ watcher = "seed"
  /\ \/ (target = "new" => cm = HrNames) /\ watcher' = "done" /\ UNCHANGED target
     \/ watcher' = "look" /\ target' = "none"
  /\ UNCHANGED <<main, mode, world, code, test>>

\* An exception of the probes themselves, or ninety minutes.
Dies ==
  /\ Live /\ watcher = "look" /\ watcher' \in {"dead", "late"}
  /\ UNCHANGED <<main, mode, world, target, code, test>>

-----------------------------------------------------------------------------
(* The cluster.                                                             *)

\* The control plane of the new cluster is initialized.
Comes ==
  /\ main = "create" /\ ~api
  /\ \/ boot = "none" /\ boot' = "new" /\ UNCHANGED api
     \/ boot = "new" /\ api' = TRUE /\ UNCHANGED boot
  /\ UNCHANGED <<main, mode, left, kubeconfig, seed, code, test>>

\* Helm renders the component, the first time in the create or the install, and again at
\* any time or never: it watches no ConfigMap, and a request to render is one that nobody
\* waits for.  Every image has its ReplicaSet.
Render ==
  /\ Live /\ api /\ (running = "none" => main \in {"create", "install", "retry"})
  /\ running # "other"
  /\ running' = (IF HrName \in cm THEN "yours" ELSE "ga")
  /\ gens' = gens \cup {running'}
  /\ UNCHANGED <<main, mode, world, seed, cm, test>>

-----------------------------------------------------------------------------
(* create_cluster.                                                          *)

Sweep ==
  /\ Step("sweep", "reset") /\ left' = (IF left = "none" THEN "none" ELSE "swept")
  /\ UNCHANGED <<mode, boot, kubeconfig, api, seed, code, test>>

\* reset_bootstrap.
Reset ==
  /\ Step("reset", "create") /\ boot' = "none"
  /\ UNCHANGED <<mode, left, kubeconfig, api, seed, code, test>>

\* The CLI moves itself into the new cluster and writes the file; a lost watch is waited
\* out; or it fails.
Create ==
  \/ /\ Step("create", "gate") /\ api /\ kubeconfig' = TRUE /\ boot' = "none"
     /\ UNCHANGED <<mode, left, api, seed, code, test>>
  \/ Raises("create")

\* A ConfigMap of one of the names is on the cluster, or the run is over.
Gate ==
  \/ Step("gate", "preseed") /\ cm # {} /\ UNCHANGED <<mode, world, seed, code, test>>
  \/ Raises("gate")

\* Mutant of Preseed: what the gate has seen is taken for all.
Preseed_Trusts ==
  /\ Step("preseed", "install") /\ UNCHANGED <<mode, world, seed, code, test>>
\* Every name's ConfigMap is written, and read back by nobody; a refusal raises.
Preseed ==
  \/ Step("preseed", "install") /\ cm' = HrNames
     /\ UNCHANGED <<mode, world, seed, running, gens, test>>
  \/ Raises("preseed")

\* Once more with the credentials held, or after two minutes.
Install ==
  \/ /\ Step("install", "deliver") \/ Step("retry", "deliver")
        \/ Step("install", "retry")
     /\ UNCHANGED <<mode, world, seed, code, test>>
  \/ Raises("install") \/ Raises("retry")

\* override_component_image on the HelmRelease that exists by then, which succeeds when the
\* image's key is found: whether the ConfigMap and the request to render are accepted is not
\* looked at, and the rollout is not waited for.
Deliver ==
  \/ /\ Step("deliver", "fingerprint") /\ running # "none"
     /\ cm' \in {cm, cm \cup {HrName}}
     /\ UNCHANGED <<mode, world, seed, running, gens, test>>
  \/ Raises("deliver")

\* The fingerprint, and then the mode; _settle may raise after that.
Fingerprint ==
  /\ main = "fingerprint" /\ mode' = "created" /\ main' \in {"scenario", "finish"}
  /\ \/ version' = [version EXCEPT !.born = version.now] /\ UNCHANGED blind
     \/ blind' = TRUE /\ UNCHANGED version
  /\ UNCHANGED <<world, seed, code, asserted, tainted>>

-----------------------------------------------------------------------------
(* The scenario's steps, and finish_cluster.                                *)

\* Mutant of Assert: strict looks at the Deployment like the rest.
Assert_Spec ==
  /\ main = "scenario"
  /\ \/ running # "yours" /\ main' = "finish" /\ UNCHANGED asserted
     \/ running = "yours" /\ asserted' \in {"runs", "strict"} /\ UNCHANGED main
  /\ UNCHANGED <<mode, world, seed, code, tainted, version, blind>>
\* assert_change_running: the Deployment, for up to ten minutes, and with strict every
\* ReplicaSet.  Only what strict finds taints the cluster.
Assert ==
  /\ main = "scenario"
  /\ \/ running # "yours" /\ main' = "finish" /\ UNCHANGED <<asserted, tainted>>
     \/ /\ running = "yours" /\ UNCHANGED <<main, tainted>>
        /\ asserted' = (IF asserted = "strict" THEN "strict" ELSE "runs")
     \/ /\ running = "yours" /\ asserted' = "strict"
        /\ \/ gens = {"yours"} /\ UNCHANGED <<main, tainted>>
           \/ gens # {"yours"} /\ tainted' = TRUE /\ main' = "finish"
  /\ UNCHANGED <<mode, world, seed, code, version, blind>>

\* An upgrade of what was built.
Upgrades ==
  /\ main = "scenario" /\ version.now = 1 /\ version' = [version EXCEPT !.now = 2]
  /\ running' = "other" /\ gens' = gens \cup {"other"}
  /\ UNCHANGED <<main, mode, world, seed, cm, asserted, tainted, blind>>

Ends ==
  /\ Step("scenario", "finish") /\ UNCHANGED <<mode, world, seed, code, test>>

\* Mutant of Finish: tainted is forgotten when the mode says created.
Finish_ByMode ==
  /\ main = "finish"
  /\ main' = (IF mode = "created-incomplete" THEN "kept" ELSE "freeze")
  /\ UNCHANGED <<mode, world, seed, code, test>>
\* A fingerprint that cannot be read now shows no drift either.
Finish ==
  /\ main = "finish"
  /\ LET drift == version.born # 0 /\ version.now # version.born IN
     \/ (tainted \/ drift) /\ main' = "deleted" /\ UNCHANGED blind
     \/ ~tainted /\ drift /\ mode = "created" /\ main' = "freeze" /\ blind' = TRUE
     \/ ~tainted /\ ~drift /\ UNCHANGED blind
        /\ main' = (IF mode = "created-incomplete" THEN "kept" ELSE "freeze")
  /\ UNCHANGED <<mode, world, seed, code, asserted, tainted, version>>

Next ==
  \/ Look \/ (\E n \in HrNames : Seeds(n)) \/ Seeded \/ Dies \/ Comes \/ Render
  \/ Sweep \/ Reset \/ Create \/ Gate \/ Preseed \/ Install \/ Deliver \/ Fingerprint
  \/ Assert \/ Upgrades \/ Ends \/ Finish

Spec == Init /\ [][Next]_vars

-----------------------------------------------------------------------------
(* Properties.                                                              *)

\* "The override lives in at-rest cluster state": what is frozen has the override under its
\* HelmRelease's name, runs your image if an assertion has passed, and has run nothing else
\* from its first render on if it was a strict one ("old code never ran on this cluster");
\* unless a fingerprint could not be read.
FrozenIsYours ==
  main = "freeze" =>
    \/ blind
    \/ /\ HrName \in cm
       /\ asserted # "none" => running = "yours"
       /\ asserted = "strict" => gens = {"yours"}

\* "A template genuinely BORN WITH these images": frozen without an assertion, or after one
\* that has failed, it may still run the shipped image.
BornWithYours == main = "freeze" => blind \/ running = "yours"

\* "This watcher grabs the new cluster's kubeconfig": what it has seeded is the new cluster.
SeedsTheNew == watcher = "done" => target = "new"

\* "The GA image never runs - not even once": behind the gate it has not.
GateMeansNoOldCode == main = "preseed" => "ga" \notin gens
=============================================================================
