------------------------------- MODULE Upgrade -------------------------------
(***************************************************************************)
(* upgrade_kommander: a developer's changes are delivered to a running     *)
(* cluster, the platform is upgraded over them, and the result is          *)
(* verified.  The step writes into the cluster while flux, the             *)
(* ManagementPlane controller and kommander-operator write there too, and  *)
(* while a watcher thread of its own may kill its CLI.                     *)
(*                                                                         *)
(* Content is told apart by who made it: 0 is what NKP ships, n what the   *)
(* n-th upgrade of the scenario delivers.  verify is on, as by default.    *)
(***************************************************************************)
EXTENDS Integers

CONSTANTS
  MaxUpgrades,  \* bound on the upgrade_kommander steps of the scenario
  Targets,      \* the versions it may name; the cluster starts at 0
  Released,     \* those for which ghcr.io/mesosphere has a bundle
  ChangeSets,   \* the change-sets it may name
  Patience      \* how many drifts in a row the watcher waits for: 3 in the code

ASSUME PatienceAssumption == Patience \in Nat \ {0}
ASSUME TargetsAssumption == Targets \subseteq Nat \ {0} /\ Released \subseteq Targets
ASSUME MaxUpgradesAssumption == MaxUpgrades \in Nat

Steps == 1..MaxUpgrades
Makers == 0..MaxUpgrades
Absent == -1                  \* a carrier the cluster does not have, or a failed read
Versions == {Absent, 0} \cup Targets

\* A carrier of the version that every release line has, and one that only the newer has.
Carriers == {"kommandercore", "nkpcluster"}
\* A change-set's parts: charts; controller code that becomes an image; applications.
Kinds == {"charts", "image", "content"}
ASSUME ChangeSetsAssumption == ChangeSets \subseteq SUBSET Kinds

VARIABLES
  at,        \* where the step is
  why,       \* why it failed
  job,       \* its number, change-set, target; main: content comes with a kommander commit
  todo,      \* what it has still to deliver
  notes,     \* ctx.remember: the baseline, carriers_before_auto, the change-set's
             \*   kommander entry, kapps_bundle_url; own: the scenario took the baseline
  bundles,   \* your registry: what each version's k-apps bundle holds
  repo,      \* the applications tree handed to the CLI
  cli,       \* off, running, ok, failed, killed
  killer,    \* whose watcher killed it
  watch,     \* the watchers' count of drifts seen; Found, Ended, Off
  engine,    \* what the upgrade does in the cluster: off, write, plane, pull, roll
  carriers,  \* the version in each carrier
  git,       \* kommander.git: application definitions, the chart they name, and whether
             \*   the controller's Deployment in it names your bundle
  pending,   \* what flux has still to apply of it: app, plane
  apps,      \* what runs: maker and version of the applications
  chart,     \* the chart the application pulls
  override,  \* the image in the overrides ConfigMap
  image,     \* the image that runs
  env,       \* KAPPS_OCI_URL in the controller's Deployment is yours
  pod,       \* the same in its running pod
  oci        \* the version's OCIRepository: yours or not, and its tag

step == <<at, why, job, todo, notes>>
built == <<bundles, repo>>
run == <<cli, killer, watch, engine>>
content == <<git, pending, apps, chart>>
plane == <<env, pod, oci>>
cluster == <<carriers, content, override, image, plane>>
vars == <<step, built, run, cluster>>

Found == Patience
Ended == Patience + 1
Off == Patience + 2

Trees == [by : Makers, chart : Makers, baked : BOOLEAN, version : {0} \cup Targets]
Shipped(v) == [by |-> 0, chart |-> 0, baked |-> FALSE, version |-> v]
Snapshots == [carriers : [Carriers -> Versions], version : {Absent, 0} \cup Targets,
              chart : Makers]
Nothing == [carriers |-> [c \in Carriers |-> Absent], version |-> Absent, chart |-> 0]

Checks == {"carriers", "content", "operators", "apps", "source", "healthy", "images"}

TypeOK ==
  /\ at \in {"idle", "baseline", "deliver", "cli", "bundle", "point", "stage", "launch",
             "run", "green", "red"} \cup Checks
  /\ why \in {"none", "refused", "drift", "cli", "check", "image"}
  /\ job \in [n : Makers, changes : SUBSET Kinds, target : Targets \cup {0}, main : BOOLEAN]
  /\ todo \subseteq Kinds
  /\ notes \in [before : Snapshots, taken : BOOLEAN, auto : BOOLEAN, own : BOOLEAN,
                named : Makers, bundle : BOOLEAN]
  /\ bundles \in [Targets -> Trees] /\ repo \in Trees
  /\ cli \in {"off", "running", "ok", "failed", "killed"} /\ killer \in Makers
  /\ watch \in [Steps -> 0..Off] /\ engine \in {"off", "write", "plane", "pull", "roll"}
  /\ carriers \in [Carriers -> Versions] /\ git \in Trees /\ pending \subseteq {"app", "plane"}
  /\ apps \in [by : Makers, version : {0} \cup Targets] /\ chart \in Makers
  /\ override \in Makers /\ image \in Makers /\ env \in BOOLEAN /\ pod \in BOOLEAN
  /\ oci \in [yours : BOOLEAN, tag : {0} \cup Targets]

Init ==
  /\ at = "idle" /\ why = "none" /\ todo = {}
  /\ job = [n |-> 0, changes |-> {}, target |-> 0, main |-> FALSE]
  /\ notes = [before |-> Nothing, taken |-> FALSE, auto |-> FALSE, own |-> FALSE,
              named |-> 0, bundle |-> FALSE]
  /\ bundles = [v \in Targets |-> Shipped(0)] /\ repo = Shipped(0)
  /\ cli = "off" /\ killer = 0 /\ watch = [n \in Steps |-> Off] /\ engine = "off"
  /\ carriers \in [Carriers -> {0, Absent}] /\ carriers["kommandercore"] = 0
  /\ git = Shipped(0) /\ pending = {} /\ apps = [by |-> 0, version |-> 0] /\ chart = 0
  /\ override = 0 /\ image = 0 /\ env = FALSE /\ pod = FALSE
  /\ oci = [yours |-> FALSE, tag |-> 0]

Goes(from, to) == at = from /\ at' = to
Fails(reason) == at' = "red" /\ why' = reason

-----------------------------------------------------------------------------
(* The cluster.                                                             *)

\* A write to kommander.git, and the bundle a version resolves to: the tag may be missing.
Writes(tree, what) == git' = tree /\ pending' = pending \cup what
Resolvable == IF oci.yours THEN oci.tag \in Targets /\ bundles[oci.tag].by # 0
                           ELSE oci.tag \in Released \cup {0}
Bundle == IF oci.yours THEN bundles[oci.tag] ELSE Shipped(oci.tag)

\* Flux applies kommander.git: definitions with their chart references, and the
\* controller's Deployment, whose KAPPS_OCI_URL is then what the manifest says.
FluxApplies ==
  /\ \/ /\ "app" \in pending /\ pending' = pending \ {"app"}
        /\ apps' = [by |-> git.by, version |-> git.version] /\ chart' = git.chart
        /\ UNCHANGED env
     \/ /\ "plane" \in pending /\ pending' = pending \ {"plane"}
        /\ env' = git.baked
        /\ UNCHANGED <<apps, chart>>
  /\ UNCHANGED <<step, built, run, carriers, git, override, image, pod, oci>>

Rollout ==
  /\ pod # env /\ pod' = env
  /\ UNCHANGED <<step, built, run, carriers, content, override, image, env, oci>>

\* The controller forces the OCIRepository's url on every reconcile, and
\* kommander-operator pushes the artifact's applications over those in git.
Reconciles ==
  /\ \/ oci.yours # pod /\ oci' = [oci EXCEPT !.yours = pod] /\ UNCHANGED <<git, pending>>
     \/ /\ Resolvable /\ git.by # Bundle.by /\ UNCHANGED oci
        /\ Writes([Bundle EXCEPT !.baked = git.baked], {"app"})
  /\ UNCHANGED <<step, built, run, carriers, apps, chart, override, image, env, pod>>

\* Helm renders the override: the ConfigMap lies outside of git.
Renders ==
  /\ image # override /\ image' = override
  /\ UNCHANGED <<step, built, run, carriers, content, override, plane>>

-----------------------------------------------------------------------------
(* nkp upgrade kommander, and what the ManagementPlane does for it.          *)

CliWrites ==
  /\ cli = "running" /\ engine = "write" /\ engine' = "plane"
  /\ Writes([repo EXCEPT !.version = job.target], {"app", "plane"})
  /\ UNCHANGED <<step, built, cli, killer, watch, carriers, apps, chart, override, image, plane>>

\* The OCIRepository of the target, from the pod's environment; the step blocks until
\* flux has pulled it, and installs applications and operators from it.
PlaneResolves ==
  /\ engine = "plane" /\ engine' = "pull"
  /\ oci' = [yours |-> pod, tag |-> job.target]
  /\ UNCHANGED <<step, built, cli, killer, watch, carriers, content, override, image, env, pod>>
PlaneInstalls ==
  /\ engine = "pull" /\ Resolvable /\ engine' = "roll"
  /\ Writes(Bundle, {"app", "plane"})
  /\ UNCHANGED <<step, built, cli, killer, watch, carriers, apps, chart, override, image, plane>>

\* The controllers write their carriers one after the other.
Carries ==
  /\ engine = "roll"
  /\ \E c \in Carriers : carriers[c] # oci.tag /\ carriers' = [carriers EXCEPT ![c] = oci.tag]
  /\ UNCHANGED <<step, built, run, content, override, image, plane>>

\* It returns early when the cluster is at its version, and it may time out.
CliEnds ==
  /\ cli = "running"
  /\ cli' \in {"failed"} \cup (IF engine \in {"off", "roll"} THEN {"ok"} ELSE {})
  /\ UNCHANGED <<step, built, killer, watch, engine, cluster>>

-----------------------------------------------------------------------------
(* _pin_drift_watch: a daemon thread that looks every 20 s.                  *)

\* Mutant of Looks: the CLI is killed before the event is set.
Looks_KillFirst(n) ==
  /\ watch[n] < Found
  /\ \/ /\ \E seen \in {0, watch[n] + 1} \ {Found} : watch' = [watch EXCEPT ![n] = seen]
        /\ UNCHANGED <<cli, killer>>
     \/ /\ watch[n] = Found - 1 /\ cli = "running" /\ cli' = "killed" /\ killer' = n
        /\ UNCHANGED watch
  /\ UNCHANGED <<step, built, engine, cluster>>
\* A pin that does not resolve, or all that do; an API error changes nothing.
Looks(n) ==
  /\ watch[n] < Found
  /\ \E seen \in {0, watch[n] + 1} : watch' = [watch EXCEPT ![n] = seen]
  /\ UNCHANGED <<step, built, cli, killer, engine, cluster>>

\* pkill by the kubeconfig's path.
Kills(n) ==
  /\ watch[n] = Found /\ watch' = [watch EXCEPT ![n] = Ended]
  /\ IF cli = "running" THEN cli' = "killed" /\ killer' = n ELSE UNCHANGED <<cli, killer>>
  /\ UNCHANGED <<step, built, engine, cluster>>

-----------------------------------------------------------------------------
(* The step: what it knows before it delivers.                               *)

\* A snapshot; a kind whose listing fails is recorded as absent.
Snapshot(blind) ==
  [carriers |-> [c \in Carriers |-> IF c \in blind THEN Absent ELSE carriers[c]],
   version |-> apps.version, chart |-> chart]

\* A scenario may take the baseline itself, with the record_ steps.
Records ==
  /\ at \in {"idle", "green"} /\ at' = "idle" /\ job.n < MaxUpgrades
  /\ notes' = [notes EXCEPT !.before = Snapshot({}), !.taken = TRUE, !.own = TRUE]
  /\ UNCHANGED <<why, job, todo, built, run, cluster>>

\* The cluster is at rest when an upgrade begins, and never asked to go back.
AtRest ==
  /\ pending = {} /\ pod = env /\ oci.yours = pod
  /\ engine # "off" => \A c \in Carriers : carriers[c] = oci.tag
Begins ==
  /\ at \in {"idle", "green"} /\ job.n < MaxUpgrades /\ AtRest
  /\ \E changes \in ChangeSets, target \in Targets, main \in BOOLEAN :
       /\ target >= carriers["kommandercore"] /\ (main => "content" \in changes)
       /\ job' = [n |-> job.n + 1, changes |-> changes, target |-> target, main |-> main]
       /\ todo' = changes
  /\ at' = "baseline" /\ UNCHANGED <<why, notes, built, run, cluster>>

\* Mutant of Baseline: a snapshot that an earlier upgrade took is kept.
Baseline_Once(blind) ==
  notes' = IF notes.taken THEN notes
           ELSE [notes EXCEPT !.before = Snapshot(blind), !.taken = TRUE, !.auto = TRUE,
                              !.own = FALSE]
\* _autorecord_upgrade_baseline; the three snapshots are taken alike.
Baseline(blind) ==
  notes' = IF notes.taken /\ ~notes.auto THEN notes
           ELSE [notes EXCEPT !.before = Snapshot(blind), !.taken = TRUE, !.auto = TRUE,
                              !.own = FALSE]

TakesBaseline ==
  /\ Goes("baseline", "deliver")
  /\ \E blind \in SUBSET Carriers : Baseline(blind)
  /\ UNCHANGED <<why, job, todo, built, run, cluster>>

-----------------------------------------------------------------------------
(* _deliver_changes, in the order of the repositories' names.                *)

\* What a commit of yours holds; a chart that you deliver too is named by it or not.
Yours(named) == [by |-> job.n, chart |-> IF named THEN job.n ELSE 0, baked |-> FALSE,
                 version |-> git.version]

\* The change-set names a kommander commit: for its code, or for the applications' tree,
\* which the main line keeps in that repository.
NamesKommander == "image" \in job.changes \/ job.main

\* The change-set is remembered: which kommander commit the cluster should run.
Delivering(kind) ==
  /\ at = "deliver" /\ kind \in todo /\ todo' = todo \ {kind}
  /\ notes' = [notes EXCEPT !.named = IF NamesKommander THEN job.n ELSE 0]
  /\ UNCHANGED <<at, why, job, built, run>>

\* The result of the patch that repoints the OCIRepository is not looked at.
Repoints == chart' \in {chart, job.n}
\* Each chart is published under its own tag, and under the one the content names.
DeliverCharts ==
  /\ Delivering("charts") /\ Repoints
  /\ UNCHANGED <<carriers, git, pending, apps, override, image, plane>>

\* The image, built and pushed if it is not there, in the overrides ConfigMap.
Overrides == override' = job.n
DeliverImage ==
  /\ "charts" \notin todo /\ Delivering("image") /\ Overrides
  /\ UNCHANGED <<carriers, content, image, plane>>

\* The devloop script pushes the changed applications.
Syncs ==
  \E named \in {FALSE, "charts" \in job.changes} :
    Writes([Yours(named) EXCEPT !.baked = git.baked], {"app"})
\* None changed, disabled ones, and those in sync already are no failures on an upgrade.
DeliverContent ==
  /\ todo = {"content"} /\ Delivering("content")
  /\ Syncs \/ UNCHANGED <<git, pending>>
  /\ UNCHANGED <<carriers, apps, chart, override, image, plane>>

\* _cli_for_upgrade: the CLI is compiled with the target as its version, whoever
\* wrote its code; a release is fetched otherwise.
BuildsCli ==
  /\ todo = {} /\ Goes("deliver", "bundle")
  /\ UNCHANGED <<why, job, todo, notes, built, run, cluster>>

-----------------------------------------------------------------------------
(* _ensure_kapps_bundle, with the CLI built and the target known.            *)

\* Shipped applications: a version that is published, and nothing to do.
ShippedBundle ==
  /\ Goes("bundle", "launch") /\ "content" \notin job.changes /\ job.target \in Released
  /\ repo' = Shipped(job.target)
  /\ UNCHANGED <<why, job, todo, notes, bundles, run, cluster>>

Publish(baked) ==
  \E named \in {FALSE, "charts" \in job.changes} :
    bundles' = [bundles EXCEPT ![job.target] =
      [Yours(named) EXCEPT !.baked = baked, !.version = job.target]]
\* Mutant of YourBundle: the bundle does not name its origin.
YourBundle_Unbaked ==
  /\ Goes("bundle", "point") /\ "content" \in job.changes /\ Publish(FALSE)
  /\ notes' = [notes EXCEPT !.bundle = TRUE]
  /\ UNCHANGED <<why, job, todo, repo, run, cluster>>
YourBundle ==
  /\ Goes("bundle", "point") /\ "content" \in job.changes /\ Publish(TRUE)
  /\ notes' = [notes EXCEPT !.bundle = TRUE]
  /\ UNCHANGED <<why, job, todo, repo, run, cluster>>

\* point_cluster_at_kapps_bundle: the environment, and the wait for the rollout.
Point ==
  /\ Goes("point", "stage") /\ env' = TRUE
  /\ UNCHANGED <<why, job, todo, notes, built, run, carriers, content, override, image, pod, oci>>
Stage ==
  /\ pod = env /\ Goes("stage", "launch")
  /\ repo' = bundles[job.target]
  /\ UNCHANGED <<why, job, todo, notes, bundles, run, cluster>>

-----------------------------------------------------------------------------
(* The CLI's run, and the verification.                                      *)

Launch ==
  /\ Goes("launch", "run")
  /\ cli' = "running" /\ killer' = 0 /\ watch' = [watch EXCEPT ![job.n] = 0]
  /\ engine' = IF carriers["kommandercore"] = job.target THEN "off" ELSE "write"
  /\ UNCHANGED <<why, job, todo, notes, built, cluster>>

Returns ==
  /\ at = "run" /\ cli \in {"ok", "failed", "killed"}
  /\ \/ watch[job.n] \in {Found, Ended} /\ Fails("drift")
     \/ watch[job.n] \notin {Found, Ended} /\ cli = "ok" /\ at' = "carriers" /\ UNCHANGED why
     \/ watch[job.n] \notin {Found, Ended} /\ cli # "ok" /\ Fails("cli")
  /\ UNCHANGED <<job, todo, notes, built, run, cluster>>

\* "moved": the baseline says that the cluster was not at the target.
Moved == notes.before.carriers["kommandercore"] # job.target

\* assert_platform_upgraded, on its last reading: who was there before must be there
\* and agree, who was not may be absent, and not all may be.
\* Mutant of Agreed: an absent carrier is skipped, whatever it was before.
Agreed_SkipsAbsent(now) ==
  /\ \A c \in Carriers : now[c] \in {job.target, Absent}
  /\ \E c \in Carriers : now[c] # Absent
Agreed(now) ==
  /\ \A c \in Carriers :
       now[c] = job.target \/ (now[c] = Absent /\ notes.before.carriers[c] = Absent)
  /\ \E c \in Carriers : now[c] # Absent

CheckCarriers ==
  /\ Goes("carriers", "content")
  /\ \E blind \in SUBSET Carriers : Agreed(Snapshot(blind).carriers)

\* The other checks by listing: what is not seen is not on this release line.
CheckContent ==
  /\ Goes("content", "operators")
  /\ \E seen \in {FALSE, oci.tag = job.target} : seen => Resolvable
CheckOperators ==
  /\ Goes("operators", "apps")
  /\ \E seen \in BOOLEAN : seen => git.version = job.target /\ "plane" \notin pending
CheckApps ==
  /\ Goes("apps", "source")
  /\ Moved => apps.version # notes.before.version

\* assert_kapps_bundle_source, if a bundle was ever published in this run.
CheckSource ==
  /\ Goes("source", "healthy")
  /\ notes.bundle => oci.yours /\ oci.tag = job.target /\ Resolvable
CheckHealthy == Goes("healthy", "images") /\ pod = env

\* assert_change_running, for the kommander entry of the change-set.
CheckImages ==
  /\ Goes("images", "green")
  /\ notes.named # 0 => image = notes.named

Check ==
  /\ CheckCarriers \/ CheckContent \/ CheckOperators \/ CheckApps \/ CheckSource
       \/ CheckHealthy \/ CheckImages
  /\ UNCHANGED <<why, job, todo, notes, built, run, cluster>>

\* A step before the CLI refuses or fails; a check runs out of time.
GivesUp ==
  /\ \/ at \in {"baseline", "deliver", "bundle", "point", "stage"} /\ Fails("refused")
     \/ at \in Checks \ {"images"} /\ Fails("check")
     \/ at = "images" /\ image # notes.named /\ Fails("image")
  /\ UNCHANGED <<job, todo, notes, built, run, cluster>>

-----------------------------------------------------------------------------
Step ==
  \/ Records \/ Begins \/ TakesBaseline
  \/ DeliverCharts \/ DeliverImage \/ DeliverContent \/ BuildsCli
  \/ ShippedBundle \/ YourBundle \/ Point \/ Stage
  \/ Launch \/ Returns \/ Check \/ GivesUp
Cluster ==
  \/ FluxApplies \/ Rollout \/ Reconciles \/ Renders
  \/ CliWrites \/ PlaneResolves \/ PlaneInstalls \/ Carries \/ CliEnds

Next == Step \/ Cluster \/ \E n \in Steps : Looks(n) \/ Kills(n)

Spec == Init /\ [][Next]_vars

-----------------------------------------------------------------------------
(* A green upgrade that delivered applications leaves a cluster that       *)
(* resolves them from your bundle, and goes on doing so: no write still    *)
(* under way puts the shipped bundle back.                                 *)
StaysYours ==
  at = "green" /\ "content" \in job.changes =>
    /\ oci.yours /\ oci.tag = job.target
    /\ bundles[job.target].by = job.n

(* No partial upgrade is green: every carrier of the version that the      *)
(* baseline saw is at the target, though listings fail now and then.       *)
GreenKnewAll ==
  at = "green" =>
    \A c \in Carriers : notes.before.carriers[c] # Absent => carriers[c] = job.target

(* What an upgrade is measured against, unless the scenario chose it, is   *)
(* the cluster before this upgrade: without the chart that it delivered,   *)
(* and behind the target only if the CLI had something to do.              *)
BaselineIsBefore ==
  at \in Checks \cup {"green"} /\ notes.auto =>
    /\ notes.before.chart # job.n
    /\ notes.before.carriers["kommandercore"] \notin {Absent, job.target} => engine # "off"

(* A CLI that this upgrade's watcher has killed fails with its diagnosis.  *)
OwnKillExplained ==
  at = "red" /\ killer = job.n => why = "drift"

(* What the comments say: the watcher looks "while the CLI runs", so that  *)
(* a killed CLI is always explained.                                       *)
KillIsExplained == at = "red" /\ killer # 0 => why = "drift"

(* "Anything delivered on this cluster must still be running afterwards."  *)
DeliveredStillRuns ==
  at = "green" /\ pending = {} /\ "charts" \in job.changes => chart = job.n

(* No upgrade fails for an image that nobody delivered.                    *)
NoFalseAlarm ==
  at = "red" /\ why = "image" => override = notes.named

(* "An explicit record_* earlier in the scenario is a deliberate baseline  *)
(* and must never be overwritten."                                         *)
ExplicitIsKept == [][notes.own => notes'.own]_vars

=============================================================================
