----------------------------- MODULE UpgradeProofs -----------------------------
(* upgrade_kommander over any number of upgrades, versions and change-sets:    *)
(* a green upgrade resolves your applications and goes on doing so, has seen   *)
(* every carrier, was measured against what was there before it, and a CLI     *)
(* that its own watcher has killed is explained.                               *)
EXTENDS Upgrade, TLAPS

-----------------------------------------------------------------------------
(* The inductive invariant, part by part.                                   *)

\* From the beginning of an upgrade to the launch of its CLI, and from there to its end.
Before == {"baseline", "deliver", "bundle", "point", "stage", "launch"}
After == {"run", "green"} \cup Checks

\* The upgrade under way has a number and a target.
JobIsNamed == at # "idle" => job.n \in Steps /\ job.target \in Targets

\* The CLI runs in its own place only, and what it leaves without having failed has got
\* through, or had nothing to do.
CliInItsPlace ==
  /\ at # "run" => cli # "running"
  /\ at \notin {"run", "red"} => cli \in {"off", "ok"}
  /\ cli \in {"off", "ok"} => engine \in {"off", "roll"}

\* A watcher that has killed has got to its end; nobody kills in the name
\* of an upgrade that has not launched.
KillerHasEnded ==
  /\ killer <= job.n /\ \A n \in Steps : n > job.n => watch[n] = Off
  /\ at \notin {"idle", "run", "red"} => killer # job.n
  /\ at = "run" /\ killer = job.n => watch[job.n] = Ended

\* The cluster is at rest until the launch: nothing of the controller's Deployment is
\* still to be applied, and no carrier still to be written.
RestsBefore ==
  at \in Before => /\ pending \subseteq {"app"}
                   /\ engine # "off" => \A c \in Carriers : carriers[c] = oci.tag

\* After it, what the plane rolls out is the target.
RollsOutTarget == at \in After /\ engine \in {"pull", "roll"} => oci.tag = job.target

\* What has been made so far: at the baseline, nothing of this upgrade.
Latest == IF at = "baseline" THEN job.n - 1 ELSE job.n
MadeSoFar ==
  /\ chart <= Latest /\ git.chart <= Latest /\ repo.chart <= job.n
  /\ \A v \in Targets : bundles[v].chart <= Latest

\* A baseline of its own is what the cluster was, up to the launch; the CLI then has
\* something to do, unless the cluster was at the target.
OwnBaseline ==
  /\ at \in (Before \ {"baseline"}) \cup After /\ notes.auto => notes.before.chart # job.n
  /\ at \in Before \ {"baseline"} /\ notes.auto =>
       notes.before.carriers["kommandercore"] \in {Absent, carriers["kommandercore"]}
  /\ at \in After /\ notes.auto
       /\ notes.before.carriers["kommandercore"] \notin {Absent, job.target} => engine # "off"

\* Behind their check the carriers are at the target.
CarriersAgree ==
  at \in (Checks \ {"carriers"}) \cup {"green"} =>
    \A c \in Carriers : notes.before.carriers[c] # Absent => carriers[c] = job.target

\* An upgrade with applications of yours: the bundle is published with its origin, the
\* controller's environment names it, and so does whatever is written over that.
Published ==
  "content" \in job.changes /\ at \in {"point", "stage", "launch"} \cup After =>
    notes.bundle /\ bundles[job.target].by = job.n /\ bundles[job.target].baked
Pointed ==
  "content" \in job.changes /\ at \in {"stage", "launch"} \cup After =>
    /\ env /\ ("plane" \in pending => git.baked)
    /\ at # "stage" => pod /\ repo.baked
    /\ at \in After /\ engine = "pull" => oci.yours
Resolved ==
  "content" \in job.changes /\ at \in {"healthy", "images", "green"} =>
    oci.yours /\ oci.tag = job.target

IInv == /\ TypeOK /\ JobIsNamed
        /\ CliInItsPlace /\ KillerHasEnded /\ OwnKillExplained
        /\ RestsBefore /\ RollsOutTarget
        /\ MadeSoFar /\ OwnBaseline /\ CarriersAgree
        /\ Published /\ Pointed /\ Resolved

-----------------------------------------------------------------------------
(* Types.                                                                   *)

StepTypes ==
  /\ at \in {"idle", "baseline", "deliver", "cli", "bundle", "point", "stage", "launch",
             "run", "green", "red"} \cup Checks
  /\ why \in {"none", "refused", "drift", "cli", "check", "image"}
  /\ todo \subseteq Kinds
JobType ==
  job \in [n : Makers, changes : SUBSET Kinds, target : Targets \cup {0}, main : BOOLEAN]
NotesType ==
  notes \in [before : Snapshots, taken : BOOLEAN, auto : BOOLEAN, own : BOOLEAN,
             named : Makers, bundle : BOOLEAN]
BuiltTypes == bundles \in [Targets -> Trees] /\ repo \in Trees
RunTypes ==
  /\ cli \in {"off", "running", "ok", "failed", "killed"} /\ killer \in Makers
  /\ watch \in [Steps -> 0..Off] /\ engine \in {"off", "write", "plane", "pull", "roll"}
ContentTypes ==
  /\ git \in Trees /\ pending \subseteq {"app", "plane"}
  /\ apps \in [by : Makers, version : {0} \cup Targets] /\ chart \in Makers
ClusterTypes ==
  /\ carriers \in [Carriers -> Versions] /\ override \in Makers /\ image \in Makers
  /\ env \in BOOLEAN /\ pod \in BOOLEAN /\ oci \in [yours : BOOLEAN, tag : {0} \cup Targets]

LEMMA TypesInGroups ==
  TypeOK <=> /\ StepTypes /\ JobType /\ NotesType /\ BuiltTypes /\ RunTypes
             /\ ContentTypes /\ ClusterTypes
BY DEF TypeOK, StepTypes, JobType, NotesType, BuiltTypes, RunTypes, ContentTypes, ClusterTypes

\* Numbers: the upgrades, the versions and the watcher's counts.
LEMMA Numbers ==
  /\ 0 \in Makers /\ Steps \subseteq Makers /\ Makers \subseteq Nat
  /\ \A n \in Makers : n < MaxUpgrades => n + 1 \in Steps
  /\ Absent \notin Targets /\ 0 \notin Targets /\ Targets \subseteq Nat
  /\ 0 \in 0..Off /\ Found \in 0..Off /\ Ended \in 0..Off /\ Off \in 0..Off
  /\ 0 # Ended /\ Found \in Nat /\ Found > 0 /\ Ended = Found + 1 /\ Off = Found + 2
  /\ \A k \in 0..Off : k < Found => k + 1 \in 0..Off /\ k + 1 <= Found
BY PatienceAssumption, TargetsAssumption, MaxUpgradesAssumption
   DEF Makers, Steps, Absent, Found, Ended, Off

\* Whether a tree names a chart is a matter of yes or no.
LEMMA NamedOrNot ==
  ASSUME NEW named \in {FALSE, "charts" \in job.changes}
  PROVE  named \in BOOLEAN
<1>1. ("charts" \in job.changes) \in BOOLEAN
  OBVIOUS
<1>2. named = FALSE \/ named = ("charts" \in job.changes)
  OBVIOUS
<1>3. QED
  BY <1>1, <1>2, Zenon

\* The trees that flux and the CLI are given are trees.
LEMMA TreeTypes ==
  /\ \A v \in {0} \cup Targets : Shipped(v) \in Trees
  /\ \A tree \in Trees, b \in BOOLEAN : [tree EXCEPT !.baked = b] \in Trees
  /\ \A tree \in Trees, v \in {0} \cup Targets : [tree EXCEPT !.version = v] \in Trees
  /\ JobType /\ git \in Trees => \A named \in BOOLEAN : Yours(named) \in Trees
BY Numbers DEF Shipped, Trees, JobType, Yours

LEMMA BundleTypes ==
  ASSUME BuiltTypes, ClusterTypes, Resolvable
  PROVE  Bundle \in Trees
<1>1. oci.tag \in {0} \cup Targets
  BY DEF ClusterTypes
<1>2. CASE oci.yours
  BY <1>2 DEF BuiltTypes, Resolvable, Bundle
<1>3. CASE ~oci.yours
  BY <1>1, <1>3, TreeTypes DEF Bundle
<1>4. QED
  BY <1>2, <1>3

LEMMA SnapshotTypes ==
  ASSUME ContentTypes, ClusterTypes, NEW blind
  PROVE  Snapshot(blind) \in Snapshots
BY DEF ContentTypes, ClusterTypes, Snapshot, Snapshots, Versions

LEMMA TypeInit == Init => TypeOK
<1> SUFFICES ASSUME Init PROVE TypeOK
  OBVIOUS
<1> USE Numbers DEF Init
<1>1. StepTypes /\ RunTypes
  BY DEF StepTypes, RunTypes
<1>2. JobType
  BY DEF JobType
<1>3. NotesType
  <2>1. Nothing \in Snapshots
    BY DEF Nothing, Snapshots, Versions
  <2>2. QED
    BY <2>1 DEF NotesType
<1>4. BuiltTypes
  BY TreeTypes DEF BuiltTypes
<1>5. ContentTypes
  BY TreeTypes DEF ContentTypes
<1>6. ClusterTypes
  BY DEF ClusterTypes, Versions
<1>7. QED
  BY <1>1, <1>2, <1>3, <1>4, <1>5, <1>6, TypesInGroups

\* Who writes what.
LEMMA Frames ==
  ASSUME Next
  PROVE  /\ UNCHANGED job \/ Begins
         /\ UNCHANGED notes \/ Records \/ TakesBaseline \/ YourBundle
              \/ \E kind \in Kinds : Delivering(kind)
         /\ UNCHANGED built \/ ShippedBundle \/ YourBundle \/ Stage
         /\ UNCHANGED run \/ CliWrites \/ PlaneResolves \/ PlaneInstalls \/ CliEnds \/ Launch
              \/ \E n \in Steps : Looks(n) \/ Kills(n)
         /\ UNCHANGED content \/ FluxApplies \/ Reconciles \/ CliWrites \/ PlaneInstalls
              \/ DeliverCharts \/ DeliverContent
         /\ UNCHANGED <<carriers, override, image, plane>> \/ Rollout \/ Reconciles \/ Renders
              \/ PlaneResolves \/ Carries \/ DeliverImage \/ Point \/ FluxApplies
         /\ UNCHANGED step \/ Step
<1> USE DEF step, built, run, content, plane, cluster
<1>1. CASE Cluster
  BY <1>1 DEF Cluster, FluxApplies, Rollout, Reconciles, Renders, CliWrites, PlaneResolves,
     PlaneInstalls, Carries, CliEnds
<1>2. ASSUME NEW n \in Steps, Looks(n) \/ Kills(n)
      PROVE  UNCHANGED <<step, built, cluster>>
  BY <1>2 DEF Looks, Kills
<1>3. CASE Records \/ Begins \/ TakesBaseline \/ BuildsCli
  BY <1>3 DEF Step, Records, Begins, TakesBaseline, BuildsCli
<1>4. CASE DeliverCharts \/ DeliverImage \/ DeliverContent
  BY <1>4 DEF Step, DeliverCharts, DeliverImage, DeliverContent, Delivering, Kinds
<1>5. CASE ShippedBundle \/ YourBundle \/ Point \/ Stage \/ Launch
  BY <1>5 DEF Step, ShippedBundle, YourBundle, Point, Stage, Launch
<1>6. CASE Returns \/ Check \/ GivesUp
  BY <1>6 DEF Step, Returns, Check, GivesUp
<1>7. QED
  BY <1>1, <1>2, <1>3, <1>4, <1>5, <1>6 DEF Next, Step

LEMMA StepTypesStep ==
  ASSUME StepTypes, Next
  PROVE  StepTypes'
<1> USE DEF StepTypes, Checks, Goes, Fails
<1>1. CASE UNCHANGED step
  BY <1>1 DEF step
<1>2. CASE Records \/ TakesBaseline \/ BuildsCli \/ ShippedBundle \/ YourBundle \/ Point
           \/ Stage \/ Launch
  BY <1>2 DEF Records, TakesBaseline, BuildsCli, ShippedBundle, YourBundle, Point, Stage, Launch
<1>3. CASE Begins
  BY <1>3, ChangeSetsAssumption DEF Begins
<1>4. CASE DeliverCharts \/ DeliverImage \/ DeliverContent
  BY <1>4 DEF DeliverCharts, DeliverImage, DeliverContent, Delivering
<1>5. CASE Check
  BY <1>5 DEF Check, CheckCarriers, CheckContent, CheckOperators, CheckApps, CheckSource,
     CheckHealthy, CheckImages
<1>6. CASE Returns \/ GivesUp
  BY <1>6 DEF Returns, GivesUp
<1>7. QED
  BY <1>1, <1>2, <1>3, <1>4, <1>5, <1>6, Frames DEF Step

LEMMA JobTypesStep ==
  ASSUME JobType, NotesType, ContentTypes, ClusterTypes, Next
  PROVE  JobType' /\ NotesType'
<1>1. JobType'
  <2>1. CASE Begins
    <3>1. PICK changes \in ChangeSets, target \in Targets, main \in BOOLEAN :
            job' = [n |-> job.n + 1, changes |-> changes, target |-> target, main |-> main]
      BY <2>1 DEF Begins
    <3>2. job.n + 1 \in Makers
      BY <2>1, Numbers DEF Begins, JobType
    <3>3. QED
      BY <3>1, <3>2, ChangeSetsAssumption DEF JobType
  <2>2. QED
    BY <2>1, Frames DEF JobType
<1>2. NotesType'
  <2>1. \A blind : Snapshot(blind) \in Snapshots
    BY SnapshotTypes
  <2>2. CASE Records
    BY <2>1, <2>2 DEF Records, NotesType
  <2>3. CASE TakesBaseline
    <3>1. PICK blind : Baseline(blind)
      BY <2>3 DEF TakesBaseline
    <3>2. QED
      BY <2>1, <3>1 DEF Baseline, NotesType
  <2>4. CASE YourBundle
    BY <2>4 DEF YourBundle, NotesType
  <2>5. ASSUME NEW kind \in Kinds, Delivering(kind) PROVE NotesType'
    <3>1. PICK n \in {job.n, 0} : notes' = [notes EXCEPT !.named = n]
      BY <2>5 DEF Delivering
    <3>2. n \in Makers
      BY Numbers DEF JobType
    <3>3. QED
      BY <3>1, <3>2 DEF NotesType
  <2>6. QED
    BY <2>2, <2>3, <2>4, <2>5, Frames DEF NotesType
<1>3. QED
  BY <1>1, <1>2

LEMMA BuiltTypesStep ==
  ASSUME BuiltTypes, JobType, ContentTypes, JobIsNamed, Next
  PROVE  BuiltTypes'
<1> USE DEF BuiltTypes
<1>1. CASE ShippedBundle
  BY <1>1, TreeTypes DEF ShippedBundle, JobType
<1>2. CASE YourBundle
  <2>1. job.target \in Targets
    BY <1>2 DEF YourBundle, Goes, JobIsNamed
  <2>2. PICK named \in {FALSE, "charts" \in job.changes} :
          bundles' = [bundles EXCEPT ![job.target] =
                        [Yours(named) EXCEPT !.baked = TRUE, !.version = job.target]]
    BY <1>2 DEF YourBundle, Publish
  <2>3. [Yours(named) EXCEPT !.baked = TRUE, !.version = job.target] \in Trees
    <3>1. named \in BOOLEAN
      BY NamedOrNot
    <3>2. Yours(named) \in Trees
      BY <3>1, TreeTypes DEF ContentTypes
    <3>3. QED
      BY <2>1, <3>2 DEF Trees
  <2>4. QED
    BY <1>2, <2>2, <2>3 DEF YourBundle
<1>3. CASE Stage
  BY <1>3 DEF Stage, Goes, JobIsNamed
<1>4. QED
  BY <1>1, <1>2, <1>3, Frames DEF built

LEMMA RunTypesStep ==
  ASSUME RunTypes, JobType, Next
  PROVE  RunTypes'
<1> USE DEF RunTypes, run, cluster
<1>1. CASE CliWrites \/ PlaneResolves \/ PlaneInstalls \/ CliEnds
  BY <1>1 DEF CliWrites, PlaneResolves, PlaneInstalls, CliEnds
<1>2. CASE Launch
  BY <1>2, Numbers DEF Launch
<1>3. ASSUME NEW n \in Steps, Looks(n) PROVE RunTypes'
  <2>1. PICK seen \in {0, watch[n] + 1} : watch' = [watch EXCEPT ![n] = seen]
    BY <1>3 DEF Looks
  <2>2. seen \in 0..Off
    BY <1>3, Numbers DEF Looks
  <2>3. QED
    BY <1>3, <2>1, <2>2 DEF Looks
<1>4. ASSUME NEW n \in Steps, Kills(n) PROVE RunTypes'
  BY <1>4, Numbers DEF Kills
<1>5. QED
  BY <1>1, <1>2, <1>3, <1>4, Frames

LEMMA ContentTypesStep ==
  ASSUME ContentTypes, ClusterTypes, BuiltTypes, JobType, Next
  PROVE  ContentTypes' /\ ClusterTypes'
<1> USE DEF content, plane
<1>1. ContentTypes'
  <2> USE DEF ContentTypes, Writes
  <2>1. CASE FluxApplies
    <3>1. git.by \in Makers /\ git.version \in {0} \cup Targets /\ git.chart \in Makers
      BY DEF Trees
    <3>2. git' = git /\ pending' \subseteq pending
      BY <2>1 DEF FluxApplies
    <3>3. apps' \in [by : Makers, version : {0} \cup Targets] /\ chart' \in Makers
      BY <2>1, <3>1 DEF FluxApplies
    <3>4. QED
      BY <3>2, <3>3
  <2>2. CASE Reconciles
    BY <2>2, BundleTypes, TreeTypes DEF Reconciles, Trees
  <2>3. CASE CliWrites
    BY <2>3, TreeTypes DEF CliWrites, BuiltTypes, JobType
  <2>4. CASE PlaneInstalls
    BY <2>4, BundleTypes DEF PlaneInstalls
  <2>5. CASE DeliverCharts
    BY <2>5 DEF DeliverCharts, Repoints, JobType
  <2>6. CASE DeliverContent
    <3>1. CASE Syncs
      <4>1. PICK named \in {FALSE, "charts" \in job.changes} :
              Writes([Yours(named) EXCEPT !.baked = git.baked], {"app"})
        BY <3>1 DEF Syncs
      <4>2. named \in BOOLEAN
        BY NamedOrNot
      <4>3. Yours(named) \in Trees /\ git.baked \in BOOLEAN
        BY <4>2, TreeTypes DEF Trees
      <4>4. QED
        BY <2>6, <4>1, <4>3, TreeTypes DEF DeliverContent
    <3>2. CASE UNCHANGED <<git, pending>>
      BY <2>6, <3>2 DEF DeliverContent
    <3>3. QED
      BY <2>6, <3>1, <3>2 DEF DeliverContent
  <2>7. QED
    BY <2>1, <2>2, <2>3, <2>4, <2>5, <2>6, Frames
<1>2. ClusterTypes'
  <2> USE DEF ClusterTypes
  <2>1. CASE Rollout \/ Renders \/ Point \/ DeliverImage
    BY <2>1 DEF Rollout, Renders, Point, DeliverImage, Overrides, JobType
  <2>2. CASE Reconciles \/ PlaneResolves
    BY <2>2 DEF Reconciles, PlaneResolves, JobType
  <2>3. CASE Carries
    BY <2>3 DEF Carries, Versions
  <2>4. CASE FluxApplies
    BY <2>4 DEF FluxApplies, ContentTypes, Trees
  <2>5. QED
    BY <2>1, <2>2, <2>3, <2>4, Frames
<1>3. QED
  BY <1>1, <1>2

\* Every step keeps the types.
LEMMA TypeStep ==
  ASSUME TypeOK, JobIsNamed, Next
  PROVE  TypeOK'
<1>1. /\ StepTypes /\ JobType /\ NotesType /\ BuiltTypes /\ RunTypes
      /\ ContentTypes /\ ClusterTypes
  BY TypesInGroups
<1>2. /\ StepTypes' /\ JobType' /\ NotesType' /\ BuiltTypes' /\ RunTypes'
      /\ ContentTypes' /\ ClusterTypes'
  BY <1>1, StepTypesStep, JobTypesStep, BuiltTypesStep, RunTypesStep, ContentTypesStep
<1>3. QED
  BY <1>2 DEF TypeOK, StepTypes, JobType, NotesType, BuiltTypes, RunTypes, ContentTypes,
     ClusterTypes

-----------------------------------------------------------------------------
(* The order of the step.                                                   *)

\* Where a step goes from where: the upgrade in its order, and to its failure.
Order ==
  {<<"baseline", "deliver">>, <<"deliver", "bundle">>, <<"bundle", "launch">>,
   <<"bundle", "point">>, <<"point", "stage">>, <<"stage", "launch">>, <<"launch", "run">>,
   <<"run", "carriers">>, <<"carriers", "content">>, <<"content", "operators">>,
   <<"operators", "apps">>, <<"apps", "source">>, <<"source", "healthy">>,
   <<"healthy", "images">>, <<"images", "green">>}
Moves ==
  \/ UNCHANGED <<at, job>>
  \/ at \in {"idle", "green"} /\ at' = "baseline" /\ Begins
  \/ at \in {"idle", "green"} /\ at' = "idle" /\ UNCHANGED job
  \/ <<at, at'>> \in Order /\ UNCHANGED job
  \/ at \notin {"idle", "green", "launch", "red"} /\ at' = "red" /\ UNCHANGED job

\* Which action takes it there, for those that the invariant is about.
ByAction ==
  /\ at = "baseline" /\ at' = "deliver" => TakesBaseline
  /\ at = "bundle" /\ at' = "point" => YourBundle
  /\ at = "bundle" /\ at' = "launch" => ShippedBundle
  /\ at = "point" /\ at' = "stage" => Point
  /\ at = "stage" /\ at' = "launch" => Stage
  /\ at # "run" /\ at' = "run" => Launch
  /\ at = "run" /\ at' # "run" => Returns
  /\ at = "carriers" /\ at' = "content" => CheckCarriers
  /\ at = "source" /\ at' = "healthy" => CheckSource
  /\ at \notin {"run", "red"} /\ at' = "red" => GivesUp
  /\ at = "red" => UNCHANGED step

LEMMA StepMoves ==
  ASSUME Next
  PROVE  Moves /\ ByAction
<1> USE DEF Moves, ByAction, Goes, Fails
<1>1. CASE UNCHANGED step
  BY <1>1 DEF step
<1>2. CASE Begins \/ Records
  BY <1>2 DEF Begins, Records
<1>3. CASE TakesBaseline \/ BuildsCli \/ ShippedBundle \/ YourBundle \/ Point \/ Stage \/ Launch
  <2>1. CASE TakesBaseline
    BY <2>1 DEF TakesBaseline, Order
  <2>2. CASE BuildsCli
    BY <2>2 DEF BuildsCli, Order
  <2>3. CASE ShippedBundle
    BY <2>3 DEF ShippedBundle, Order
  <2>4. CASE YourBundle
    BY <2>4 DEF YourBundle, Order
  <2>5. CASE Point
    BY <2>5 DEF Point, Order
  <2>6. CASE Stage
    BY <2>6 DEF Stage, Order
  <2>7. CASE Launch
    BY <2>7 DEF Launch, Order
  <2>8. QED
    BY <1>3, <2>1, <2>2, <2>3, <2>4, <2>5, <2>6, <2>7
<1>4. CASE DeliverCharts \/ DeliverImage \/ DeliverContent
  BY <1>4 DEF DeliverCharts, DeliverImage, DeliverContent, Delivering
<1>5. CASE Check
  BY <1>5 DEF Check, CheckCarriers, CheckContent, CheckOperators, CheckApps, CheckSource,
     CheckHealthy, CheckImages, Order
<1>6. CASE Returns
  BY <1>6 DEF Returns, Order, Checks
<1>7. CASE GivesUp
  BY <1>7 DEF GivesUp, Checks
<1>8. QED
  BY <1>1, <1>2, <1>3, <1>4, <1>5, <1>6, <1>7, Frames DEF Step

LEMMA JobStep ==
  ASSUME TypeOK, JobIsNamed, Next
  PROVE  JobIsNamed'
<1>1. CASE Begins
  <2>1. PICK changes \in ChangeSets, target \in Targets, main \in BOOLEAN :
          job' = [n |-> job.n + 1, changes |-> changes, target |-> target, main |-> main]
    BY <1>1 DEF Begins
  <2>2. job.n + 1 \in Steps
    BY <1>1, Numbers DEF Begins, TypeOK
  <2>3. QED
    BY <2>1, <2>2 DEF JobIsNamed
<1>2. CASE UNCHANGED job /\ (at' # "idle" => at # "idle")
  BY <1>2 DEF JobIsNamed
<1>3. QED
  BY <1>1, <1>2, StepMoves DEF Moves, Order

-----------------------------------------------------------------------------
(* The CLI and its watchers.                                                *)

LEMMA CliStep ==
  ASSUME TypeOK, CliInItsPlace, Next
  PROVE  CliInItsPlace'
<1> USE DEF CliInItsPlace, run, cluster
<1>1. CASE Launch
  BY <1>1 DEF Launch, Goes
<1>2. CASE CliWrites \/ PlaneResolves \/ PlaneInstalls \/ CliEnds
  <2>1. UNCHANGED at
    BY <1>2 DEF CliWrites, PlaneResolves, PlaneInstalls, CliEnds, step
  <2>2. QED
    BY <1>2, <2>1 DEF CliWrites, PlaneResolves, PlaneInstalls, CliEnds
<1>3. ASSUME NEW n \in Steps, Looks(n) \/ Kills(n) PROVE CliInItsPlace'
  <2>1. UNCHANGED at
    BY <1>3 DEF Looks, Kills, step
  <2>2. QED
    BY <1>3, <2>1 DEF Looks, Kills
<1>4. CASE Returns
  BY <1>4 DEF Returns, Fails
<1>5. CASE UNCHANGED run /\ ~Launch /\ ~Returns
  <2>1. (at = "run") = (at' = "run")
    BY <1>5, StepMoves DEF ByAction
  <2>2. at' \notin {"run", "red"} => at \notin {"run", "red"}
    BY <2>1, StepMoves DEF Moves, Order
  <2>3. QED
    BY <1>5, <2>1, <2>2
<1>6. QED
  BY <1>1, <1>2, <1>3, <1>4, <1>5, Frames

LEMMA KillerStep ==
  ASSUME TypeOK, JobIsNamed, CliInItsPlace, KillerHasEnded, OwnKillExplained, Next
  PROVE  KillerHasEnded' /\ OwnKillExplained'
<1> USE Numbers DEF run, cluster
<1>0. /\ job.n \in Nat /\ killer \in Nat /\ (at # "idle" => job.n \in Steps /\ job.n > 0)
      /\ watch \in [Steps -> 0..Off]
  <2>1. job.n \in Makers /\ killer \in Makers /\ watch \in [Steps -> 0..Off]
    BY DEF TypeOK
  <2>2. \A n \in Steps : n > 0
    BY DEF Steps
  <2>3. QED
    BY <2>1, <2>2 DEF JobIsNamed
<1>1. CASE Launch
  <2>1. at = "launch" /\ at' = "run" /\ UNCHANGED job
        /\ killer' = 0 /\ watch' = [watch EXCEPT ![job.n] = 0]
    BY <1>1 DEF Launch, Goes
  <2>2. KillerHasEnded'
    BY <1>0, <2>1 DEF KillerHasEnded, JobIsNamed
  <2>3. QED
    BY <2>1, <2>2 DEF OwnKillExplained
<1>2. ASSUME NEW n \in Steps, Looks(n) PROVE KillerHasEnded' /\ OwnKillExplained'
  <2>1. PICK seen : watch' = [watch EXCEPT ![n] = seen]
    BY <1>2 DEF Looks
  <2>2. UNCHANGED <<at, why, job, killer>> /\ watch[n] < Found
    BY <1>2 DEF Looks, step
  <2>3. n <= job.n /\ watch[n] # Ended
    BY <1>0, <2>2 DEF KillerHasEnded, Steps
  <2>4. QED
    BY <1>0, <2>1, <2>2, <2>3 DEF KillerHasEnded, OwnKillExplained, Steps
<1>3. ASSUME NEW n \in Steps, Kills(n) PROVE KillerHasEnded' /\ OwnKillExplained'
  <2>1. UNCHANGED <<at, why, job>> /\ watch[n] = Found /\ watch' = [watch EXCEPT ![n] = Ended]
    BY <1>3 DEF Kills, step
  <2>2. killer' = killer \/ (at = "run" /\ killer' = n)
    BY <1>3 DEF Kills, CliInItsPlace
  <2>3. n <= job.n
    BY <1>0, <2>1 DEF KillerHasEnded, Steps
  <2>4. QED
    BY <1>0, <2>1, <2>2, <2>3 DEF KillerHasEnded, OwnKillExplained, Steps
<1>4. CASE UNCHANGED <<killer, watch>> /\ ~Launch
  <2>1. CASE Begins
    <3>1. job'.n = job.n + 1 /\ at' = "baseline"
      BY <2>1 DEF Begins
    <3>2. QED
      BY <1>0, <1>4, <3>1 DEF KillerHasEnded, OwnKillExplained, Steps
  <2>2. CASE Returns
    <3>1. at = "run" /\ UNCHANGED job
          /\ \/ at' = "red" /\ (watch[job.n] = Ended => why' = "drift")
             \/ at' = "carriers" /\ watch[job.n] # Ended
      BY <2>2 DEF Returns, Fails
    <3>2. QED
      BY <1>4, <3>1 DEF KillerHasEnded, OwnKillExplained
  <2>3. CASE UNCHANGED job /\ ~Returns
    <3>1. KillerHasEnded'
      <4>1. at' = "run" => at = "run"
        BY <1>4, StepMoves DEF ByAction
      <4>2. at' \notin {"idle", "run", "red"} => at \notin {"idle", "run", "red"}
        <5>1. at # "run" \/ at' = "run"
          BY <2>3, StepMoves DEF ByAction
        <5>2. ~Begins
          BY <1>0, <2>3 DEF Begins
        <5>3. QED
          BY <5>1, <5>2, StepMoves DEF Moves, Order
      <4>3. QED
        BY <1>4, <2>3, <4>1, <4>2 DEF KillerHasEnded
    <3>2. OwnKillExplained'
      <4>1. CASE at = "red"
        BY <1>4, <2>3, <4>1, StepMoves DEF ByAction, step, OwnKillExplained
      <4>2. CASE at # "red"
        <5> SUFFICES ASSUME at' = "red" PROVE killer # job.n
          BY <1>4, <2>3 DEF OwnKillExplained
        <5>1. at # "run"
          BY <2>3, StepMoves DEF ByAction
        <5>2. at # "idle"
          BY <4>2, StepMoves DEF Moves, Order
        <5>3. QED
          BY <4>2, <5>1, <5>2 DEF KillerHasEnded
      <4>3. QED
        BY <4>1, <4>2
    <3>3. QED
      BY <3>1, <3>2
  <2>4. QED
    BY <2>1, <2>2, <2>3, StepMoves DEF Moves
<1>5. UNCHANGED <<killer, watch>> \/ Launch \/ \E n \in Steps : Looks(n) \/ Kills(n)
  BY Frames DEF CliWrites, PlaneResolves, PlaneInstalls, CliEnds
<1>6. QED
  BY <1>1, <1>2, <1>3, <1>4, <1>5

-----------------------------------------------------------------------------
(* The carriers.                                                            *)

\* Before the launch the plane is at rest: nothing resolves, installs or carries.
LEMMA RestStep ==
  ASSUME TypeOK, JobIsNamed, CliInItsPlace, RestsBefore, Next
  PROVE  /\ RestsBefore'
         /\ at \in Before => UNCHANGED carriers /\ (at' \in Before => UNCHANGED <<engine, oci.tag>>)
<1> USE DEF content, plane, cluster, run, Writes
<1>1. CASE at \in Before
  <2>1. cli # "running" /\ engine \in {"off", "roll"} /\ pending \subseteq {"app"}
        /\ (engine # "off" => \A c \in Carriers : carriers[c] = oci.tag)
    BY <1>1 DEF Before, CliInItsPlace, RestsBefore
  <2>2. ~CliWrites /\ ~PlaneResolves /\ ~PlaneInstalls /\ ~Carries
    BY <2>1 DEF CliWrites, PlaneResolves, PlaneInstalls, Carries
  <2>3. UNCHANGED <<carriers, oci.tag>>
    BY <2>2, Frames DEF Rollout, Reconciles, Renders, DeliverImage, Point, FluxApplies, TypeOK
  <2>4. pending' \subseteq {"app"}
    BY <2>1, <2>2, Frames DEF FluxApplies, Reconciles, DeliverCharts, DeliverContent, Syncs
  <2>5. at' \in Before => UNCHANGED engine
    <3>1. at' \in Before => ~Launch
      BY DEF Launch, Goes, Before
    <3>2. QED
      BY <2>2, <3>1, Frames DEF CliEnds, Looks, Kills
  <2>6. QED
    BY <2>1, <2>3, <2>4, <2>5 DEF RestsBefore
<1>2. CASE at \notin Before
  <2>1. at' \in Before => Begins
    BY <1>2, StepMoves DEF Moves, Order, Before
  <2>2. Begins => RestsBefore'
    BY DEF Begins, AtRest, RestsBefore
  <2>3. QED
    BY <1>2, <2>1, <2>2 DEF RestsBefore
<1>3. QED
  BY <1>1, <1>2

\* Who moves the upgrade in the cluster, and what it and the controllers write.
LEMMA PlaneSteps ==
  ASSUME TypeOK, Next
  PROVE  /\ engine' = engine \/ Launch \/ CliWrites \/ PlaneResolves \/ PlaneInstalls
         /\ oci'.tag = oci.tag \/ PlaneResolves
         /\ oci'.yours = oci.yours \/ oci'.yours = pod
         /\ pod' = pod \/ pod' = env
         /\ carriers' = carriers \/ Carries
<1> USE DEF plane, cluster, run
<1>1. engine' = engine \/ Launch \/ CliWrites \/ PlaneResolves \/ PlaneInstalls
  BY Frames DEF CliEnds, Looks, Kills
<1>2. UNCHANGED <<carriers, oci, pod>> \/ Rollout \/ Reconciles \/ PlaneResolves \/ Carries
  BY Frames DEF Renders, DeliverImage, Point, FluxApplies
<1>3. QED
  BY <1>1, <1>2 DEF Rollout, Reconciles, PlaneResolves, Carries, TypeOK

\* Who writes the notes, where the step then stands, and what they keep.
LEMMA NotesSteps ==
  ASSUME TypeOK, Next
  PROVE  /\ UNCHANGED <<notes.before, notes.auto>> \/ at' = "idle" \/ TakesBaseline
         /\ notes.bundle => notes'.bundle
<1>1. CASE Records
  BY <1>1 DEF Records, TypeOK
<1>2. CASE TakesBaseline
  BY <1>2 DEF TakesBaseline, Baseline, TypeOK
<1>3. CASE YourBundle
  BY <1>3 DEF YourBundle, TypeOK
<1>4. ASSUME NEW kind \in Kinds, Delivering(kind)
      PROVE  UNCHANGED <<notes.before, notes.auto, notes.bundle>>
  BY <1>4 DEF Delivering, TypeOK
<1>5. QED
  BY <1>1, <1>2, <1>3, <1>4, Frames

LEMMA RollStep ==
  ASSUME TypeOK, CliInItsPlace, RollsOutTarget, Next
  PROVE  RollsOutTarget'
<1> SUFFICES ASSUME at' \in After, engine' \in {"pull", "roll"} PROVE oci'.tag = job'.target
  BY DEF RollsOutTarget
<1>1. ~Launch /\ ~CliWrites
  BY DEF Launch, CliWrites
<1>2. at \in After /\ UNCHANGED job
  <2>1. at' = "run" => at = "run"
    BY <1>1, StepMoves DEF ByAction
  <2>2. QED
    BY <2>1, StepMoves DEF Moves, Order, After, Checks
<1>3. CASE PlaneResolves
  BY <1>2, <1>3 DEF PlaneResolves
<1>4. CASE ~PlaneResolves
  <2>1. oci'.tag = oci.tag /\ engine \in {"pull", "roll"}
    BY <1>1, <1>4, PlaneSteps DEF PlaneInstalls
  <2>2. QED
    BY <1>2, <2>1 DEF RollsOutTarget
<1>5. QED
  BY <1>3, <1>4

-----------------------------------------------------------------------------
(* What the baseline is taken of, and what it is compared with.             *)

LEMMA MadeStep ==
  ASSUME TypeOK, JobIsNamed, CliInItsPlace, MadeSoFar, Next
  PROVE  MadeSoFar'
<1> USE Numbers DEF Writes
<1>1. /\ job.n \in Nat /\ job'.n \in Nat /\ job'.n >= job.n
      /\ Latest \in Int /\ Latest' \in Int /\ Latest <= Latest' /\ Latest <= job.n
  <2>1. job.n \in Makers /\ job.n \in Nat
    BY DEF TypeOK
  <2>2. CASE Begins
    <3>1. job'.n = job.n + 1 /\ at' = "baseline" /\ at # "baseline"
      BY <2>2 DEF Begins
    <3>2. QED
      BY <2>1, <3>1 DEF Latest
  <2>3. CASE UNCHANGED job /\ (at' = "baseline" => at = "baseline")
    BY <2>1, <2>3 DEF Latest
  <2>4. QED
    BY <2>2, <2>3, StepMoves DEF Moves, Order
<1>2. /\ chart \in Nat /\ git.chart \in Nat /\ repo.chart \in Nat
      /\ \A v \in Targets : bundles[v] \in Trees /\ bundles[v].chart \in Nat
      /\ git \in Trees /\ repo \in Trees
  BY DEF TypeOK, Trees
<1>3. Resolvable => Bundle.chart <= Latest
  <2> SUFFICES ASSUME Resolvable PROVE Bundle.chart <= Latest
    OBVIOUS
  <2>1. CASE oci.yours
    BY <2>1 DEF Resolvable, Bundle, MadeSoFar
  <2>2. CASE ~oci.yours
    <3>1. Bundle.chart = 0 /\ 0 <= chart
      BY <1>2, <2>2 DEF Bundle, Shipped
    <3>2. QED
      BY <1>1, <1>2, <3>1 DEF MadeSoFar
  <2>3. QED
    BY <2>1, <2>2
<1>4. \A named : Yours(named).chart <= job.n
  BY <1>1 DEF Yours
<1>5. chart' <= Latest' /\ git'.chart <= Latest'
  <2>1. chart <= Latest' /\ git.chart <= Latest'
    BY <1>1, <1>2 DEF MadeSoFar
  <2>2. CASE FluxApplies
    BY <2>1, <2>2 DEF FluxApplies
  <2>3. CASE Reconciles \/ PlaneInstalls
    <3>1. Resolvable => Bundle \in Trees /\ Bundle.chart \in Nat
      BY TypesInGroups, BundleTypes DEF Trees
    <3>2. UNCHANGED git \/ (Resolvable /\ git'.chart = Bundle.chart)
      BY <2>3, <3>1 DEF Reconciles, PlaneInstalls, Trees
    <3>3. UNCHANGED chart
      BY <2>3 DEF Reconciles, PlaneInstalls
    <3>4. QED
      BY <1>1, <1>3, <2>1, <3>1, <3>2, <3>3
  <2>4. CASE CliWrites
    <3>1. at = "run" /\ UNCHANGED <<at, job, chart>> /\ git'.chart = repo.chart
      BY <1>2, <2>4 DEF CliWrites, CliInItsPlace, step, Trees
    <3>2. QED
      BY <1>1, <1>2, <2>1, <3>1 DEF MadeSoFar, Latest
  <2>5. CASE DeliverCharts \/ DeliverContent
    <3>1. at' = "deliver" /\ UNCHANGED job
      BY <2>5 DEF DeliverCharts, DeliverContent, Delivering
    <3>2. Latest' = job.n
      BY <3>1 DEF Latest
    <3>3. CASE DeliverCharts
      BY <1>1, <2>1, <3>2, <3>3 DEF DeliverCharts, Repoints
    <3>4. CASE DeliverContent
      <4>1. CASE Syncs
        <5>1. PICK named \in {FALSE, "charts" \in job.changes} :
                git' = [Yours(named) EXCEPT !.baked = git.baked]
          BY <4>1 DEF Syncs
        <5>2. git'.chart = Yours(named).chart
          BY <5>1 DEF Yours
        <5>3. QED
          BY <1>4, <2>1, <3>2, <3>4, <5>2 DEF DeliverContent
      <4>2. CASE ~Syncs
        BY <2>1, <3>4, <4>2 DEF DeliverContent
      <4>3. QED
        BY <4>1, <4>2
    <3>5. QED
      BY <2>5, <3>3, <3>4
  <2>6. QED
    BY <2>1, <2>2, <2>3, <2>4, <2>5, Frames DEF content
<1>6. repo'.chart <= job'.n /\ \A v \in Targets : bundles'[v].chart <= Latest'
  <2>1. repo.chart <= job'.n /\ \A v \in Targets : bundles[v].chart <= Latest'
    BY <1>1, <1>2 DEF MadeSoFar
  <2>2. CASE ShippedBundle
    BY <1>1, <2>1, <2>2 DEF ShippedBundle, Shipped
  <2>3. CASE YourBundle
    <3>1. PICK named \in {FALSE, "charts" \in job.changes} :
            bundles' = [bundles EXCEPT ![job.target] =
                          [Yours(named) EXCEPT !.baked = TRUE, !.version = job.target]]
      BY <2>3 DEF YourBundle, Publish
    <3>2. [Yours(named) EXCEPT !.baked = TRUE, !.version = job.target].chart <= job.n
      BY <1>4 DEF Yours
    <3>3. at' = "point" /\ UNCHANGED <<job, repo>> /\ Latest' = job.n
      BY <2>3 DEF YourBundle, Goes, Latest
    <3>4. bundles \in [Targets -> Trees]
      BY DEF TypeOK
    <3>5. QED
      BY <2>1, <3>1, <3>2, <3>3, <3>4
  <2>4. CASE Stage
    <3>1. job.target \in Targets /\ repo' = bundles[job.target] /\ UNCHANGED <<bundles, job>>
      BY <2>4 DEF Stage, Goes, JobIsNamed
    <3>2. bundles[job.target].chart <= Latest /\ bundles[job.target].chart \in Nat
      BY <1>2, <3>1 DEF MadeSoFar
    <3>3. repo'.chart <= job'.n
      BY <1>1, <3>1, <3>2
    <3>4. QED
      BY <2>1, <3>1, <3>3
  <2>5. QED
    BY <2>1, <2>2, <2>3, <2>4, Frames DEF built
<1>7. QED
  BY <1>5, <1>6 DEF MadeSoFar

LEMMA BaselineStep ==
  ASSUME TypeOK, JobIsNamed, CliInItsPlace, RestsBefore, MadeSoFar, OwnBaseline, Next
  PROVE  OwnBaseline'
<1> USE DEF OwnBaseline
<1>1. CASE TakesBaseline
  <2>1. /\ at = "baseline" /\ at' = "deliver" /\ UNCHANGED <<job, carriers>>
        /\ \E blind : Baseline(blind)
    BY <1>1 DEF TakesBaseline, Goes, cluster
  <2>2. PICK blind : Baseline(blind)
    BY <2>1
  <2>3. CASE notes.taken /\ ~notes.auto
    BY <2>1, <2>2, <2>3 DEF Baseline, After, Checks
  <2>4. CASE ~(notes.taken /\ ~notes.auto)
    <3>1. notes'.before = Snapshot(blind)
      BY <2>2, <2>4 DEF Baseline, TypeOK
    <3>2. /\ notes'.before.chart = chart
          /\ notes'.before.carriers["kommandercore"] \in {Absent, carriers["kommandercore"]}
      BY <3>1 DEF Snapshot, Carriers
    <3>3. chart # job.n
      <4>1. chart \in Makers /\ job.n \in Makers
        BY DEF TypeOK
      <4>2. chart <= job.n - 1
        BY <2>1 DEF MadeSoFar, Latest
      <4>3. QED
        BY <4>1, <4>2, Numbers
    <3>4. QED
      BY <2>1, <3>2, <3>3 DEF After, Checks
  <2>5. QED
    BY <2>3, <2>4
<1>2. CASE Launch
  <2>1. /\ at = "launch" /\ at' = "run" /\ UNCHANGED <<job, notes>>
        /\ carriers["kommandercore"] # job.target => engine' # "off"
    BY <1>2 DEF Launch, Goes
  <2>2. QED
    BY <2>1 DEF Before, After
<1>3. CASE ~TakesBaseline /\ ~Launch
  <2>1. at' \in Before \ {"baseline"} => at \in Before \ {"baseline"} /\ UNCHANGED job
    BY <1>3, StepMoves DEF Moves, ByAction, Order, Before, Checks
  <2>2. at' \in After => at \in After /\ UNCHANGED job
    <3>1. at' = "run" => at = "run"
      BY <1>3, StepMoves DEF ByAction
    <3>2. QED
      BY <3>1, StepMoves DEF Moves, Order, After, Checks
  <2>3. at' # "idle" => UNCHANGED <<notes.before, notes.auto>>
    BY <1>3, NotesSteps
  <2>4. at' \in Before \ {"baseline"} => UNCHANGED carriers
    BY <2>1, RestStep
  <2>5. engine # "off" => engine' # "off"
    BY <1>3, PlaneSteps DEF CliWrites, PlaneResolves, PlaneInstalls
  <2>6. "idle" \notin Before \cup After
    BY DEF Before, After, Checks
  <2>7. QED
    BY <2>1, <2>2, <2>3, <2>4, <2>5, <2>6
<1>4. QED
  BY <1>1, <1>2, <1>3

LEMMA AgreeStep ==
  ASSUME TypeOK, JobIsNamed, CliInItsPlace, RollsOutTarget, CarriersAgree, Next
  PROVE  CarriersAgree'
<1> SUFFICES ASSUME at' \in (Checks \ {"carriers"}) \cup {"green"},
                    NEW c \in Carriers, notes'.before.carriers[c] # Absent
             PROVE  carriers'[c] = job'.target
  BY DEF CarriersAgree
<1>1. UNCHANGED job
      /\ (at \in (Checks \ {"carriers"}) \cup {"green"} \/ (at = "carriers" /\ at' = "content"))
  BY StepMoves DEF Moves, Order, Checks
<1>2. notes'.before = notes.before
  <2>1. ~TakesBaseline
    BY DEF TakesBaseline, Goes, Checks
  <2>2. QED
    BY <2>1, NotesSteps DEF Checks
<1>3. CASE at = "carriers" /\ at' = "content"
  <2>1. CheckCarriers
    BY <1>3, StepMoves DEF ByAction
  <2>2. PICK blind : Agreed(Snapshot(blind).carriers)
    BY <2>1 DEF CheckCarriers
  <2>3. Snapshot(blind).carriers[c] = job.target
    BY <1>2, <2>2 DEF Agreed
  <2>4. job.target # Absent
    BY <1>3, Numbers DEF JobIsNamed
  <2>5. carriers[c] = job.target
    BY <2>3, <2>4 DEF Snapshot
  <2>6. UNCHANGED carriers
    BY <1>3, PlaneSteps DEF Carries, step
  <2>7. QED
    BY <1>1, <2>5, <2>6
<1>4. CASE at \in (Checks \ {"carriers"}) \cup {"green"}
  <2>1. carriers[c] = job.target
    BY <1>2, <1>4 DEF CarriersAgree
  <2>2. Carries => oci.tag = job.target
    BY <1>4 DEF Carries, RollsOutTarget, After
  <2>3. QED
    BY <1>1, <2>1, <2>2, PlaneSteps DEF Carries, TypeOK
<1>5. QED
  BY <1>1, <1>3, <1>4

-----------------------------------------------------------------------------
(* Whose applications the cluster resolves.                                 *)

LEMMA PublishedStep ==
  ASSUME TypeOK, JobIsNamed, Published, Next
  PROVE  Published'
<1> DEFINE Behind == {"point", "stage", "launch"} \cup After
<1>1. CASE YourBundle
  <2>1. PICK named \in {FALSE, "charts" \in job.changes} :
          bundles' = [bundles EXCEPT ![job.target] =
                        [Yours(named) EXCEPT !.baked = TRUE, !.version = job.target]]
    BY <1>1 DEF YourBundle, Publish
  <2>2. job.target \in Targets /\ bundles \in [Targets -> Trees] /\ UNCHANGED job
    BY <1>1 DEF YourBundle, Goes, JobIsNamed, TypeOK
  <2>3. bundles'[job.target].by = job.n /\ bundles'[job.target].baked
    BY <2>1, <2>2 DEF Yours
  <2>4. notes'.bundle
    BY <1>1 DEF YourBundle, TypeOK
  <2>5. QED
    BY <2>2, <2>3, <2>4 DEF Published
<1>2. CASE ~YourBundle
  <2> SUFFICES ASSUME "content" \in job'.changes, at' \in Behind
               PROVE  notes'.bundle /\ bundles'[job'.target].by = job'.n
                      /\ bundles'[job'.target].baked
    BY DEF Published
  <2>1. UNCHANGED job
    BY StepMoves DEF Moves, Order, After, Checks
  <2>2. at \in Behind
    <3>1. ~ShippedBundle
      BY <2>1 DEF ShippedBundle
    <3>2. QED
      BY <1>2, <3>1, StepMoves DEF Moves, ByAction, Order, After, Checks
  <2>3. UNCHANGED bundles
    BY <1>2, Frames DEF built, ShippedBundle, Stage
  <2>4. QED
    BY <2>1, <2>2, <2>3, NotesSteps DEF Published
<1>3. QED
  BY <1>1, <1>2

LEMMA PointedStep ==
  ASSUME TypeOK, JobIsNamed, CliInItsPlace, RestsBefore, RollsOutTarget, Published, Pointed, Next
  PROVE  Pointed'
<1> USE DEF Writes
<1> DEFINE Behind == {"stage", "launch"} \cup After
<1> SUFFICES ASSUME "content" \in job'.changes, at' \in Behind
             PROVE  /\ env' /\ ("plane" \in pending' => git'.baked)
                    /\ at' # "stage" => pod' /\ repo'.baked
                    /\ at' \in After /\ engine' = "pull" => oci'.yours
  BY DEF Pointed
<1>1. UNCHANGED job /\ ~ShippedBundle
  <2>1. UNCHANGED job
    BY StepMoves DEF Moves, Order, After, Checks
  <2>2. QED
    BY <2>1 DEF ShippedBundle
<1>2. CASE Point
  <2>1. at = "point" /\ at' = "stage" /\ env' /\ UNCHANGED <<pending, git>>
    BY <1>2 DEF Point, Goes, content
  <2>2. QED
    BY <2>1 DEF RestsBefore, Before, After, Checks
<1>3. CASE Stage
  <2>1. /\ at = "stage" /\ at' = "launch" /\ pod = env /\ repo' = bundles[job.target]
        /\ UNCHANGED <<pending, git, env, pod>>
    BY <1>3 DEF Stage, Goes, cluster, content, plane
  <2>2. bundles[job.target].baked
    BY <1>1, <2>1 DEF Published
  <2>3. QED
    BY <1>1, <2>1, <2>2 DEF Pointed, After, Checks
<1>4. CASE Launch
  <2>1. /\ at = "launch" /\ at' = "run" /\ engine' # "pull"
        /\ UNCHANGED <<pending, git, env, pod, repo>>
    BY <1>4 DEF Launch, Goes, cluster, content, plane, built
  <2>2. QED
    BY <1>1, <2>1 DEF Pointed
<1>5. CASE ~Point /\ ~Stage /\ ~Launch
  <2>1. at \in Behind /\ (at = "stage" <=> at' = "stage") /\ (at' \in After => at \in After)
    BY <1>1, <1>5, StepMoves DEF Moves, ByAction, Order, After, Checks
  <2>2. /\ env /\ ("plane" \in pending => git.baked)
        /\ at # "stage" => pod /\ repo.baked
        /\ at \in After /\ engine = "pull" => oci.yours
    BY <1>1, <2>1 DEF Pointed
  <2>3. env'
    <3>1. FluxApplies => env' = env \/ ("plane" \in pending /\ env' = git.baked)
      BY DEF FluxApplies
    <3>2. QED
      BY <1>5, <2>2, <3>1, Frames DEF plane, Rollout, Reconciles, Renders, PlaneResolves, Carries,
         DeliverImage
  <2>4. "plane" \in pending' => git'.baked
    <3>1. CASE FluxApplies
      BY <2>2, <3>1 DEF FluxApplies
    <3>2. CASE Reconciles
      <4>1. Resolvable => Bundle \in Trees
        BY TypesInGroups, BundleTypes
      <4>2. QED
        BY <2>2, <3>2, <4>1 DEF Reconciles, Trees
    <3>3. CASE CliWrites
      <4>1. at = "run" /\ repo \in Trees
        BY <3>3 DEF CliWrites, CliInItsPlace, TypeOK
      <4>2. QED
        BY <2>2, <3>3, <4>1 DEF CliWrites, Trees
    <3>4. CASE PlaneInstalls
      <4>1. at = "run" /\ engine = "pull"
        <5>1. at # "red"
          BY <2>1 DEF After, Checks
        <5>2. QED
          BY <3>4, <5>1 DEF PlaneInstalls, CliInItsPlace
      <4>2. at \in After
        BY <4>1 DEF After
      <4>3. oci.yours /\ oci.tag = job.target
        BY <2>2, <4>1, <4>2 DEF RollsOutTarget
      <4>4. bundles[job.target].baked
        BY <1>1, <4>2 DEF Published
      <4>5. QED
        BY <3>4, <4>3, <4>4 DEF PlaneInstalls, Bundle
    <3>5. CASE DeliverContent \/ DeliverCharts
      BY <2>1, <3>5 DEF DeliverContent, DeliverCharts, Delivering, After, Checks
    <3>6. QED
      BY <2>2, <3>1, <3>2, <3>3, <3>4, <3>5, Frames DEF content
  <2>5. at' # "stage" => pod' /\ repo'.baked
    <3>1. UNCHANGED repo
      BY <1>1, <1>5, Frames DEF built, YourBundle
    <3>2. QED
      BY <2>1, <2>2, <3>1, PlaneSteps
  <2>6. at' \in After /\ engine' = "pull" => oci'.yours
    <3> SUFFICES ASSUME at' \in After, engine' = "pull" PROVE oci'.yours
      OBVIOUS
    <3>1. at \in After /\ pod
      BY <2>1, <2>2 DEF After, Checks
    <3>2. CASE PlaneResolves
      BY <3>1, <3>2 DEF PlaneResolves
    <3>3. CASE ~PlaneResolves
      <4>1. engine = "pull"
        BY <1>5, <3>3, PlaneSteps DEF CliWrites, PlaneInstalls
      <4>2. QED
        BY <2>2, <3>1, <4>1, PlaneSteps
    <3>4. QED
      BY <3>2, <3>3
  <2>7. QED
    BY <2>3, <2>4, <2>5, <2>6
<1>6. QED
  BY <1>2, <1>3, <1>4, <1>5

LEMMA ResolvedStep ==
  ASSUME TypeOK, CliInItsPlace, Published, Pointed, Resolved, Next
  PROVE  Resolved'
<1> SUFFICES ASSUME "content" \in job'.changes, at' \in {"healthy", "images", "green"}
             PROVE  oci'.yours /\ oci'.tag = job'.target
  BY DEF Resolved
<1>1. UNCHANGED job
      /\ ((at = "source" /\ at' = "healthy") \/ at \in {"healthy", "images", "green"})
  BY StepMoves DEF Moves, Order, Checks
<1>2. at \in After /\ at \notin {"stage", "run", "red"}
  BY <1>1 DEF After, Checks
<1>3. CASE at = "source" /\ at' = "healthy"
  <2>1. CheckSource
    BY <1>3, StepMoves DEF ByAction
  <2>2. notes.bundle
    BY <1>1, <1>2 DEF Published
  <2>3. oci.yours /\ oci.tag = job.target
    BY <2>1, <2>2 DEF CheckSource
  <2>4. UNCHANGED step \/ UNCHANGED oci
    BY Frames DEF Step, plane, Rollout, Reconciles, Renders, PlaneResolves, Carries, DeliverImage,
       Point, FluxApplies
  <2>5. QED
    BY <1>1, <1>2, <1>3, <2>3, <2>4, PlaneSteps DEF step
<1>4. CASE at \in {"healthy", "images", "green"}
  <2>1. oci.yours /\ oci.tag = job.target /\ pod
    BY <1>1, <1>2, <1>4 DEF Resolved, Pointed
  <2>2. ~PlaneResolves
    BY <1>2 DEF PlaneResolves, CliInItsPlace
  <2>3. QED
    BY <1>1, <2>1, <2>2, PlaneSteps
<1>5. QED
  BY <1>1, <1>3, <1>4

-----------------------------------------------------------------------------
(* The invariant, and what it shows.                                        *)

LEMMA InvInit == Init => IInv
<1> SUFFICES ASSUME Init PROVE IInv
  OBVIOUS
<1>1. TypeOK
  BY TypeInit
<1>2. JobIsNamed /\ CliInItsPlace /\ OwnKillExplained
  BY DEF Init, JobIsNamed, CliInItsPlace, OwnKillExplained
<1>3. KillerHasEnded
  BY DEF Init, KillerHasEnded
<1>4. RestsBefore /\ RollsOutTarget /\ OwnBaseline /\ CarriersAgree
  BY DEF Init, RestsBefore, RollsOutTarget, OwnBaseline, CarriersAgree, Before, After, Checks
<1>5. Published /\ Pointed /\ Resolved
  BY DEF Init, Published, Pointed, Resolved
<1>6. MadeSoFar
  BY DEF Init, MadeSoFar, Latest, Shipped
<1>7. QED
  BY <1>1, <1>2, <1>3, <1>4, <1>5, <1>6 DEF IInv

LEMMA InvStep == IInv /\ [Next]_vars => IInv'
<1> SUFFICES ASSUME IInv, [Next]_vars PROVE IInv'
  OBVIOUS
<1>1. CASE Next
  <2> USE <1>1 DEF IInv
  <2>1. TypeOK' /\ JobIsNamed'
    BY TypeStep, JobStep
  <2>2. CliInItsPlace' /\ KillerHasEnded' /\ OwnKillExplained'
    BY CliStep, KillerStep
  <2>3. RestsBefore' /\ RollsOutTarget'
    BY RestStep, RollStep
  <2>4. MadeSoFar' /\ OwnBaseline' /\ CarriersAgree'
    BY MadeStep, BaselineStep, AgreeStep
  <2>5. Published' /\ Pointed' /\ Resolved'
    BY PublishedStep, PointedStep, ResolvedStep
  <2>6. QED
    BY <2>1, <2>2, <2>3, <2>4, <2>5
<1>2. CASE UNCHANGED vars
  <2> USE <1>2 DEF IInv, vars, step, built, run, cluster, content, plane
  <2>1. TypeOK' /\ JobIsNamed'
    BY DEF TypeOK, JobIsNamed
  <2>2. CliInItsPlace' /\ KillerHasEnded' /\ OwnKillExplained'
    BY DEF CliInItsPlace, KillerHasEnded, OwnKillExplained
  <2>3. RestsBefore' /\ RollsOutTarget'
    BY DEF RestsBefore, RollsOutTarget
  <2>4. MadeSoFar' /\ OwnBaseline' /\ CarriersAgree'
    BY DEF MadeSoFar, Latest, OwnBaseline, CarriersAgree
  <2>5. Published' /\ Pointed' /\ Resolved'
    BY DEF Published, Pointed, Resolved
  <2>6. QED
    BY <2>1, <2>2, <2>3, <2>4, <2>5
<1>3. QED
  BY <1>1, <1>2

\* The invariant holds in every state of the upgrade.
THEOREM Invariance == Spec => []IInv
<1>1. QED
  BY InvInit, InvStep, PTL DEF Spec

\* A green upgrade that delivered applications resolves them from your bundle, and goes
\* on doing so: whatever flux, the plane and the operator have still to write keeps it.
THEOREM YoursStays == Spec => []StaysYours
<1>1. IInv => StaysYours
  BY DEF IInv, StaysYours, Resolved, Published, After
<1>2. QED
  BY <1>1, Invariance, PTL

\* No partial upgrade is green: all carriers that the baseline saw are at the target.
THEOREM GreenIsWhole == Spec => []GreenKnewAll
<1>1. IInv => GreenKnewAll
  BY DEF IInv, GreenKnewAll, CarriersAgree
<1>2. QED
  BY <1>1, Invariance, PTL

\* What an upgrade is measured against is the cluster before it, and it is behind the
\* target only if the CLI had something to do.
THEOREM MeasuredBefore == Spec => []BaselineIsBefore
<1>1. IInv => BaselineIsBefore
  BY DEF IInv, BaselineIsBefore, OwnBaseline, After
<1>2. QED
  BY <1>1, Invariance, PTL

\* A CLI that the upgrade's own watcher has killed fails with the watcher's diagnosis.
THEOREM OwnKillIsExplained == Spec => []OwnKillExplained
<1>1. IInv => OwnKillExplained
  BY DEF IInv
<1>2. QED
  BY <1>1, Invariance, PTL
=============================================================================
