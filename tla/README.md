# Verification of nkp-dev-e2e

TLA+ models of the end-to-end test framework (`framework/`, `run_e2e.py`) and of the
instant-cluster machinery (`instant-cluster/`), checked by TLC; their safety
properties are proved by TLAPS for every value of the constants. Paths and line numbers are those of the repository's source.

Contents: [the system](#the-system), [modules](#modules),
[runs](#runs-and-bounds), [fairness](#fairness), [proofs](#proofs),
[departures](#where-the-code-departs-from-what-it-says),
[not modelled](#what-is-not-modelled), [plan](#plan).

## The system

A developer names a *change-set* (commits of konvoy2, kommander, kommander-applications,
charts) in a scenario file. `run_e2e.py` runs scenarios one after another in one process; a
scenario gets a cluster with the change-set, upgrades or exercises it, asserts, and cleans up.
Several such processes, of one or of several users, share a Prism Central, an address pool
and a registry of frozen templates. A cluster is built in an hour or *claimed* in minutes: the VMs of a
frozen template are cloned, and their identity is rewritten on the way up.

| part | state it keeps | operations | talks to |
|---|---|---|---|
| address pool `netpool.py` | lease file with its times, flock | allocate, hold, release | every run on the machine; `ping` |
| runner `core.py`, `spec.py`, `run_e2e.py` | the context (`remember`/`recall`), `os.environ`, verdicts | phases steps, collect, cleanup | the steps |
| shell `shell.py` | a child, its pipe, a timer thread | `run`, `wait_for` | every external program |
| template store `steps.py`, `freeze.py`, `clone.py`, `pc.py` | `templates.json`, a manifest per template name, the VMs | smart_cluster, finish_cluster, freeze, claim, sweep | Prism Central, the state directory |
| create with a change-set `steps.py` | the seeding thread, the override ConfigMaps, the fingerprint, `changeset_tainted` | seed, create, gate, install, deliver, assert, decide | the bootstrap cluster, helm in the new cluster |
| freeze `freeze.py` | git bundles, recovery points, manifest, mirror | gates, quiesce, pause, snapshot, power-off, liveness | flux, Cluster API, Prism Central |
| image overrides `override_image.py`, `deploy_app` | the record in the cluster | apply, revert | flux applications, CAAPH charts, controllers |
| claim `claim.py`, `clone.py` and its tools | the clones, the seed's database, the volume pairs, the window's apiserver | stages A and B, in a thread per node, volume or tool | ssh to the nodes, Prism Central, kubectl on the seed |
| settling `post_boc.sh`, `git_hydrate.py`, `gates.py` | what of flux is suspended, `kommander.git` | bring-up of storage, repository rebuild, gates | flux, the git pod |
| upgrade `upgrade_kommander` in `steps.py` | baselines, the k-apps bundle, the drift watcher | deliver, build, upgrade, verify | the CLI, flux, the ManagementPlane controller, kommander-operator |
| other steps | polls and assertions | node and workspace upgrade, pause, workload clusters, applications | kubectl, the CLI |
| tools off the main path | none | devloop, preflight, teardown, parity, rightsize, sweep of debris, docker.io hold | as needed |

Interaction: steps call the pool, the shell and the store; the store decides between create and
claim; `claim_cluster` runs `claim.py`, `post_boc.sh` and `gates.py` as processes under
`shell.run` with time limits; they share the cluster and files, not memory. What is hard:

* several processes without a common lock (the registry and the manifests have none, the leases have one);
* threads that are joined with a time limit and whose silence is not an error;
* commands on a seed node that are run again while the lost one is still at work;
* controllers in the cluster (flux, the ManagementPlane, kommander-operator) that write what the
  framework writes;
* runs that are killed and run again on what they left.

What makes each part correct: an address is used by one cluster; a verdict speaks of the test
and a diagnosis of the cluster as the test left it; a command ends and its outcome is true; a
registered template has the content its key promises and no run touches another's cluster; a claim
boots only what has completely become another cluster, and never a second owner of the
template's VMs or volumes; flux never prunes the platform from a half-built repository and is
not left suspended; a template was frozen dead, with the last state of its volumes, has your override at rest, and
runs, or has run nothing but, your image if an assertion has said so; a reverted override is gone; a green upgrade means the version moved everywhere and your changes are
still there. The hazards, each at its line, are in `PROJECT.json`.

## Modules

Every module starts with a comment on its scope; its `VARIABLES` say which state of the code
they stand for; an operator named `X_Y` right above a definition `X` is a plausible wrong version of
it, used only to see that a property can tell the two apart. `PROJECT.json` maps every
definition to its lines. `MC*` modules give the constants values.

| module | models | state and actions |
|---|---|---|
| `NetPool`, `NetPoolProofs` | `netpool.py` as `Context.addresses`, `claim_cluster` and `finish_cluster` use it | a lease is owner and age; allocate is compute candidates, lock, probe, write, unlock; hold and release likewise; runs crash anywhere and restart, a torn write empties the file (`wiped`) |
| `Runner`, `RunnerProofs` | `Runner.run`, `_phase`, `spec.load`, the mode and base handling of the cluster steps | a scenario is a plan of steps; each step may raise before, in the middle of or after its effect; Ctrl-C; `--keep`; one process-wide environment |
| `ShellRun` (proofs in `RunnerProofs`) | `shell.run` | child, its input, heirs of its output, pipe, reader, timer (going off, setting the flag and killing are steps of their own), clock |
| `TemplateStore`, `TemplateStoreProofs` | `smart_cluster` to `finish_cluster`, `freeze.py`'s manifest, `clone.py`'s selection, `PrismCentral.sweep` | VMs with name, content, power and what no fingerprint shows; registry and manifests; runs that read, truncate and write without a lock, crash and start again |
| `Delivery` | `smart_cluster`'s create path: `_start_preseed_watcher`, `traditional_create`, `install_platform`, `_deliver_changes`, `assert_change_running`, `finish_cluster`'s decision | the run's step, the thread and the cluster it has taken, the overrides, what the Deployment runs and every ReplicaSet of it, version and fingerprint; helm renders at any time |
| `Freeze` | `freeze.py` as `finish_cluster` or an operator runs it | the volumes' content and the pods that write it, what is suspended and paused, machines, nodes and VMs, recovery points, manifest, mirror; a freeze fails or is killed anywhere and is run again |
| `Created`, `CreatedProofs` | `Delivery`, then `Freeze` | both by INSTANCE; the freeze begins where `finish_cluster` decides for it |
| `Overrides` (proofs in `TemplateStoreProofs`) | `override_image.py`, `deploy_app` | per component its image, the record, what each run of the tool has read; a call may be refused, the record be unreadable, a run killed |
| `Claim`, `ClaimProofs` | `ClaimPrep`, then `ConversionBypass`, then `ClaimSettle` | the three by INSTANCE; a window that failed or was killed is left, and the claim run again on the database it has left |
| `ClaimPrep` | `claim.py` sections 0 to 3b, `clone.py` | threads for power-on, machine-id, database and volume restore, each with its join |
| `ClaimWindow`, `ClaimWindowProofs` | `claim.py` 3d to 4 | main thread, groups A and B of tools, the gate, the secret rewrites, pause, boot |
| `RemintContract` | what the window assumes of the remint | abstract: names disappear, success means none is left |
| `Remint`, `RemintProofs` | `remint_machinenames.py` under `run_tool` and `ssh` | objects, owner references, overlapping runs; implements `RemintContract` |
| `ConversionBypass` | the webhook bypass and its restore thread | script tries, saved files, main thread's exits |
| `ClaimSettle` | `post_boc.sh`, `git_hydrate.py`, `gates.py` | three programs, the suspended objects, repository, artifact and what is applied, the git pod |
| `Upgrade`, `UpgradeProofs` | `upgrade_kommander` with delivery and verification | the step, its CLI and watchers; flux, the controllers, bundle, image, carriers of the version |

`ShellRun` and `Overrides` share a proof module with the component they serve; their
definitions carry their name there (`ShellSpec`, `OverrideSpec`, ...).

The claim is split where the code joins all threads. `Claim` composes its three parts: the window
opens when `ClaimPrep` has replaced the identities, and gets the webhooks as the restored
database has them; it may be left, and the next attempt restores what it has changed; what it
boots is settled. `ClaimWindow` looks at the same window from its tools' side, and `Remint`
opens up one of them, with the main thread's exits as `ConversionBypass` has them; in `Claim` the
window is `ConversionBypass` alone, since the product of both would not finish. `ClaimWindow` uses the remint through the actions of
`RemintContract`; `KeepsContract` shows by refinement (Machines whose template-named object is gone)
that `Remint` does what `ClaimWindow` relies on.

## Runs and bounds

Type invariants are stated in every module. `NetPool`'s is checked by its run; the others are
parts of the inductive invariants and are proved with them.

| run | what it shows | bounds and why they are enough |
|---|---|---|
| `netpool` | leases are exclusive; two clusters share an address only if one came up without its lease; no lease is stolen; every lease lapses and the flock is freed whoever is killed | two runs, one pool address, one template address, TTL of two ticks: two runs contend, an address is free or not, a lease ages before it lapses. Only the pool's announcements are followed (`Watched`; nobody probes a template's addresses). No symmetry (unsound for liveness). The proofs lift the bounds |
| `runner` | `VerdictIsTheTest`, `FailureIsDiagnosed`, `CleanupContract`, `NeverTornDown`, `AllReported` | three scenarios with the shapes of `workload-attach`, `*-existing`, `platform-upgrade`: built, supplied, built with a listed cleanup; state can leak from an earlier to a later scenario of each kind |
| `shell` | bounded for a child that shares its output with nobody, an honest outcome, an end | budget of 3 ticks, 6 ticks of clock, 3 lines: the child ends before, at and after the deadline, with output left or not |
| `templates` | `RegisteredContent`, `ClonesAreOwn`, `ClonedContent`, `LiveClusterSurvives` | three scenarios, two of which have the names of `node-upgrade` and `node-upgrade-skip-preflight` (one begins with the other, and they share a clone's name), two at a time (`Together`), three VMs, two change-sets, crashes, upgrades and changes no fingerprint shows |
| `template_shared_name` | violation, see below | two change-sets of one scenario name |
| `remint` | owner references, exactness, the contract | two Machines, one run on the seed that may be lost and one from the laptop: two runs are enough to overlap, and to find half-done work |
| `claim_window` | no duplicate name while the joins hold, however short the list of names is; the must-tools before rename, unpause and boot; no lost rewrite | two Machines, two tries of an ssh command; a VM may be missing from the list that the rename tool reads, and a list that rebind reads may fail |
| `claim` | what boots was prepared by its own run, one database, webhooks restored or warned about unless a connection is lost or two attempts fail; half-built is never applied, nothing stays suspended, the first placement, unless a patch is refused or a reconcile overtakes it | two control planes (one is the seed), no worker (its thread is a control plane's without the database), one volume, two CRDs, two tries of a script, two attempts under the name, a pinned pod |
| `upgrade` | `StaysYours`, `GreenKnewAll`, `BaselineIsBefore`, `OwnKillExplained` | two upgrades, a released target and one only your bundle has, two carriers (one every release line has, one that may be absent), change-sets {}, {image, content}, {charts, content}, patience 1 where the code has 3 (the watcher's looks differ in number only); a failed step ends the scenario (`ScenarioGoesOn`) |
| `created` | what is frozen has your override under its HelmRelease's name, runs your image if an assertion has passed, and has run nothing else if a strict one has; the recovery points hold the last state; it is dead | one control plane, one worker, the git volume, the two names a HelmRelease may have, one wrong or replaced machine, two freezes under the name, a volume written up to twice |
| `overrides` | between the runs the record is what runs; nothing is left behind | two images of an application, two of a chart, one controller, one image of one's own, six applies and reverts (four in `overrides_exact`): two of one kind applied and reverted in either order, and once more |
| `overrides_exact` | violation, see below | the same |

Deadlock is checked where the model never stops by design (`NetPool`, `Runner`,
`TemplateStore`); the other models end: a command, a claim, a scenario is over.

`claim` and `created` use a `VIEW` (`Seen`), since a composition of models that follow each other
would multiply their states: it leaves out the variables of a part that is over and that no
later step and no property of a later state reads. At the state where a part ends
everything that the run's properties read is still seen. The views of `claim_window`, `overrides` and
of the settling in `claim` go by the exceptions below: these never end, so behind one a property
that names it has nothing more to say, and what only that property reads is left out, unless it
decides whether something that is seen can go on. A departure (below) may read more and is
best run without the `VIEW`; what it violates under the `VIEW` is a real trace all the same
(`KeptIsCurrent` takes seconds with it and long without).

Some properties name an exception: `lost` (the connection to a command that is still at work),
`late` (a join's time limit has passed), `odd` (a patch was refused, a repair
was cut off, a record could not be read, or a reconcile of flux that had begun before the suspend
has overtaken a patch),
`wiped` (the lease file was torn), `died` (an exception nobody catches has ended a thread that
does what a script before it had failed to do). In each case the code really offers no guarantee then; the
exceptions are variables set by the action that models the event, and the departures
(below) show what happens without them.

## Fairness

Only three runs use it, `netpool`, `shell` and `runner`. `NetPool`: time passes (`Tick`), and a run inside the lock goes on or is
killed; nothing is assumed of runs outside it, of the pool or of `ping`. `ShellRun`: the
reader, the timer thread and the clock go on; the child and its heirs owe nothing. `Runner`:
the process goes on (`WF(Next)`; every step it waits for is under `shell.run`'s limits). No
cluster component and no Prism Central task is assumed to make progress anywhere.

## Proofs

TLAPS proves every safety property that a run checks, invariants and action properties, and that
`Remint` implements `RemintContract`: for every value of the constants, where a run has one. The
bounds are constants too (`MaxOps`, `Attempts`, `SeedRuns`, `MaxVersion`, ...), so what is proved holds for
any number of operations, attempts, runs or writes. The proofs are about the
specifications, not about what a `VIEW` lets TLC see of them: they also confirm that the views
hide nothing.

Hardly any property is inductive alone. Each proof module states the strengthening (`IInv`,
or `ShellInv`, `CreateInv`, ... where several parts meet) as a conjunction of named parts with a
comment each; what these add is what the code relies on without saying so. Most were
checked by TLC as invariants of the run first. Then there is a lemma per part or
group of actions, a theorem that combines them, and a theorem per property. Types are a part of
every inductive invariant.

| proofs | theorems | what the inductive invariant adds, and why |
|---|---|---|
| `NetPoolProofs` | `TypeCorrect`, `LockSerialisesAlways`, `LeaseExclusiveAlways`, `PoolWireExclusiveAlways`, `LeasesAreNotStolenAlways` | see below |
| `RunnerProofs`, about `ShellRun` | `ShellTypeCorrect`, `Bounded`, `Honest` | `ArmedInBudget` (the clock does not pass the budget with the watchdog armed), `DisarmedIsOver`, `FlagIsFired`, `BrokenLeaves` (an exception in the loop leads to the `finally`), `StreamEnded`, `WaitedFor`; hence `OutcomeByFlag`: a timer that fires while it is being cancelled may kill nobody any more, but decides the outcome |
| `RunnerProofs`, about `Runner` | `TestIsVerdict`, `DiagnosedAsLeft`, `TornDownOrKept`, `DearIsKept` | `VerdictBySteps`, `NotYetBegun`, `LeftBySteps` (the cluster is as the steps left it until the cleanup), `CollectedFirst`, `TriedOnce`. `DearIsKept` needs `ModeKnows` (the mode tells what finish_cluster may not touch) and `MadeBefore` |
| `RemintProofs` | `NoOrphans`, `FirstIsExact`, `KeepsItsContract` | `ReplacementExists` and `HandledHasMoved`: a run's own progress is visible in the objects, whatever an overlapping run does; `OnlyStarted`; `FirstSeesTemplate`: up to the first run's listing the tree is the template's; `OkIsRenamed`; `ReportsTheLast` |
| `ClaimWindowProofs` | `NamesStayApart`, `ToolsComeFirst`, `RewritesAreKept` | `FailedIsRecorded`, `StartedInOrder`, `JoinedHasEnded`, `GateHasChecked`, `BootHasChecked`: a failure is on record before the thread ends, so the gate and the boot see it; `OkIsComplete`, `WantIsClaims`: behind the gate the rename tool reads no template name; `TriesInOrder`, `LbComesAfter`, `SnapsAreFresh`: the two writers of the secrets never overlap, so what a writer has read is still so |
| `CreatedProofs` | `YoursIsFrozen`, `SnapshotsAreFinal`, `FrozenClusterIsDead` | create: `ModeIsLate`, `SeededByThen` (the override is there from the second seed on), `AssertedRuns` (so what has been found to run yours is rendered to nothing else), `AssertedIsClean`, `BornAsCreated`, `FreezeIsClean`, which carry it to the decision; of the delivery nothing is assumed; freeze: `StaysDown` and `DrainedIsDetached` (nobody writes any more), `PointsAreFinal` (a reused point as well), `TakenHasPoint`, `PausedBehind`, `OwnIsKnown`, `OffIsOff`, `SilentBehind` |
| `ClaimProofs` | `PreparedBeforeBoot`, `OneDbForAll`, `BackOrWarned`, `NeverHalfBuilt`, `FluxIsResumed`, `PinComesFirst` | preparation: `MidOnRecord`, `OwnWhenJoined`, `CopiesOfRuns`, `OkHasData`, `AllWereOk`, `ResultCounts`: what a join stands for; bypass: `OneTry`, `ScriptKnows`, `RestoreKnows`, a chain of custody of the webhooks from the script to the saved file to the restore, which `again` and `lost` break, and a restore that died only where the script had failed; settling: `BuiltBehindSource`, `OwedResume` (what is suspended is still owed a resume by somebody), `PinnedFirst` |
| `UpgradeProofs` | `YoursStays`, `GreenIsWhole`, `MeasuredBefore`, `OwnKillIsExplained` | `RestsBefore`, `RollsOutTarget`, `MadeSoFar`, `OwnBaseline`, `CarriersAgree`; `Published`, `Pointed`, `Resolved`: the bundle is out with its origin, the environment names it, and so does everything that is still to be written over that; `CliInItsPlace`, `KillerHasEnded` |
| `TemplateStoreProofs`, about `TemplateStore` | `RegisteredIsPromised`, `ClonedIsPromised`, `ClonesStayOwn`, `TestedSurvives` | `RegistryPromises` (also of what a run has read and will write back), `RunsKnow`, `ClustersNamed`; then `OneHolder`, `FrozenAsBuilt`, `ManifestsList`; `OneClaims` |
| `TemplateStoreProofs`, about `Overrides` | `RecordSpeaks`, `NothingStays` | `OneAtWork`; `FluxFollows`, `RestFollows`, `TracesFollow`: between the runs the record speaks, during one the memory of the one at work, with the entries of a chart in the order of their applies (`InOrder`, `KeepsEarlier`) |

`NetPool`: `IInv` adds

* `GotWhileRunning`: addresses are owned only between allocation and finish;
* `FileBacksRuns`: while a run counts on its lease the file names it, with an age not above the
  run's own count. It gives `LeaseExclusive`, as a file entry has one owner;
* `WantIsUnleased`, `WantIsUnowned`: between check and write, inside the lock, what a run is about to write
  is leased by nobody else; they need `LockSerialises`, since the check is stale otherwise;
* `HoldIsPreserve`: hold only wants the template's own addresses;
* `WantIsSilent`, `LeaseIsSilent`: no cluster that came up under a lease announces what another
  run is about to write or has leased. The probe saw it silent, and whoever comes up meanwhile does so
  without a lease. They give `PoolWireExclusive` in spite of leases that are dropped early or lapse.

`LeasesAreNotStolen`, an action property, follows from `IInv` by `NoTheft`.

`KeepsContract` is proved step by step: with the Machines whose template-named object is gone for
the contract's `named`, the surgery's deletions map to `Replace`, its report of success to
`Succeed`, with `OkIsRenamed` for "none is left", and everything else to a stutter.

**Assumptions.** The modules' own are weak: bounds are naturals, the seed is a control plane, a
TTL and a budget are positive, an application, a chart and a controller are different things
(`KindsAssumption`), a scenario has steps (`PlanAssumption`: `spec.load` refuses one without). What the code
needs and does *not* enforce is no assumption of a module but a hypothesis of the theorem:

| hypothesis | of | without it |
|---|---|---|
| `OneHashPerName`: a cluster name goes with one change-set | `RegisteredIsPromised`, `ClonedIsPromised` | the run `template_shared_name` |
| `~Unreadable`: the fingerprint of a cluster can be read | those two | the departure `Unreadable = TRUE` |
| `ClonesAreNamed`: a clone is never named as a cluster that is built | those two | both would freeze under one name; a clone is the user and twelve characters of the scenario (steps.py:4641), a cluster the prefix and all of them (core.py:79), which differ unless the prefix is the user |
| `OneCluster`: a scenario makes one cluster at most, and none in its cleanup | `DearIsKept` | every scenario of the repository is so; `spec.load` does not ask for it |

The constants of the runs satisfy all of them, except where a run or a departure shows the
opposite.

**Only model-checked.** Liveness under fairness (`PoolLeaseLapses`, `LockIsFreed`, `RunEnds`,
`AllReported`): temporal reasoning with ENABLED is out of the prover's reach. The violations
(`template_shared_name`, `overrides_exact`, the departures) are TLC's counterexamples. Nothing is
proved by induction over data, and nothing has to be: no module declares a RECURSIVE operator.

## Where the code departs from what it says

Two are runs of the project. `template_shared_name`: the freeze manifest is kept
per cluster *name* (freeze.py:391), the registry per change-set *hash*. Freezing the same scenario with a
newer commit overwrites the manifest that the older hash's entry names; a later claim of the
older change-set clones the newer cluster, and its tests pass or fail for another commit
(`_freeze_fingerprint`, steps.py:5910: "A template's registry key promises its content").
`overrides_exact`: each override of a chart keeps the whole `valuesTemplate` it found. Reverted in the order
of the applies, which is the order of `revert` without names, the last one writes back a template
with an earlier override in it, and nothing is recorded any more (override_image.py:388: "exact restore
(multi-image-safe)").

The others each have a property in a module. To see the counterexample, replace the
`INVARIANT` and `PROPERTY` lines of the run's configuration by the property (it is an
INVARIANT unless the table says PROPERTY), and the constants as given:

| configuration | property | what happens |
|---|---|---|
| `NetPool` | `StaleIsNotReused` | a cluster that finish_cluster keeps comes up when its lease is gone and its address, which did not answer, is the next run's (netpool.py:10; steps.py:6132, 6169) |
| `NetPool`, `Watched = {f1}` | `PreserveAlone` | finish_cluster drops the lease before the clone is deleted and hold does not probe: two address-preserving claims at once (netpool.py:128) |
| `Runner` | `CleanupIsBestEffort` | a cleanup step that raises ends the list (spec.py:246; ARCHITECTURE.md:28) |
| `Runner` | `BaseIsOwn`, `DefaultsAreScoped` | `E2E_BASE` and `env:` defaults leak to later scenarios of the process (steps.py:5990, spec.py:203) |
| `Runner` | `FrozenUnattached`, `WorkloadGoesAway` | a template frozen with a member attached; a delete whose failure nobody sees (steps.py:6189, 6434) |
| `ShellRun` | `ReadIsBounded` | a process that inherited the output keeps `run()` reading past its budget (shell.py:117); an exception in the loop cancels the watchdog and leaves the child running (shell.py:148) |
| `TemplateStore`, `Asks <- NewCommit` | `TemplateSurvives`, `ClaimedListsItsVMs` (PROPERTY) | a freeze that breaks off leaves `"vms": null`: the sweep deletes the template's VM, a claim is attempted (freeze.py:306) |
| `TemplateStore`, `Unreadable = TRUE` | `RegisteredContent` | an unreadable fingerprint counts as no drift (steps.py:5927) |
| `TemplateStore`, `Unseen = TRUE` | `RegisteredIsUntouched` | the fingerprint is three versions and the counts of nodes: what else a scenario changes is registered with the cluster (steps.py:5919) |
| `TemplateStore` | `TestedIsUntouched` (PROPERTY) | a scenario's name begins with another's, whose sweep deletes the cluster under test (steps.py:109) |
| `TemplateStore` | `ClonesAreUnique` | two scenarios share the twelve characters a clone's name keeps, and have one clone (steps.py:4641, 4735) |
| `TemplateStore` | `ReusedContent` (PROPERTY) | a VM found under the clone's name is reused whatever it holds (clone.py:114) |
| `TemplateStore` | `RegistrationSticks` | two registrations at once lose one (steps.py:6200) |
| `Remint` | `OneMachineEach` | a retry after half-done surgery makes a second replacement, and the count check (remint_machinenames.py:157) compares with the doubled list |
| `ClaimWindow` | `NamesAreDistinct` | the remint is late and the owner of a template name is not among the first 500 VMs: the guard lets the name through (rename_vms_to_machines.py:66) |
| `ClaimWindow` | `BootedIsRebound` | a list of secrets that cannot be read is skipped, the tool ends with 0, and what boots still has the template's VIP (rebind_incluster_vip.py:98) |
| `Claim` | `AbortRestores`, `BootIsVerbatim` | the exits before claim.py:1147 leave the CRDs bypassed; a second try on the seed saves only what the lost first one had left; the laptop's restore goes over ssh with a time limit nobody catches (claim.py:118, 663), and the join looks at no result (1253), so the claim boots bypassed without a warning |
| `Claim` | `RerunIsVerbatim` | a claim run again under its name restores the database the aborted window has changed, finds no webhook to bypass and boots without them and without a warning (claim.py:404, 643) |
| `Claim` | `NoStaleDb` | a second claim under a name may restore the first one's database (claim.py:291) |
| `Claim` | `ResumedWhenInPlace`, `PlacedStays`, `SurvivesUntilPlaced` (PROPERTY) | flux is resumed over a rebuild whose connection was cut (git_hydrate.py:153); the bounce on a state read earlier moves a placed pod (post_boc.sh:221); a reconcile that had begun before the suspend takes the nodeSelector out again before the pod is placed, since nothing waits between the two patches (post_boc.sh:180-183) |
| `Upgrade` | `NoFalseAlarm` | a kommander commit that only holds applications delivers no image, and the verification waits for one (steps.py:2252) |
| `Upgrade` | `DeliveredStillRuns` | a delivered chart's reference is re-rendered by the upgrade, which is green (steps.py:2248) |
| `Upgrade` | `ExplicitIsKept` (PROPERTY) | after an automatic baseline an explicit one is overwritten (steps.py:1929) |
| `Upgrade` | `KillIsExplained` | the watcher of an upgrade that succeeded goes on and kills the next upgrade's CLI, which fails without the diagnosis (steps.py:2018) |
| `Created` | `SeedsTheNew` | the thread is armed before the create has swept: it seeds the earlier cluster of the name, which the bootstrap cluster's secret still names, and is done (steps.py:5351); the gate refuses an hour later |
| `Created` | `GateMeansNoOldCode` | the gate looks at ConfigMaps, not at what ran before they were there, and is content with the name that is not the HelmRelease's (steps.py:6083) |
| `Created` | `BornWithYours` | a delivery ends well whatever became of its ConfigMap and its request to render, and waits for no rollout (override_image.py:313-327; steps.py:5223); without an assertion, or after a failed one that is not strict, the template is frozen with the shipped image still running (steps.py:6109) |
| `Created` | `CompleteIsPaused` | the pause is a patch whose failure is not read, so an unpaused cluster is frozen (freeze.py:219) |
| `Created` | `KeptIsCurrent`, `MirrorIsWhole` | bundles kept from an earlier freeze are older than the volume (freeze.py:149); the copy to the mirror is outside of its loop, so only the last file is copied (freeze.py:449) |
| `Overrides` | `EntriesAreKept` (PROPERTY) | a record that cannot be read counts as empty and is overwritten: what it named keeps running, and no revert knows of it (override_image.py:58) |
| `Overrides` | `SecretLasts`, `ValuesStay` (PROPERTY); `HoldLasts` with `Ctrls = {c1, c2}` and `c2 = c2` | a revert takes the pull secret another override of the namespace needs, writes the application's own values away, and frees the operator another controller's override holds |

Met while reading, outside of the models: delete_claim sweeps VMs and leaves restored volume groups
(steps.py:4801); `fix_provider_ids` has a fixed namespace; the machine health
checks are paused in the clone's namespace (claim.py:1098) and looked for in `kommander` to be unpaused
(post_boc.sh:372); two readings that
fail, at the baseline and at the last check, hide a carrier that never moved; a
`kapps_bundle_url` remembered from an earlier upgrade is demanded of a later shipped one; a
second upgrade to the version the cluster has returns early and re-renders nothing.

## What is not modelled

* Data: what the rewrites put where (certificates, kubeadm configuration, byte replacement in
  the database), rendering, parsing, logging. A model has the rewrite as done, half done or not.
* What Prism Central, kubectl, flux and the controllers do beyond what the code relies on; they are
  actions marked external, as free as the code must bear: a call may fail for good or succeed,
  flux and the controllers act at any time. Only `Upgrade` assumes that a cluster is at rest when an upgrade
  begins (`AtRest`): the scenario's earlier steps wait for that.
* Builds of images, charts and the CLI (sequential, on the laptop); configuration, reports,
  discovery, recordings; argument building for the CLI.
* Node and workspace upgrades, pause and the progress watchers: one process that issues a command and polls.
  The docker.io hold (in `Delivery` an install that is tried once more), workload attachment, teardown and
  debris tools: see the plan.
* In `Delivery`: charts and applications of a change-set (they are in `Upgrade`), the GA path, which seeds nothing,
  and another build's bootstrap cluster, which `reset_bootstrap` waits for. In `Freeze`: two
  freezes at once.
* In `ClaimSettle`: a reconcile of flux is split into its suspend check and its write only where a
  patch follows a suspend without a wait, for the StatefulSet; its fetches and applies of the
  repository are one step each. The HelmReleases that `gates.py` suspends and resumes
  (gates.py:202, 363, 455) are left out, `Objects` has what the other programs suspend too.
* In `Upgrade`: `verify: false`, `binary_from`, offline members; a listing that fails is modelled only for the carriers
  and, as unseen, for content and operators.

## Plan

Done, in this order: address pool and its proofs, runner, shell, template store, claim (remint,
conversion bypass, window, preparation, settling), upgrade, freeze, create with a change-set, their
composition, image overrides, the composition of the claim.

1. Proofs: all safety properties of the runs are proved, see above. Left: an abstract claim (item 4)
   and the proof that `ClaimWindow` implements it; theorems that a departure cannot happen under the repair
   its line suggests (a manifest per change-set, a restore in the reverse order of the applies).
2. Composition of pool and store: a template frozen between the read of the reserved
   addresses and the lock, and workload clusters that read no such set (core.py:245, steps.py:6243).
3. The docker.io hold (`dockerhub_auth.py`) around overlapping claim and upgrade; workload
   attachment and `switch_cluster`; teardown's selection of VMs and volume groups.
4. An abstract claim ("all identity rewritten, or nothing boots") that `ClaimWindow` implements.
