------------------------------- MODULE Runner -------------------------------
(***************************************************************************)
(* One process of run_e2e.py: the selected scenarios one after the other,  *)
(* each as steps, collect and cleanup (framework/core.py, spec.py), and    *)
(* what the cluster-making and cluster-ending steps of framework/steps.py  *)
(* do to the scenario's clusters, to its Context and to the environment    *)
(* that the scenarios of one process share.                                *)
(*                                                                         *)
(* Any step may raise, at any point of its work; Ctrl-C inside a phase is  *)
(* such an exception too (Runner._phase catches both).                     *)
(***************************************************************************)
EXTENDS Naturals, Sequences, FiniteSets

CONSTANTS
  Plan,       \* Plan[i]: the i-th selected scenario: [steps, cleanup] step lists
  Version,    \* Version[i]: the GA base its create_cluster asks for, or Unset
  Default,    \* Default[i]: its env: default of the environment variable, or Unset
  ShellBase,  \* E2E_BASE when the process started (_ENV_BASE_DEFAULT)
  ShellEnv,   \* that variable in the developer's shell, or Unset
  Unset

Index == 1..Len(Plan)
Phases == {"idle", "steps", "collect", "cleanup", "end"}
StepNames == {"create_cluster", "use_existing_cluster", "create_workload_cluster",
              "switch_to_workload", "switch_to_management", "delete_workload_cluster",
              "finish_cluster", "delete_app", "collect_diagnostics", "assert"}

\* A scenario without steps is refused when it is loaded.
ASSUME PlanAssumption ==
  /\ Plan \in Seq([steps : Seq(StepNames) \ {<<>>}, cleanup : Seq(StepNames)])

VARIABLES
  opts,      \* the command line: keep, always_collect
  cur,       \* which scenario is running
  phase,     \* which phase of it
  pos,       \* the step of the phase that comes next; 0 before the phase began
  ctx,       \* Context: smart_mode and what the steps remember
  mgmt,      \* mgmt[i]: what exists of scenario i's management cluster
  work,      \* work[i]: its workload cluster's VMs exist
  base,      \* os.environ["E2E_BASE"]
  env,       \* os.environ of the scenario-defaulted variable
  result,    \* result[i]: verdict, and how each phase of it went
  seen       \* seen[i]: what the scenario's steps read, and what collect saw

vars == <<opts, cur, phase, pos, ctx, mgmt, work, base, env, result, seen>>

NewContext == [mode |-> "unset", named |-> FALSE, at |-> "none",
               mgmtKubeconfig |-> "none", workloadName |-> FALSE]
NewResult == [ok |-> TRUE, steps |-> "todo", collect |-> "todo", cleanup |-> "todo"]
NewSeen == [base |-> {}, env |-> {}, collected |-> "nothing", left |-> "nothing", tried |-> 0]

\* "half": a build that did not get to its end; "partial": a clone or a sweep
\* that did not.
Clusters == {"none", "partial", "half", "up", "frozen", "supplied"}
Kubeconfigs == {"none", "management", "workload"}

TypeOK ==
  /\ opts \in [keep : BOOLEAN, always : BOOLEAN]
  /\ cur \in 1..(Len(Plan) + 1)
  /\ phase \in Phases /\ pos \in Nat
  /\ ctx \in [mode : {"unset", "existing", "claimed", "created-incomplete", "created"},
              named : BOOLEAN, at : Kubeconfigs,
              mgmtKubeconfig : Kubeconfigs, workloadName : BOOLEAN]
  /\ mgmt \in [Index -> Clusters]
  /\ work \in [Index -> BOOLEAN]
  /\ \A i \in Index : /\ result[i].ok \in BOOLEAN
                      /\ \A p \in {"steps", "collect", "cleanup"} :
                            result[i][p] \in {"todo", "ok", "broke"}

-----------------------------------------------------------------------------
(* What load() makes of a scenario file.                                    *)

InList(list, name) == \E k \in 1..Len(list) : list[k] = name

\* Nobody has to remember the tear-down: a scenario that makes a cluster and
\* lists no cleanup gets finish_cluster.
MadeCluster(i) == \E name \in {"create_cluster", "use_existing_cluster"} : InList(Plan[i].steps, name)
CleanupSteps(i) ==
  IF Plan[i].cleanup # <<>> THEN Plan[i].cleanup
  ELSE IF MadeCluster(i) THEN <<"finish_cluster">> ELSE <<>>

PhaseSteps(i, p) ==
  CASE p = "steps"   -> Plan[i].steps
    [] p = "collect" -> <<"collect_diagnostics">>
    [] p = "cleanup" -> CleanupSteps(i)
    [] OTHER         -> <<>>

-----------------------------------------------------------------------------
(* The steps.  out is "returns" or "raises"; a step changes ctx, mgmt[cur], *)
(* work[cur] and base.                                                      *)

Outcomes == {"returns", "raises"}

Becomes(c, m, w) ==
  /\ ctx' = c
  /\ mgmt' = [mgmt EXCEPT ![cur] = m]
  /\ work' = [work EXCEPT ![cur] = w]
NoChange == UNCHANGED <<ctx, mgmt, work>>

\* claim_cluster: mode and name are set first; a claim that fails may have
\* cloned anything from nothing to a whole cluster.
Claim(out) ==
  LET claiming == [ctx EXCEPT !.mode = "claimed", !.named = TRUE] IN
  \/ out = "returns" /\ Becomes([claiming EXCEPT !.at = "management"], "up", work[cur])
  \/ out = "raises" /\ \E m \in {"none", "partial", "up"}, k \in {ctx.at, "management"} :
                          Becomes([claiming EXCEPT !.at = k], m, work[cur])

\* Mutant of Build: the mode is set only once the cluster is built.
Build_ModeAtEnd(out) ==
  \/ Becomes([ctx EXCEPT !.mode = "created", !.named = TRUE, !.at = "management"], "up", work[cur])
  \/ out = "raises" /\ \E m \in {"none", "half"} :
        Becomes([ctx EXCEPT !.named = TRUE, !.at = "management"], m, work[cur])
\* The create branch of smart_cluster: the mode is "created-incomplete" before
\* any VM exists, and "created" once everything is delivered; _settle may still
\* raise after that.
Build(out) ==
  LET building == [ctx EXCEPT !.mode = "created-incomplete"]
      built == [ctx EXCEPT !.mode = "created", !.named = TRUE, !.at = "management"] IN
  \/ out = "returns" /\ Becomes(built, "up", work[cur])
  \/ out = "raises" /\ Becomes(built, "up", work[cur])
  \/ out = "raises" /\ Becomes(building, mgmt[cur], work[cur])
  \/ out = "raises" /\ \E m \in {"none", "half"} :
        Becomes([building EXCEPT !.named = TRUE, !.at = "management"], m, work[cur])

\* create_cluster: bad arguments raise before anything; then E2E_BASE is set,
\* unconditionally, and a registered template is claimed or a cluster built.
CreateCluster(out) ==
  \/ out = "raises" /\ NoChange /\ UNCHANGED base
  \/ /\ base' = IF Version[cur] # Unset THEN Version[cur] ELSE ShellBase
     /\ Claim(out) \/ Build(out)

\* use_existing_cluster: mode first; the kubeconfig may turn out missing.
UseExisting(out) ==
  LET supplied == [ctx EXCEPT !.mode = "existing"] IN
  \/ out = "raises" /\ Becomes(supplied, mgmt[cur], work[cur])
  \/ Becomes([supplied EXCEPT !.at = "management", !.named = TRUE], "supplied", work[cur])

\* create_workload_cluster: the workload's name is remembered only after the
\* create returned; the wait for its attachment comes after that.
CreateWorkload(out) ==
  LET from == [ctx EXCEPT !.mgmtKubeconfig = ctx.at] IN
  IF ctx.at = "none" THEN out = "raises" /\ NoChange
  ELSE \/ Becomes([from EXCEPT !.workloadName = TRUE], mgmt[cur], TRUE)
       \/ out = "raises" /\ \E w \in BOOLEAN : Becomes(from, mgmt[cur], w)

\* switch_cluster: no recorded kubeconfig means keep the current one.
Switch(to, out) ==
  /\ out = "returns"
  /\ LET path == IF to = "management" THEN ctx.mgmtKubeconfig
                 ELSE IF ctx.workloadName THEN "workload" ELSE "none"
     IN  IF path = "none" THEN NoChange ELSE Becomes([ctx EXCEPT !.at = path], mgmt[cur], work[cur])

\* delete_workload_cluster: nothing to do without a remembered name.  The exit
\* status of `nkp delete cluster` is not read, and a sweep that cannot delete logs.
DeleteWorkload(out) ==
  IF ~ctx.workloadName THEN out = "returns" /\ NoChange
  ELSE \/ out = "returns" /\ \E w \in {FALSE, work[cur]} : Becomes(ctx, mgmt[cur], w)
       \/ out = "raises" /\ NoChange

\* Both delete_claim and delete_cluster sweep by name prefix, and the workload
\* cluster's name begins with the management cluster's.  delete_claim returns once
\* no VM is left; delete_cluster after a sweep that may leave some.
Deleting(out, leftovers) ==
  IF ~ctx.named THEN out = "returns" /\ NoChange
  ELSE \/ out = "returns" /\ \E m \in leftovers, w \in {FALSE, work[cur]} :
              /\ m = "none" => w = FALSE
              /\ mgmt[cur] = "none" => m = "none"
              /\ Becomes(ctx, m, w)
       \/ out = "raises" /\ \E m \in {mgmt[cur], "partial"} :
              mgmt[cur] # "none" /\ Becomes(ctx, m, work[cur])
DeleteClaim(out) == Deleting(out, {"none"})
DeleteCluster(out) == Deleting(out, {"none", "partial"})

\* freeze.py on the current kubeconfig: its gates look at that cluster, and it
\* powers off the management cluster's own machines.  A failed freeze is KEPT.
Freeze(out) ==
  \/ /\ out = "returns" /\ ctx.at = "management" /\ mgmt[cur] = "up"
     /\ Becomes(ctx, "frozen", work[cur])
  \/ NoChange

\* finish_cluster by mode.  A cluster that drifted or was tainted is deleted.
Finish(out) ==
  CASE ctx.mode = "existing"           -> out = "returns" /\ NoChange
    [] ctx.mode = "claimed"            -> DeleteClaim(out)
    [] ctx.mode = "created-incomplete" -> out = "returns" /\ NoChange
    [] ctx.mode = "created"            -> Freeze(out) \/ DeleteCluster(out)
    [] ctx.mode = "unset"              -> DeleteCluster(out)

Effect(name, out) ==
  CASE name = "create_cluster"          -> CreateCluster(out)
    [] name = "use_existing_cluster"    -> UseExisting(out) /\ UNCHANGED base
    [] name = "create_workload_cluster" -> CreateWorkload(out) /\ UNCHANGED base
    [] name = "switch_to_workload"      -> Switch("workload", out) /\ UNCHANGED base
    [] name = "switch_to_management"    -> Switch("management", out) /\ UNCHANGED base
    [] name = "delete_workload_cluster" -> DeleteWorkload(out) /\ UNCHANGED base
    [] name = "finish_cluster"          -> Finish(out) /\ UNCHANGED base
    [] OTHER                            -> NoChange /\ UNCHANGED base

-----------------------------------------------------------------------------
Init ==
  /\ opts \in [keep : BOOLEAN, always : BOOLEAN]
  /\ cur = 1 /\ phase = "idle" /\ pos = 0
  /\ ctx = NewContext
  /\ mgmt = [i \in Index |-> "none"]
  /\ work = [i \in Index |-> FALSE]
  /\ base = ShellBase
  /\ env = ShellEnv
  /\ result = [i \in Index |-> NewResult]
  /\ seen = [i \in Index |-> NewSeen]

\* Runner.run: a Context of its own for every scenario.
StartScenario ==
  /\ phase = "idle" /\ cur \in Index
  /\ ctx' = NewContext
  /\ phase' = "steps" /\ pos' = 0
  /\ UNCHANGED <<opts, cur, mgmt, work, base, env, result, seen>>

\* Mutants of After: the tear-down before the diagnostics; none after a failure.
After_CleanupFirst(p, ok) ==
  IF p = "steps" /\ ~opts.keep THEN "cleanup"
  ELSE IF p # "collect" /\ (~ok \/ opts.always) THEN "collect"
  ELSE "idle"
After_KeepFailed(p, ok) ==
  IF p = "steps" /\ (~ok \/ opts.always) THEN "collect"
  ELSE IF p # "cleanup" /\ ok /\ ~opts.keep THEN "cleanup"
  ELSE "idle"
\* Where Runner.run goes after a phase, given how the main phase went.
After(p, ok) ==
  IF p = "steps" /\ (~ok \/ opts.always) THEN "collect"
  ELSE IF p # "cleanup" /\ ~opts.keep THEN "cleanup"
  ELSE "idle"

\* Mutants of EndPhase: every phase counts; a failure ends the whole run.
EndPhase_NoneTolerant(how) ==
  LET ok == result[cur].ok /\ how = "ok"
      next == After(phase, ok)
  IN  /\ result' = [result EXCEPT ![cur].ok = ok, ![cur][phase] = how]
      /\ phase' = next /\ pos' = 0
      /\ cur' = IF next = "idle" THEN cur + 1 ELSE cur
      /\ UNCHANGED <<opts, env>>
EndPhase_FailFast(how) ==
  LET ok == result[cur].ok /\ ~(phase = "steps" /\ how = "broke")
      next == After(phase, ok)
  IN  /\ result' = [result EXCEPT ![cur].ok = ok, ![cur][phase] = how]
      /\ phase' = next /\ pos' = 0
      /\ cur' = IF next # "idle" THEN cur ELSE IF ok THEN cur + 1 ELSE Len(Plan) + 1
      /\ UNCHANGED <<opts, env>>
\* A phase ends.  Only the main phase changes the verdict: collect and cleanup
\* are tolerant.
EndPhase(how) ==
  LET ok == result[cur].ok /\ ~(phase = "steps" /\ how = "broke")
      next == After(phase, ok)
  IN  /\ result' = [result EXCEPT ![cur].ok = ok, ![cur][phase] = how]
      /\ phase' = next /\ pos' = 0
      /\ cur' = IF next = "idle" THEN cur + 1 ELSE cur
      /\ UNCHANGED <<opts, env>>

\* run_phase of the main phase: the scenario's env: defaults fill what is not
\* set, then require_prism_central guards the run.
BeginSteps ==
  /\ phase = "steps" /\ pos = 0
  /\ env' = IF env = Unset THEN Default[cur] ELSE env
  /\ pos' = 1
  /\ UNCHANGED <<opts, cur, phase, ctx, mgmt, work, base, result, seen>>

GuardFails ==
  /\ phase = "steps" /\ pos = 1
  /\ EndPhase("broke")
  /\ seen' = [seen EXCEPT ![cur].left = mgmt[cur]]
  /\ UNCHANGED <<ctx, mgmt, work, base>>

BeginTolerant ==
  /\ phase \in {"collect", "cleanup"} /\ pos = 0
  /\ pos' = 1
  /\ UNCHANGED <<opts, cur, phase, ctx, mgmt, work, base, env, result, seen>>

\* What a step of the current phase reads, and what diagnostics find.
Observe(m) ==
  seen' = [seen EXCEPT
    ![cur].base = IF phase = "steps" THEN @ \cup {base'} ELSE @,
    ![cur].env = IF phase = "steps" THEN @ \cup {env} ELSE @,
    ![cur].collected = IF phase = "collect" THEN mgmt[cur] ELSE @,
    ![cur].left = IF phase = "steps" THEN m ELSE @,
    ![cur].tried = IF phase = "cleanup" THEN pos ELSE @]

\* One step of the list returns, and the next one is up.
StepReturns ==
  /\ pos \in 1..Len(PhaseSteps(cur, phase))
  /\ Effect(PhaseSteps(cur, phase)[pos], "returns")
  /\ Observe(mgmt'[cur])
  /\ pos' = pos + 1
  /\ UNCHANGED <<opts, cur, phase, env, result>>

\* A step raises: run_phase re-raises, the rest of the list is not run.
StepRaises ==
  /\ pos \in 1..Len(PhaseSteps(cur, phase))
  /\ Effect(PhaseSteps(cur, phase)[pos], "raises")
  /\ Observe(mgmt'[cur])
  /\ EndPhase("broke")

PhaseDone ==
  /\ phase \in {"steps", "collect", "cleanup"}
  /\ pos = Len(PhaseSteps(cur, phase)) + 1
  /\ EndPhase("ok")
  /\ UNCHANGED <<ctx, mgmt, work, base, seen>>

\* main: the summary, and the exit status.
Report ==
  /\ phase = "idle" /\ cur = Len(Plan) + 1
  /\ phase' = "end"
  /\ UNCHANGED <<opts, cur, pos, ctx, mgmt, work, base, env, result, seen>>

Finished == phase = "end" /\ UNCHANGED vars

Next ==
  \/ StartScenario \/ BeginSteps \/ GuardFails \/ BeginTolerant
  \/ StepReturns \/ StepRaises \/ PhaseDone \/ Report \/ Finished

Spec == Init /\ [][Next]_vars
\* Every step has a timeout, so it returns or raises: the process goes on.
FairSpec == Spec /\ WF_vars(Next)

-----------------------------------------------------------------------------
(* Properties.                                                              *)

Over(i) == cur > i

ExitCode == IF \E i \in Index : ~result[i].ok THEN 1 ELSE 0

\* The exit status speaks of the steps alone: a collect or a cleanup that breaks
\* neither hides a failed test nor fails a passed one, for any scenario of the
\* process ("Never allowed to mask the original error", core.py).
VerdictIsTheTest ==
  phase = "end" => (ExitCode = 0 <=> \A i \in Index : result[i].steps = "ok")

\* Diagnostics of a failed scenario are taken from the cluster as the failed step
\* left it, before any cleanup touched it, even under --keep.
FailureIsDiagnosed ==
  \A i \in Index : Over(i) /\ ~result[i].ok => seen[i].collected = seen[i].left

\* The phase contract: unless --keep is given, a scenario is left only after its
\* tear-down was attempted, listed or not, whatever failed before; with --keep it
\* is left as its steps left it.
CleanupContract ==
  \A i \in Index : Over(i) =>
    IF opts.keep THEN mgmt[i] = seen[i].left
    ELSE CleanupSteps(i) # <<>> => seen[i].tried > 0

\* A cluster whose build failed half way, and a supplied one, survive the cleanup
\* of any scenario ("an hour of create is worth more than a tidy teardown").
NeverTornDown ==
  [][\A i \in Index : mgmt[i] \in {"half", "supplied"} => mgmt'[i] = mgmt[i]]_vars

\* Every selected scenario runs and the process reports, whatever fails.
AllReported == <>(phase = "end" /\ \A i \in Index : result[i].steps # "todo")

\* What the comments and documents promise and the code does not keep; each is
\* checked by a run of its own that shows the counterexample.

\* "Every cleanup step is best-effort: one failing cleanup step logs and continues
\* instead of aborting the rest" (docs/ARCHITECTURE.md).
CleanupIsBestEffort ==
  \A i \in Index : Over(i) /\ ~opts.keep => seen[i].tried = Len(CleanupSteps(i))

\* "a GA scenario earlier in the same run must not leave E2E_BASE behind for this
\* one" (smart_cluster): a scenario's steps see its own base or the shell's.
BaseIsOwn ==
  \A i \in Index : seen[i].base \subseteq {ShellBase, Version[i]}

\* "Scenario-scoped defaults; a developer's shell export always wins" (spec.py).
DefaultsAreScoped ==
  \A i \in Index : seen[i].env \subseteq {IF ShellEnv = Unset THEN Default[i] ELSE ShellEnv}

\* "Attachment is deliberately a scenario action, never part of a frozen template"
\* (create_workload_cluster).
FrozenUnattached == \A i \in Index : mgmt[i] = "frozen" => ~work[i]

\* "pass or fail, the cluster and its VMs go away" (docs/ARCHITECTURE.md): after a
\* cleanup that lists delete_workload_cluster and broke nowhere, no workload VM.
WorkloadGoesAway ==
  \A i \in Index :
    /\ Over(i) /\ result[i].cleanup = "ok"
    /\ InList(CleanupSteps(i), "delete_workload_cluster")
    => ~work[i]
=============================================================================
