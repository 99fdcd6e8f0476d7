----------------------------- MODULE RunnerProofs -----------------------------
(* One process of run_e2e.py.  Its runner (framework/core.py, spec.py), for    *)
(* any selection of scenarios, any lists of steps and any of them raising: the *)
(* verdict, the diagnostics, the tear-down and the clusters that are never     *)
(* torn down.  And the command that a step waits for (framework/shell.py), for *)
(* any budget, any number of lines and a child that may or may not leave a     *)
(* process behind: a child that keeps its output to itself is bounded, and the *)
(* outcome is honest.                                                          *)
EXTENDS Runner, ShellRun, TLAPS

-----------------------------------------------------------------------------
(* The inductive invariant, part by part.                                   *)

Contexts == [mode : {"unset", "existing", "claimed", "created-incomplete", "created"},
             named : BOOLEAN, at : Kubeconfigs,
             mgmtKubeconfig : Kubeconfigs, workloadName : BOOLEAN]
States == {"todo", "ok", "broke"}
Results == [ok : BOOLEAN, steps : States, collect : States, cleanup : States]
Bases == {ShellBase} \cup {Version[i] : i \in Index}
Envs == {ShellEnv} \cup {Default[i] : i \in Index}
Sights == [base : SUBSET Bases, env : SUBSET Envs, collected : Clusters \cup {"nothing"},
           left : Clusters \cup {"nothing"}, tried : Nat]

Places ==
  /\ opts \in [keep : BOOLEAN, always : BOOLEAN]
  /\ cur \in 1..(Len(Plan) + 1) /\ phase \in Phases /\ pos \in Nat
  /\ phase \in {"steps", "collect", "cleanup"} => cur \in Index
  /\ phase = "end" => cur = Len(Plan) + 1
  /\ phase = "cleanup" => ~opts.keep
Worlds == /\ ctx \in Contexts /\ mgmt \in [Index -> Clusters] /\ work \in [Index -> BOOLEAN]
          /\ base \in Bases /\ env \in Envs
Books == result \in [Index -> Results] /\ seen \in [Index -> Sights]

\* The verdict of a scenario is that of its steps, which are run once.
VerdictBySteps ==
  \A i \in Index :
    /\ result[i].ok <=> result[i].steps # "broke"
    /\ result[i].steps = "todo" <=> i > cur \/ (i = cur /\ phase \in {"idle", "steps"})

\* What has not begun has no cluster.
NotYetBegun ==
  \A i \in Index : i > cur \/ (i = cur /\ phase = "idle") => mgmt[i] = "none"

\* The cluster is as the steps left it until the cleanup begins.
LeftBySteps ==
  /\ phase = "steps" /\ pos > 1 => seen[cur].left = mgmt[cur]
  /\ phase = "collect" => seen[cur].left = mgmt[cur]

\* A failed scenario is cleaned up after its diagnostics.
CollectedFirst ==
  (phase = "collect" /\ pos > 1) \/ (phase = "cleanup" /\ ~result[cur].ok) =>
    seen[cur].collected = seen[cur].left

\* Behind the first place of the cleanup a step of it has been tried.
TriedOnce == phase = "cleanup" /\ pos > 1 => seen[cur].tried > 0

IInv == /\ Places /\ Worlds /\ Books
        /\ VerdictBySteps /\ NotYetBegun /\ LeftBySteps /\ CollectedFirst /\ TriedOnce
        /\ FailureIsDiagnosed /\ CleanupContract

-----------------------------------------------------------------------------
(* The steps of a scenario.                                                 *)

\* The lists of a scenario.
LEMMA PlanLists ==
  ASSUME NEW i \in Index
  PROVE  /\ Plan[i].steps \in Seq(StepNames) /\ Len(Plan[i].steps) > 0
         /\ CleanupSteps(i) \in Seq(StepNames)
<1>1. Plan[i] \in [steps : Seq(StepNames) \ {<<>>}, cleanup : Seq(StepNames)]
  <2> DEFINE Scenario == [steps : Seq(StepNames) \ {<<>>}, cleanup : Seq(StepNames)]
  <2>1. Plan \in Seq(Scenario)
    BY PlanAssumption
  <2> HIDE DEF Scenario
  <2>2. Plan[i] \in Scenario
    BY <2>1 DEF Index
  <2>3. QED
    BY <2>2 DEF Scenario
<1>2. Plan[i].steps \in Seq(StepNames) /\ Plan[i].steps # <<>>
      /\ Plan[i].cleanup \in Seq(StepNames)
  BY <1>1
<1>3. Len(Plan[i].steps) > 0
  BY <1>2
<1>4. <<"finish_cluster">> \in Seq(StepNames)
  BY DEF StepNames
<1>5. QED
  BY <1>2, <1>3, <1>4 DEF CleanupSteps

\* Whatever a step does, it does to the scenario's own cluster and Context.
Alters == \E c \in Contexts, m \in Clusters, w \in BOOLEAN : Becomes(c, m, w)

LEMMA NoChangeAlters ==
  ASSUME Worlds, cur \in Index, NoChange
  PROVE  Alters
<1>1. mgmt[cur] \in Clusters /\ work[cur] \in BOOLEAN /\ ctx \in Contexts
  BY DEF Worlds
<1>2. Becomes(ctx, mgmt[cur], work[cur])
  BY DEF Worlds, NoChange, Becomes
<1>3. QED
  BY <1>1, <1>2 DEF Alters

LEMMA EffectAlters ==
  ASSUME Worlds, cur \in Index, NEW name, NEW out \in Outcomes, Effect(name, out)
  PROVE  Alters /\ base' \in Bases
<1>1. ctx \in Contexts /\ mgmt[cur] \in Clusters /\ work[cur] \in BOOLEAN
  BY DEF Worlds
<1>2. Version[cur] \in Bases /\ ShellBase \in Bases /\ base \in Bases
  BY DEF Bases, Worlds
<1>3. CASE CreateCluster(out)
  <2>1. ASSUME Claim(out) PROVE Alters
    <3>1. [ctx EXCEPT !.mode = "claimed", !.named = TRUE] \in Contexts
      BY <1>1 DEF Contexts
    <3>2. \A k \in {ctx.at, "management"} :
            [[ctx EXCEPT !.mode = "claimed", !.named = TRUE] EXCEPT !.at = k] \in Contexts
      BY <1>1 DEF Contexts, Kubeconfigs
    <3>3. "management" \in Kubeconfigs /\ {"none", "partial", "up"} \subseteq Clusters
      BY DEF Kubeconfigs, Clusters
    <3>4. PICK m \in {"none", "partial", "up"}, k \in {ctx.at, "management"} :
            Becomes([[ctx EXCEPT !.mode = "claimed", !.named = TRUE] EXCEPT !.at = k], m, work[cur])
      BY <2>1 DEF Claim
    <3>5. QED
      BY <1>1, <3>2, <3>3, <3>4 DEF Alters
  <2>2. ASSUME Build(out) PROVE Alters
    <3>1. /\ [ctx EXCEPT !.mode = "created-incomplete"] \in Contexts
          /\ [ctx EXCEPT !.mode = "created", !.named = TRUE, !.at = "management"] \in Contexts
          /\ [[ctx EXCEPT !.mode = "created-incomplete"] EXCEPT
                !.named = TRUE, !.at = "management"] \in Contexts
      BY <1>1 DEF Contexts, Kubeconfigs
    <3>2. {"none", "half", "up"} \subseteq Clusters
      BY DEF Clusters
    <3>3. PICK c \in Contexts, m \in Clusters : Becomes(c, m, work[cur])
      <4>1. CASE Becomes([ctx EXCEPT !.mode = "created", !.named = TRUE, !.at = "management"],
                         "up", work[cur])
        BY <3>1, <3>2, <4>1
      <4>2. CASE Becomes([ctx EXCEPT !.mode = "created-incomplete"], mgmt[cur], work[cur])
        BY <1>1, <3>1, <4>2
      <4>3. CASE \E m \in {"none", "half"} :
                   Becomes([[ctx EXCEPT !.mode = "created-incomplete"] EXCEPT
                              !.named = TRUE, !.at = "management"], m, work[cur])
        BY <3>1, <3>2, <4>3
      <4>4. QED
        BY <2>2, <4>1, <4>2, <4>3 DEF Build
    <3>4. QED
      BY <1>1, <3>3 DEF Alters
  <2>3. QED
    BY <1>2, <1>3, <2>1, <2>2, NoChangeAlters DEF CreateCluster
<1>4. CASE UseExisting(out) /\ UNCHANGED base
  <2>1. /\ [ctx EXCEPT !.mode = "existing"] \in Contexts
        /\ [[ctx EXCEPT !.mode = "existing"] EXCEPT !.at = "management", !.named = TRUE] \in Contexts
    BY <1>1 DEF Contexts, Kubeconfigs
  <2>2. QED
    BY <1>1, <1>2, <1>4, <2>1 DEF UseExisting, Alters, Clusters
<1>5. CASE CreateWorkload(out) /\ UNCHANGED base
  <2>1. /\ [ctx EXCEPT !.mgmtKubeconfig = ctx.at] \in Contexts
        /\ [[ctx EXCEPT !.mgmtKubeconfig = ctx.at] EXCEPT !.workloadName = TRUE] \in Contexts
    BY <1>1 DEF Contexts
  <2>2. QED
    BY <1>1, <1>2, <1>5, <2>1, NoChangeAlters DEF CreateWorkload, Alters
<1>6. ASSUME NEW to, Switch(to, out) /\ UNCHANGED base
      PROVE  Alters /\ base' \in Bases
  <2>1. [ctx EXCEPT !.at = ctx.mgmtKubeconfig] \in Contexts
        /\ [ctx EXCEPT !.at = "workload"] \in Contexts
    BY <1>1 DEF Contexts, Kubeconfigs
  <2>2. QED
    BY <1>1, <1>2, <1>6, <2>1, NoChangeAlters DEF Switch, Alters
<1>7. CASE DeleteWorkload(out) /\ UNCHANGED base
  BY <1>1, <1>2, <1>7, NoChangeAlters DEF DeleteWorkload, Alters
<1>8. CASE Finish(out) /\ UNCHANGED base
  <2>1. ASSUME NEW leftovers, leftovers \subseteq {"none", "partial"}, Deleting(out, leftovers)
        PROVE  Alters
    BY <1>1, <2>1, NoChangeAlters DEF Deleting, Alters, Clusters
  <2>2. Freeze(out) => Alters
    BY <1>1, NoChangeAlters DEF Freeze, Alters, Clusters
  <2>3. QED
    BY <1>1, <1>2, <1>8, <2>1, <2>2, NoChangeAlters
       DEF Finish, DeleteClaim, DeleteCluster, Contexts
<1>9. CASE NoChange /\ UNCHANGED base
  BY <1>2, <1>9, NoChangeAlters
<1>10. QED
  BY <1>3, <1>4, <1>5, <1>6, <1>7, <1>8, <1>9 DEF Effect

\* The diagnostics change nothing.
LEMMA CollectChangesNothing ==
  ASSUME phase = "collect", NEW out, pos \in 1..Len(PhaseSteps(cur, phase)),
         Effect(PhaseSteps(cur, phase)[pos], out)
  PROVE  NoChange /\ UNCHANGED base
<1>1. PhaseSteps(cur, phase)[pos] = "collect_diagnostics"
  BY DEF PhaseSteps
<1>2. QED
  BY <1>1 DEF Effect

-----------------------------------------------------------------------------
(* What a step writes into the books.                                       *)

InPhase == phase \in {"steps", "collect", "cleanup"}

\* What a phase's step has seen, if it has made m of the cluster.
LEMMA Observes ==
  ASSUME Places, Worlds, Books, InPhase, NEW m \in Clusters, base' \in Bases, Observe(m)
  PROVE  /\ seen' \in [Index -> Sights]
         /\ \A i \in Index \ {cur} : seen'[i] = seen[i]
         /\ phase = "steps" => seen'[cur].left = m
         /\ phase # "steps" => seen'[cur].left = seen[cur].left
         /\ phase = "collect" => seen'[cur].collected = mgmt[cur]
         /\ phase # "collect" => seen'[cur].collected = seen[cur].collected
         /\ phase = "cleanup" => seen'[cur].tried = pos
<1>1. cur \in Index /\ seen[cur] \in Sights /\ mgmt[cur] \in Clusters /\ env \in Envs /\ pos \in Nat
  BY DEF Places, Worlds, Books, InPhase
<1>2. PICK s : /\ seen' = [seen EXCEPT ![cur] = s]
               /\ s = [seen[cur] EXCEPT
                         !.base = IF phase = "steps" THEN @ \cup {base'} ELSE @,
                         !.env = IF phase = "steps" THEN @ \cup {env} ELSE @,
                         !.collected = IF phase = "collect" THEN mgmt[cur] ELSE @,
                         !.left = IF phase = "steps" THEN m ELSE @,
                         !.tried = IF phase = "cleanup" THEN pos ELSE @]
  BY <1>1 DEF Observe, Books
<1>3. s \in Sights
  BY <1>1, <1>2 DEF Sights
<1>4. seen' \in [Index -> Sights] /\ seen'[cur] = s
      /\ \A i \in Index \ {cur} : seen'[i] = seen[i]
  BY <1>1, <1>2, <1>3 DEF Books
<1>5. /\ s.left = (IF phase = "steps" THEN m ELSE seen[cur].left)
      /\ s.collected = (IF phase = "collect" THEN mgmt[cur] ELSE seen[cur].collected)
      /\ s.tried = (IF phase = "cleanup" THEN pos ELSE seen[cur].tried)
  BY <1>1, <1>2 DEF Sights
<1>6. QED
  BY <1>4, <1>5

\* The end of a phase: the verdict is touched by the steps alone.
LEMMA PhaseEnds ==
  ASSUME Places, Books, InPhase, NEW how \in {"ok", "broke"}, EndPhase(how)
  PROVE  /\ result' \in [Index -> Results]
         /\ \A i \in Index \ {cur} : result'[i] = result[i]
         /\ result'[cur].ok = (result[cur].ok /\ ~(phase = "steps" /\ how = "broke"))
         /\ result'[cur].steps = (IF phase = "steps" THEN how ELSE result[cur].steps)
         /\ phase' = After(phase, result'[cur].ok) /\ pos' = 0
         /\ cur' = (IF phase' = "idle" THEN cur + 1 ELSE cur)
         /\ UNCHANGED <<opts, env>>
<1> DEFINE ok == result[cur].ok /\ ~(phase = "steps" /\ how = "broke")
<1>1. cur \in Index /\ result[cur] \in Results /\ ok \in BOOLEAN
  BY DEF Places, Books, InPhase
<1>2. PICK r : /\ result' = [result EXCEPT ![cur] = r]
               /\ r = [[result[cur] EXCEPT !.ok = ok] EXCEPT ![phase] = how]
  BY <1>1 DEF EndPhase, Books
<1>3. r \in Results /\ r.ok = ok /\ r.steps = (IF phase = "steps" THEN how ELSE result[cur].steps)
  <2>1. CASE phase = "steps"
    BY <1>1, <1>2, <2>1 DEF Results, States
  <2>2. CASE phase = "collect"
    BY <1>1, <1>2, <2>2 DEF Results, States
  <2>3. CASE phase = "cleanup"
    BY <1>1, <1>2, <2>3 DEF Results, States
  <2>4. QED
    BY <2>1, <2>2, <2>3 DEF InPhase
<1>4. result' \in [Index -> Results] /\ result'[cur] = r
      /\ \A i \in Index \ {cur} : result'[i] = result[i]
  BY <1>1, <1>2, <1>3 DEF Books
<1>5. phase' = After(phase, ok) /\ pos' = 0 /\ UNCHANGED <<opts, env>>
      /\ cur' = (IF phase' = "idle" THEN cur + 1 ELSE cur)
  BY DEF EndPhase
<1>6. QED
  BY <1>3, <1>4, <1>5

-----------------------------------------------------------------------------
(* The phases.                                                              *)

Story == /\ VerdictBySteps /\ NotYetBegun /\ LeftBySteps /\ CollectedFirst /\ TriedOnce
         /\ FailureIsDiagnosed /\ CleanupContract

\* What holds of the scenario's cluster and of what was seen of it behind a step, or at
\* the end of a list.
SeenBehind ==
  /\ seen' \in [Index -> Sights] /\ mgmt' \in [Index -> Clusters]
  /\ \A i \in Index \ {cur} : seen'[i] = seen[i] /\ mgmt'[i] = mgmt[i]
  /\ phase \in {"steps", "collect"} => seen'[cur].left = mgmt'[cur]
  /\ phase = "collect" \/ (phase = "cleanup" /\ ~result[cur].ok) =>
       seen'[cur].collected = seen'[cur].left
  /\ phase = "cleanup" => seen'[cur].tried > 0 \/ CleanupSteps(cur) = <<>>

\* A phase that ends, in a scenario of which that holds.
LEMMA StoryEnds ==
  ASSUME Places, Books, Story, InPhase, NEW how \in {"ok", "broke"}, EndPhase(how), SeenBehind
  PROVE  Places' /\ Books' /\ Story'
<1> DEFINE ok == result'[cur].ok
<1>1. /\ result' \in [Index -> Results]
      /\ \A i \in Index \ {cur} : result'[i] = result[i]
      /\ ok = (result[cur].ok /\ ~(phase = "steps" /\ how = "broke"))
      /\ result'[cur].steps = (IF phase = "steps" THEN how ELSE result[cur].steps)
      /\ phase' = After(phase, ok) /\ pos' = 0
      /\ cur' = (IF phase' = "idle" THEN cur + 1 ELSE cur)
      /\ UNCHANGED <<opts, env>>
  BY PhaseEnds
<1>2. /\ phase' \in {"collect", "cleanup", "idle"}
      /\ phase = "steps" => phase' \in {"collect", "cleanup"} \/ (ok /\ phase' = "idle" /\ opts.keep)
      /\ phase = "steps" /\ ~ok => phase' = "collect"
      /\ phase = "collect" => phase' = "cleanup" \/ (phase' = "idle" /\ opts.keep)
      /\ phase = "cleanup" => phase' = "idle" /\ ~opts.keep
      /\ phase' = "collect" => phase = "steps"
      /\ phase' = "cleanup" => ~opts.keep
  BY <1>1 DEF After, InPhase, Places
<1>3. cur \in Index /\ cur \in Nat /\ Len(Plan) \in Nat /\ opts.keep \in BOOLEAN /\ ok \in BOOLEAN
  BY <1>1, PlanAssumption DEF Places, InPhase, Index, Results
<1>4. Places'
  BY <1>1, <1>2, <1>3 DEF Places, Phases, Index
<1>5. Books'
  BY <1>1 DEF Books, SeenBehind
<1> HIDE DEF ok
<1>6. /\ phase' = "idle" => cur' = cur + 1
      /\ phase' # "idle" => cur' = cur
      /\ \A i \in Index : i \in Nat
  BY <1>1 DEF Index
<1>7. VerdictBySteps'
  <2> SUFFICES ASSUME NEW i \in Index
               PROVE  /\ result'[i].ok <=> result'[i].steps # "broke"
                      /\ result'[i].steps = "todo" <=>
                           i > cur' \/ (i = cur' /\ phase' \in {"idle", "steps"})
    BY DEF VerdictBySteps
  <2>1. CASE i = cur
    <3>1. /\ result[cur].ok <=> result[cur].steps # "broke"
          /\ result[cur].steps = "todo" <=> phase = "steps"
      BY <1>3 DEF Story, VerdictBySteps, InPhase
    <3>2. result'[cur].ok <=> result'[cur].steps # "broke"
      BY <1>1, <3>1 DEF ok, Results
    <3>3. result'[cur].steps # "todo"
      BY <1>1, <3>1
    <3>4. ~(cur > cur' \/ (cur = cur' /\ phase' \in {"idle", "steps"}))
      BY <1>2, <1>3, <1>6
    <3>5. QED
      BY <2>1, <3>2, <3>3, <3>4
  <2>2. CASE i # cur
    BY <1>1, <1>2, <1>3, <1>6, <2>2 DEF Story, VerdictBySteps, InPhase
  <2>3. QED
    BY <2>1, <2>2
<1>8. NotYetBegun'
  BY <1>2, <1>3, <1>6 DEF NotYetBegun, Story, SeenBehind
<1>9. LeftBySteps' /\ TriedOnce'
  BY <1>1, <1>2, <1>3, <1>6 DEF LeftBySteps, TriedOnce, SeenBehind
<1>10. phase \in {"collect", "cleanup"} => ok = result[cur].ok
  BY <1>1 DEF ok, Books, Results, Places, InPhase
<1>11. CollectedFirst'
  BY <1>1, <1>2, <1>3, <1>6, <1>10 DEF CollectedFirst, SeenBehind, InPhase, ok
<1>12. FailureIsDiagnosed'
  <2> SUFFICES ASSUME NEW i \in Index, cur' > i, ~result'[i].ok
               PROVE  seen'[i].collected = seen'[i].left
    BY DEF FailureIsDiagnosed, Over
  <2>1. CASE i = cur
    BY <1>2, <1>3, <1>6, <1>10, <2>1 DEF SeenBehind, InPhase, ok
  <2>2. CASE i # cur
    <3>1. cur > i
      BY <1>3, <1>6, <2>2
    <3>2. QED
      BY <1>1, <2>2, <3>1 DEF Story, FailureIsDiagnosed, Over, SeenBehind
  <2>3. QED
    BY <2>1, <2>2
<1>13. CleanupContract'
  <2> SUFFICES ASSUME NEW i \in Index, cur' > i
               PROVE  IF opts.keep THEN mgmt'[i] = seen'[i].left
                      ELSE CleanupSteps(i) # <<>> => seen'[i].tried > 0
    BY <1>1 DEF CleanupContract, Over
  <2>1. CASE i = cur
    BY <1>2, <1>3, <1>6, <2>1 DEF SeenBehind, InPhase
  <2>2. CASE i # cur
    <3>1. cur > i
      BY <1>3, <1>6, <2>2
    <3>2. QED
      BY <2>2, <3>1 DEF Story, CleanupContract, Over, SeenBehind
  <2>3. QED
    BY <2>1, <2>2
<1>14. QED
  BY <1>4, <1>5, <1>7, <1>8, <1>9, <1>11, <1>12, <1>13 DEF Story

\* A step behind which the phase goes on.
LEMMA StoryGoesOn ==
  ASSUME Places, Books, Story, InPhase, SeenBehind, pos' = pos + 1, pos > 0,
         phase = "cleanup" => CleanupSteps(cur) # <<>>,
         UNCHANGED <<opts, cur, phase, result>>
  PROVE  Places' /\ Books' /\ Story'
<1>1. cur \in Index /\ \A i \in Index : i \in Nat
  BY DEF Places, InPhase, Index
<1>2. Places' /\ Books'
  BY DEF Places, Books, SeenBehind
<1>3. VerdictBySteps' /\ NotYetBegun'
  BY <1>1 DEF Story, VerdictBySteps, NotYetBegun, SeenBehind, InPhase
<1>4. LeftBySteps' /\ CollectedFirst' /\ TriedOnce'
  BY <1>1 DEF LeftBySteps, CollectedFirst, TriedOnce, SeenBehind
<1>5. \A i \in Index : cur > i => i # cur
  BY <1>1
<1>6. FailureIsDiagnosed'
  BY <1>5 DEF Story, FailureIsDiagnosed, Over, SeenBehind
<1>7. CleanupContract'
  BY <1>5 DEF Story, CleanupContract, Over, SeenBehind
<1>8. QED
  BY <1>2, <1>3, <1>4, <1>6, <1>7 DEF Story

\* A step of the scenario, whether it returns or raises, leaves that behind.
LEMMA StepSeen ==
  ASSUME Places, Worlds, Books, Story, InPhase, pos \in 1..Len(PhaseSteps(cur, phase)),
         NEW out \in Outcomes, Effect(PhaseSteps(cur, phase)[pos], out), Observe(mgmt'[cur])
  PROVE  SeenBehind /\ ctx' \in Contexts /\ work' \in [Index -> BOOLEAN] /\ base' \in Bases
<1>1. cur \in Index
  BY DEF Places, InPhase
<1>2. Alters /\ base' \in Bases
  BY <1>1, EffectAlters
<1>3. /\ ctx' \in Contexts /\ work' \in [Index -> BOOLEAN] /\ mgmt' \in [Index -> Clusters]
      /\ mgmt'[cur] \in Clusters /\ \A i \in Index \ {cur} : mgmt'[i] = mgmt[i]
  <2>1. PICK c \in Contexts, m \in Clusters, w \in BOOLEAN : Becomes(c, m, w)
    BY <1>2 DEF Alters
  <2>2. QED
    BY <1>1, <2>1 DEF Becomes, Worlds
<1>4. /\ seen' \in [Index -> Sights]
      /\ \A i \in Index \ {cur} : seen'[i] = seen[i]
      /\ phase = "steps" => seen'[cur].left = mgmt'[cur]
      /\ phase # "steps" => seen'[cur].left = seen[cur].left
      /\ phase = "collect" => seen'[cur].collected = mgmt[cur]
      /\ phase # "collect" => seen'[cur].collected = seen[cur].collected
      /\ phase = "cleanup" => seen'[cur].tried = pos
  BY <1>2, <1>3, Observes
<1>5. phase = "collect" => mgmt' = mgmt
  BY CollectChangesNothing DEF NoChange
<1>6. phase = "collect" => seen[cur].left = mgmt[cur]
  BY DEF Story, LeftBySteps
<1>7. pos > 0
  OBVIOUS
<1>8. QED
  BY <1>2, <1>3, <1>4, <1>5, <1>6, <1>7 DEF SeenBehind, Story, CollectedFirst

-----------------------------------------------------------------------------
(* The invariant.                                                           *)

\* A process begins with nothing run.
LEMMA ProcessBegins ==
  ASSUME Init
  PROVE  IInv
<1>1. Len(Plan) \in Nat
  BY PlanAssumption
<1>2. Places
  BY <1>1 DEF Init, Places, Phases
<1>3. Worlds
  BY DEF Init, Worlds, NewContext, Contexts, Kubeconfigs, Clusters, Bases, Envs
<1>4. Books
  <2>1. NewResult \in Results
    BY DEF NewResult, Results, States
  <2>2. NewSeen \in Sights
    BY DEF NewSeen, Sights
  <2>3. QED
    BY <2>1, <2>2 DEF Init, Books
<1>5. \A i \in Index : ~(1 > i)
  BY DEF Index
<1>6. \A i \in Index : i > 1 \/ i = 1
  BY DEF Index
<1>7. VerdictBySteps
  BY <1>6 DEF Init, VerdictBySteps, NewResult
<1>8. NotYetBegun /\ LeftBySteps /\ CollectedFirst /\ TriedOnce
  BY DEF Init, NotYetBegun, LeftBySteps, CollectedFirst, TriedOnce
<1>9. FailureIsDiagnosed /\ CleanupContract
  BY <1>5 DEF Init, FailureIsDiagnosed, CleanupContract, Over
<1>10. QED
  BY <1>2, <1>3, <1>4, <1>7, <1>8, <1>9 DEF IInv

\* Every step of the process keeps the invariant.
LEMMA ProcessStep ==
  ASSUME IInv, [Next]_vars
  PROVE  IInv'
<1>1. Places /\ Worlds /\ Books /\ Story
  BY DEF IInv, Story
<1> SUFFICES Places' /\ Worlds' /\ Books' /\ Story'
  BY DEF IInv, Story
<1>2. CASE StartScenario
  <2>1. /\ cur \in Index /\ phase = "idle" /\ phase' = "steps" /\ pos' = 0 /\ ctx' = NewContext
        /\ UNCHANGED <<opts, cur, mgmt, work, base, env, result, seen>>
    BY <1>2 DEF StartScenario
  <2>2. Places' /\ Books'
    BY <1>1, <2>1 DEF Places, Books, Phases
  <2>3. Worlds'
    BY <1>1, <2>1 DEF Worlds, NewContext, Contexts, Kubeconfigs
  <2>4. Story'
    BY <1>1, <2>1 DEF Story, VerdictBySteps, NotYetBegun, LeftBySteps, CollectedFirst, TriedOnce,
       FailureIsDiagnosed, CleanupContract, Over
  <2>5. QED
    BY <2>2, <2>3, <2>4
<1>3. CASE BeginSteps \/ BeginTolerant
  <2>1. /\ pos' = 1 /\ UNCHANGED <<opts, cur, phase, ctx, mgmt, work, base, result, seen>>
        /\ env' \in {env, Default[cur]} /\ InPhase
        /\ BeginTolerant => env' = env
    BY <1>3 DEF BeginSteps, BeginTolerant, InPhase
  <2>2. Places' /\ Books'
    BY <1>1, <2>1 DEF Places, Books
  <2>3. Worlds'
    BY <1>1, <2>1 DEF Worlds, Envs, Places, InPhase
  <2>4. Story'
    BY <1>1, <2>1 DEF Story, VerdictBySteps, NotYetBegun, LeftBySteps, CollectedFirst, TriedOnce,
       FailureIsDiagnosed, CleanupContract, Over
  <2>5. QED
    BY <2>2, <2>3, <2>4
<1>4. CASE GuardFails
  <2>1. /\ phase = "steps" /\ InPhase /\ cur \in Index /\ EndPhase("broke")
        /\ seen' = [seen EXCEPT ![cur].left = mgmt[cur]] /\ UNCHANGED <<ctx, mgmt, work, base>>
    BY <1>1, <1>4 DEF GuardFails, InPhase, Places
  <2>2. SeenBehind
    <3>1. [seen[cur] EXCEPT !.left = mgmt[cur]] \in Sights
      BY <1>1, <2>1 DEF Books, Sights, Worlds
    <3>2. seen' \in [Index -> Sights] /\ seen'[cur].left = mgmt[cur]
          /\ \A i \in Index \ {cur} : seen'[i] = seen[i]
      BY <1>1, <2>1, <3>1 DEF Books, Sights
    <3>3. QED
      BY <1>1, <2>1, <3>2 DEF SeenBehind, Worlds
  <2>3. env' = env
    BY <2>1 DEF EndPhase
  <2>4. Places' /\ Books' /\ Story'
    BY <1>1, <2>1, <2>2, StoryEnds
  <2>5. QED
    BY <1>1, <2>1, <2>3, <2>4 DEF Worlds
<1>5. CASE StepReturns
  <2>1. /\ InPhase /\ pos \in 1..Len(PhaseSteps(cur, phase))
        /\ Effect(PhaseSteps(cur, phase)[pos], "returns") /\ Observe(mgmt'[cur])
        /\ pos' = pos + 1 /\ UNCHANGED <<opts, cur, phase, env, result>>
    BY <1>5 DEF StepReturns, InPhase, PhaseSteps
  <2>2. SeenBehind /\ ctx' \in Contexts /\ work' \in [Index -> BOOLEAN] /\ base' \in Bases
    BY <1>1, <2>1, StepSeen DEF Outcomes
  <2>3. phase = "cleanup" => CleanupSteps(cur) # <<>>
    BY <2>1 DEF PhaseSteps
  <2>4. Places' /\ Books' /\ Story'
    BY <1>1, <2>1, <2>2, <2>3, StoryGoesOn
  <2>5. QED
    BY <1>1, <2>1, <2>2, <2>4 DEF Worlds, SeenBehind
<1>6. CASE StepRaises
  <2>1. /\ InPhase /\ pos \in 1..Len(PhaseSteps(cur, phase))
        /\ Effect(PhaseSteps(cur, phase)[pos], "raises") /\ Observe(mgmt'[cur])
        /\ EndPhase("broke")
    BY <1>6 DEF StepRaises, InPhase, PhaseSteps
  <2>2. SeenBehind /\ ctx' \in Contexts /\ work' \in [Index -> BOOLEAN] /\ base' \in Bases
    BY <1>1, <2>1, StepSeen DEF Outcomes
  <2>3. env' = env
    BY <2>1 DEF EndPhase
  <2>4. Places' /\ Books' /\ Story'
    BY <1>1, <2>1, <2>2, StoryEnds
  <2>5. QED
    BY <1>1, <2>2, <2>3, <2>4 DEF Worlds, SeenBehind
<1>7. CASE PhaseDone
  <2>1. /\ InPhase /\ pos = Len(PhaseSteps(cur, phase)) + 1 /\ EndPhase("ok")
        /\ UNCHANGED <<ctx, mgmt, work, base, seen>>
    BY <1>7 DEF PhaseDone, InPhase
  <2>2. cur \in Index
    BY <1>1, <2>1 DEF Places, InPhase
  <2>3. /\ phase \in {"steps", "collect"} => pos > 1
        /\ phase = "cleanup" => pos > 1 \/ CleanupSteps(cur) = <<>>
    BY <2>1, <2>2, PlanLists DEF PhaseSteps
  <2>4. SeenBehind
    BY <1>1, <2>1, <2>3 DEF SeenBehind, Books, Worlds, Story, LeftBySteps, CollectedFirst,
       TriedOnce
  <2>5. env' = env
    BY <2>1 DEF EndPhase
  <2>6. Places' /\ Books' /\ Story'
    BY <1>1, <2>1, <2>4, StoryEnds
  <2>7. QED
    BY <1>1, <2>1, <2>5, <2>6 DEF Worlds
<1>8. CASE Report
  <2>1. /\ cur = Len(Plan) + 1 /\ phase = "idle" /\ phase' = "end"
        /\ UNCHANGED <<opts, cur, pos, ctx, mgmt, work, base, env, result, seen>>
    BY <1>8 DEF Report
  <2>2. \A i \in Index : cur > i /\ cur # i
    BY <2>1, PlanAssumption DEF Index
  <2>3. Story'
    BY <1>1, <2>1, <2>2 DEF Story, VerdictBySteps, NotYetBegun, LeftBySteps, CollectedFirst,
       TriedOnce, FailureIsDiagnosed, CleanupContract, Over
  <2>4. QED
    BY <1>1, <2>1, <2>3 DEF Places, Worlds, Books, Phases
<1>9. CASE UNCHANGED vars
  BY <1>1, <1>9 DEF vars, Places, Worlds, Books, Story, VerdictBySteps, NotYetBegun, LeftBySteps,
     CollectedFirst, TriedOnce, FailureIsDiagnosed, CleanupContract, Over
<1>10. QED
  BY <1>2, <1>3, <1>4, <1>5, <1>6, <1>7, <1>8, <1>9 DEF Next, Finished

\* The invariant holds in every state of every process.
THEOREM Invariance == Spec => []IInv
<1>1. Init => IInv
  BY ProcessBegins
<1>2. IInv /\ [Next]_vars => IInv'
  BY ProcessStep
<1>3. QED
  BY <1>1, <1>2, PTL DEF Spec

\* The exit status speaks of the steps alone, for any number of scenarios.
THEOREM TestIsVerdict == Spec => []VerdictIsTheTest
<1>1. IInv => VerdictIsTheTest
  <2> SUFFICES ASSUME IInv, phase = "end"
               PROVE  ExitCode = 0 <=> \A i \in Index : result[i].steps = "ok"
    BY DEF VerdictIsTheTest
  <2>1. \A i \in Index : result[i].steps # "todo"
    <3>1. \A i \in Index : ~(i > cur \/ i = cur)
      BY PlanAssumption DEF IInv, Places, Index
    <3>2. QED
      BY <3>1 DEF IInv, VerdictBySteps
  <2>2. \A i \in Index : result[i].ok <=> result[i].steps = "ok"
    BY <2>1 DEF IInv, VerdictBySteps, Books, Results, States
  <2>3. QED
    BY <2>2 DEF ExitCode
<1>2. QED
  BY <1>1, Invariance, PTL

\* The diagnostics of a failed scenario are of the cluster as the failed step left it.
THEOREM DiagnosedAsLeft == Spec => []FailureIsDiagnosed
<1>1. IInv => FailureIsDiagnosed
  BY DEF IInv
<1>2. QED
  BY <1>1, Invariance, PTL

\* A scenario is left with its tear-down attempted, or under --keep as its steps left it.
THEOREM TornDownOrKept == Spec => []CleanupContract
<1>1. IInv => CleanupContract
  BY DEF IInv
<1>2. QED
  BY <1>1, Invariance, PTL

-----------------------------------------------------------------------------
(* What is never torn down.                                                 *)

Makers == {"create_cluster", "use_existing_cluster"}
Dear == {"half", "supplied"}

\* As every scenario of the repository: one step that makes the cluster, or none, and none
\* in the cleanup.
OneCluster ==
  \A i \in Index :
    /\ \A j, k \in 1..Len(Plan[i].steps) :
         Plan[i].steps[j] \in Makers /\ Plan[i].steps[k] \in Makers => j = k
    /\ \A k \in 1..Len(Plan[i].cleanup) : Plan[i].cleanup[k] \notin Makers

\* The mode tells what finish_cluster may not touch.
ModeKnows ==
  cur \in Index => /\ mgmt[cur] = "half" => ctx.mode = "created-incomplete"
                   /\ mgmt[cur] = "supplied" => ctx.mode = "existing"

\* What may not be touched has been made by an earlier step.
MadeBefore ==
  phase = "steps" /\ mgmt[cur] \in Dear =>
    \E k \in 1..Len(Plan[cur].steps) : k < pos /\ Plan[cur].steps[k] \in Makers

KInv == IInv /\ ModeKnows /\ MadeBefore

\* A step that does not make a cluster keeps what the mode protects, and makes none such.
LEMMA OthersKeep ==
  ASSUME Worlds, cur \in Index, ModeKnows, NEW name, name \notin Makers, NEW out, Effect(name, out)
  PROVE  /\ ctx'.mode = ctx.mode
         /\ mgmt[cur] \in Dear => mgmt'[cur] = mgmt[cur]
         /\ mgmt[cur] \notin Dear => mgmt'[cur] \notin Dear
<1> DEFINE Keeps == /\ ctx'.mode = ctx.mode
                    /\ mgmt[cur] \in Dear => mgmt'[cur] = mgmt[cur]
                    /\ mgmt[cur] \notin Dear => mgmt'[cur] \notin Dear
<1>1. mgmt \in [Index -> Clusters] /\ ctx \in Contexts
  BY DEF Worlds
<1>2. ASSUME NoChange PROVE Keeps
  BY <1>2 DEF NoChange
<1>3. ASSUME NEW c \in Contexts, NEW m, NEW w, Becomes(c, m, w), c.mode = ctx.mode,
             m = mgmt[cur] \/ (mgmt[cur] \notin Dear /\ m \notin Dear)
      PROVE  Keeps
  BY <1>1, <1>3 DEF Becomes
<1> SUFFICES Keeps
  OBVIOUS
<1> HIDE DEF Keeps
<1>4. CASE CreateWorkload(out)
  <2>1. /\ [ctx EXCEPT !.mgmtKubeconfig = ctx.at] \in Contexts
        /\ [ctx EXCEPT !.mgmtKubeconfig = ctx.at].mode = ctx.mode
        /\ [[ctx EXCEPT !.mgmtKubeconfig = ctx.at] EXCEPT !.workloadName = TRUE] \in Contexts
        /\ [[ctx EXCEPT !.mgmtKubeconfig = ctx.at] EXCEPT !.workloadName = TRUE].mode = ctx.mode
    BY <1>1 DEF Contexts
  <2>2. QED
    BY <1>2, <1>3, <1>4, <2>1 DEF CreateWorkload, Keeps
<1>5. ASSUME NEW to, Switch(to, out) PROVE Keeps
  <2>1. \A k \in Kubeconfigs : /\ [ctx EXCEPT !.at = k] \in Contexts
                               /\ [ctx EXCEPT !.at = k].mode = ctx.mode
    BY <1>1 DEF Contexts
  <2>2. ctx.mgmtKubeconfig \in Kubeconfigs /\ "workload" \in Kubeconfigs
    BY <1>1 DEF Contexts, Kubeconfigs
  <2>3. NoChange \/ \E k \in Kubeconfigs : Becomes([ctx EXCEPT !.at = k], mgmt[cur], work[cur])
    BY <1>5, <2>2 DEF Switch
  <2>4. QED
    BY <1>2, <1>3, <2>1, <2>3
<1>6. CASE DeleteWorkload(out)
  BY <1>1, <1>2, <1>3, <1>6 DEF DeleteWorkload
<1>7. CASE Finish(out)
  <2>1. ASSUME NEW leftovers, leftovers \subseteq {"none", "partial"}, Deleting(out, leftovers),
               mgmt[cur] \notin Dear
        PROVE  Keeps
    <3>1. NoChange \/ \E m, w : Becomes(ctx, m, w) /\ m \notin Dear
      BY <2>1 DEF Deleting, Dear
    <3>2. QED
      BY <1>1, <1>2, <1>3, <2>1, <3>1
  <2>2. ASSUME Freeze(out) PROVE Keeps
    <3>1. NoChange \/ (mgmt[cur] \notin Dear /\ Becomes(ctx, "frozen", work[cur]))
      BY <2>2 DEF Freeze, Dear
    <3>2. QED
      BY <1>1, <1>2, <1>3, <3>1 DEF Dear
  <2>3. mgmt[cur] \in Dear => ctx.mode \in {"existing", "created-incomplete"}
    BY DEF ModeKnows, Dear
  <2>4. CASE ctx.mode \in {"existing", "created-incomplete"}
    BY <1>2, <1>7, <2>4 DEF Finish
  <2>5. CASE ctx.mode \in {"claimed", "created", "unset"}
    <3>1. mgmt[cur] \notin Dear
      BY <2>3, <2>5
    <3>2. Deleting(out, {"none"}) \/ Deleting(out, {"none", "partial"}) \/ Freeze(out)
      BY <1>7, <2>5 DEF Finish, DeleteClaim, DeleteCluster
    <3>3. QED
      BY <2>1, <2>2, <3>1, <3>2
  <2>6. QED
    BY <1>1, <2>4, <2>5 DEF Contexts
<1>8. QED
  BY <1>2, <1>4, <1>5, <1>6, <1>7 DEF Effect, Makers

\* A step that makes a cluster sets the mode that protects it.
LEMMA MakersKnow ==
  ASSUME Worlds, cur \in Index, mgmt[cur] \notin Dear,
         NEW name \in Makers, NEW out, Effect(name, out)
  PROVE  /\ mgmt'[cur] = "half" => ctx'.mode = "created-incomplete"
         /\ mgmt'[cur] = "supplied" => ctx'.mode = "existing"
<1> DEFINE Knows == /\ mgmt'[cur] = "half" => ctx'.mode = "created-incomplete"
                    /\ mgmt'[cur] = "supplied" => ctx'.mode = "existing"
<1>1. mgmt \in [Index -> Clusters] /\ ctx \in Contexts
  BY DEF Worlds
<1>2. CASE NoChange
  BY <1>2 DEF NoChange, Dear
<1>3. ASSUME NEW c, NEW m, NEW w, Becomes(c, m, w),
             m = "half" => c.mode = "created-incomplete", m = "supplied" => c.mode = "existing"
      PROVE  Knows
  BY <1>1, <1>3 DEF Becomes
<1>4. mgmt[cur] # "half" /\ mgmt[cur] # "supplied"
  BY DEF Dear
<1> HIDE DEF Knows
<1>5. ASSUME Claim(out) PROVE Knows
  BY <1>3, <1>5 DEF Claim
<1>6. ASSUME Build(out) PROVE Knows
  <2>1. [ctx EXCEPT !.mode = "created-incomplete"].mode = "created-incomplete"
        /\ [[ctx EXCEPT !.mode = "created-incomplete"] EXCEPT
              !.named = TRUE, !.at = "management"].mode = "created-incomplete"
    BY <1>1 DEF Contexts
  <2>2. QED
    BY <1>3, <1>4, <1>6, <2>1 DEF Build
<1>7. ASSUME UseExisting(out) PROVE Knows
  <2>1. [[ctx EXCEPT !.mode = "existing"] EXCEPT !.at = "management", !.named = TRUE].mode
          = "existing"
    BY <1>1 DEF Contexts
  <2>2. QED
    BY <1>3, <1>4, <1>7, <2>1 DEF UseExisting
<1>8. Knows
  BY <1>2, <1>5, <1>6, <1>7 DEF Effect, Makers, CreateCluster, Knows
<1>9. QED
  BY <1>8 DEF Knows

\* In no list but the one of the steps, and there in one place, is a cluster made.
LEMMA MadeOnce ==
  ASSUME OneCluster, Places, InPhase, MadeBefore, pos \in 1..Len(PhaseSteps(cur, phase)),
         PhaseSteps(cur, phase)[pos] \in Makers
  PROVE  /\ phase = "steps" /\ mgmt[cur] \notin Dear
         /\ pos \in 1..Len(Plan[cur].steps) /\ Plan[cur].steps[pos] \in Makers
<1>1. cur \in Index
  BY DEF Places, InPhase
<1>2. phase # "collect"
  BY DEF PhaseSteps, Makers
<1>3. phase # "cleanup"
  <2> SUFFICES ASSUME phase = "cleanup" PROVE FALSE
    OBVIOUS
  <2>1. pos \in 1..Len(CleanupSteps(cur)) /\ CleanupSteps(cur)[pos] \in Makers
    BY DEF PhaseSteps
  <2>2. CASE Plan[cur].cleanup # <<>>
    BY <1>1, <2>1, <2>2 DEF CleanupSteps, OneCluster
  <2>3. CASE Plan[cur].cleanup = <<>>
    BY <2>1, <2>3 DEF CleanupSteps, Makers
  <2>4. QED
    BY <2>2, <2>3
<1>4. phase = "steps"
  BY <1>2, <1>3 DEF InPhase
<1>5. pos \in 1..Len(Plan[cur].steps) /\ Plan[cur].steps[pos] \in Makers
  BY <1>4 DEF PhaseSteps
<1>6. \A k \in 1..Len(Plan[cur].steps) : k < pos => Plan[cur].steps[k] \notin Makers
  BY <1>1, <1>5 DEF OneCluster
<1>7. QED
  BY <1>4, <1>5, <1>6 DEF MadeBefore

\* No step of the process touches what is dear.
LEMMA DearStep ==
  ASSUME OneCluster, KInv, [Next]_vars
  PROVE  /\ ModeKnows' /\ MadeBefore'
         /\ \A i \in Index : mgmt[i] \in Dear => mgmt'[i] = mgmt[i]
<1> DEFINE Kept == \A i \in Index : mgmt[i] \in Dear => mgmt'[i] = mgmt[i]
<1>1. Places /\ Worlds /\ Books /\ Story /\ ModeKnows /\ MadeBefore
  BY DEF KInv, IInv, Story
<1>2. Len(Plan) \in Nat /\ \A i \in Index : i \in Nat
  BY PlanAssumption DEF Index
<1>3. \A i \in Index : i > cur => mgmt[i] = "none"
  BY <1>1 DEF Story, NotYetBegun
<1>4. ASSUME InPhase, NEW how \in {"ok", "broke"}, EndPhase(how),
             mgmt'[cur] = "half" => ctx'.mode = "created-incomplete",
             mgmt'[cur] = "supplied" => ctx'.mode = "existing",
             \A i \in Index \ {cur} : mgmt'[i] = mgmt[i]
      PROVE  ModeKnows' /\ MadeBefore'
  <2>1. cur \in Index /\ cur \in Nat
    BY <1>1, <1>2, <1>4 DEF Places, InPhase
  <2>2. phase' \in {"collect", "cleanup", "idle"} /\ cur' \in {cur, cur + 1}
    BY <1>4 DEF EndPhase, After
  <2>3. cur' \in Index /\ cur' # cur => mgmt'[cur'] = "none"
    BY <1>2, <1>3, <1>4, <2>1, <2>2
  <2>4. ModeKnows'
    BY <1>4, <2>2, <2>3 DEF ModeKnows, Index
  <2>5. QED
    BY <2>2, <2>4 DEF MadeBefore
<1>5. CASE StartScenario \/ BeginSteps \/ BeginTolerant
  <2>1. mgmt' = mgmt /\ cur' = cur /\ Kept
    BY <1>5 DEF StartScenario, BeginSteps, BeginTolerant
  <2>2. CASE StartScenario
    <3>1. mgmt'[cur'] = "none"
      BY <1>1, <2>1, <2>2 DEF StartScenario, Story, NotYetBegun
    <3>2. QED
      BY <2>1, <3>1 DEF ModeKnows, MadeBefore, Dear
  <2>3. CASE BeginSteps \/ BeginTolerant
    <3>1. ModeKnows'
      BY <1>1, <2>1, <2>3 DEF ModeKnows, BeginSteps, BeginTolerant
    <3>2. MadeBefore'
      BY <1>1, <2>3 DEF MadeBefore, BeginSteps, BeginTolerant
    <3>3. QED
      BY <2>1, <3>1, <3>2
  <2>4. QED
    BY <1>5, <2>2, <2>3
<1>6. CASE GuardFails \/ PhaseDone
  <2>1. InPhase /\ UNCHANGED <<ctx, mgmt>> /\ (EndPhase("ok") \/ EndPhase("broke"))
    BY <1>6 DEF GuardFails, PhaseDone, InPhase
  <2>2. cur \in Index
    BY <1>1, <2>1 DEF Places, InPhase
  <2>3. QED
    BY <1>1, <1>4, <2>1, <2>2 DEF ModeKnows
<1>7. CASE StepReturns \/ StepRaises
  <2> DEFINE name == PhaseSteps(cur, phase)[pos]
  <2>1. PICK out \in Outcomes : Effect(name, out)
    BY <1>7 DEF StepReturns, StepRaises, Outcomes
  <2>2. /\ InPhase /\ pos \in 1..Len(PhaseSteps(cur, phase)) /\ Observe(mgmt'[cur])
        /\ \/ pos' = pos + 1 /\ UNCHANGED <<cur, phase>>
           \/ EndPhase("broke")
    BY <1>7 DEF StepReturns, StepRaises, InPhase, PhaseSteps
  <2>3. cur \in Index
    BY <1>1, <2>2 DEF Places, InPhase
  <2>4. \A i \in Index \ {cur} : mgmt'[i] = mgmt[i]
    BY <1>1, <2>1, <2>2, StepSeen DEF SeenBehind
  <2>5. name \in Makers => mgmt[cur] \notin Dear /\ phase = "steps"
                           /\ pos \in 1..Len(Plan[cur].steps) /\ Plan[cur].steps[pos] \in Makers
    BY <1>1, <2>2, MadeOnce
  <2> HIDE DEF name
  <2>6. /\ mgmt'[cur] = "half" => ctx'.mode = "created-incomplete"
        /\ mgmt'[cur] = "supplied" => ctx'.mode = "existing"
        /\ mgmt[cur] \in Dear => mgmt'[cur] = mgmt[cur]
        /\ name \notin Makers /\ mgmt[cur] \notin Dear => mgmt'[cur] \notin Dear
    <3>1. CASE name \in Makers
      BY <1>1, <2>1, <2>3, <2>5, <3>1, MakersKnow
    <3>2. CASE name \notin Makers
      <4>1. /\ ctx'.mode = ctx.mode
            /\ mgmt[cur] \in Dear => mgmt'[cur] = mgmt[cur]
            /\ mgmt[cur] \notin Dear => mgmt'[cur] \notin Dear
        BY <1>1, <2>1, <2>3, <3>2, OthersKeep
      <4>2. QED
        BY <1>1, <2>3, <4>1 DEF ModeKnows, Dear
    <3>3. QED
      BY <3>1, <3>2
  <2>7. Kept
    BY <2>4, <2>6
  <2>8. CASE EndPhase("broke")
    BY <1>4, <2>2, <2>4, <2>6, <2>7, <2>8
  <2>9. CASE pos' = pos + 1 /\ UNCHANGED <<cur, phase>>
    <3>1. ModeKnows'
      BY <2>6, <2>9 DEF ModeKnows
    <3>2. MadeBefore'
      <4> SUFFICES ASSUME phase = "steps", mgmt'[cur] \in Dear
                   PROVE  \E k \in 1..Len(Plan[cur].steps) :
                            k < pos + 1 /\ Plan[cur].steps[k] \in Makers
        BY <2>9 DEF MadeBefore
      <4>1. CASE name \in Makers
        BY <2>5, <4>1
      <4>2. CASE name \notin Makers
        <5>1. PICK k \in 1..Len(Plan[cur].steps) : k < pos /\ Plan[cur].steps[k] \in Makers
          BY <1>1, <2>6, <4>2 DEF MadeBefore
        <5>2. k < pos + 1
          BY <2>2, <5>1
        <5>3. QED
          BY <5>1, <5>2
      <4>3. QED
        BY <4>1, <4>2
    <3>3. QED
      BY <2>7, <3>1, <3>2
  <2>10. QED
    BY <2>2, <2>8, <2>9
<1>8. CASE Report \/ UNCHANGED vars
  BY <1>1, <1>8 DEF Report, vars, ModeKnows, MadeBefore
<1>9. QED
  BY <1>5, <1>6, <1>7, <1>8 DEF Next, Finished

\* A half-built and a supplied cluster survive whatever a scenario's lists go on to do.
THEOREM DearIsKept ==
  ASSUME OneCluster
  PROVE  Spec => NeverTornDown
<1>1. Init => KInv
  <2> SUFFICES ASSUME Init PROVE KInv
    OBVIOUS
  <2>1. IInv
    BY ProcessBegins
  <2>2. QED
    BY <2>1 DEF Init, KInv, ModeKnows, MadeBefore
<1>2. KInv /\ [Next]_vars => KInv'
  BY ProcessStep, DearStep DEF KInv
<1>3. KInv /\ [Next]_vars
        => [\A i \in Index : mgmt[i] \in {"half", "supplied"} => mgmt'[i] = mgmt[i]]_vars
  BY DearStep DEF Dear
<1>4. QED
  BY <1>1, <1>2, <1>3, PTL DEF Spec, NeverTornDown

-----------------------------------------------------------------------------
(* run() and its watchdog: the inductive invariant, part by part.           *)

\* The watchdog is never late: the clock does not pass the budget while it is armed.
ArmedInBudget == timer = "armed" => now <= Timeout

\* It is off only before the input is taken, or when it was refused; it is over with the
\* child gone, unless the loop was broken off.
DisarmedIsOver ==
  /\ reader = "feeding" => timer = "off" /\ now = 0
  /\ timer = "off" => reader = "feeding" \/ broke = "error"
  /\ timer = "fired" => child # "running"
  /\ timer = "cancelled" => child # "running" \/ broke # "no"

\* The flag, the timer and the kill follow each other, and none comes before the budget
\* ends.
FlagIsFired ==
  /\ timedOut <=> timer \in {"flagged", "fired"}
  /\ child = "killed" => timer = "fired"
  /\ timer \in {"firing", "flagged", "fired"} => now >= Timeout

\* What broke the loop off makes run() leave.
BrokenLeaves ==
  /\ reader \in {"feeding", "reading", "waiting", "closing"} => broke = "no"
  /\ reader = "leaving" => broke # "no"

Orderly == broke = "no" /\ reader \in {"waiting", "closing", "done"}

\* Behind the loop the stream has ended for good.
StreamEnded == Orderly => pipe = 0 /\ ~PipeHeld

\* Behind proc.wait and the finally block, the child is gone and the watchdog cancelled, or
\* on its way.
WaitedFor == Orderly /\ reader # "waiting" => child # "running" /\ timer \notin {"off", "armed"}

\* The outcome is decided once: by the flag, if no exception was raised.
OutcomeByFlag ==
  /\ outcome = "none" <=> reader # "done"
  /\ outcome = "raised" <=> reader = "done" /\ broke # "no"
  /\ outcome = "timeout" => timedOut
  /\ outcome \in {"result", "error"} => child = "exited"

ShellInv == /\ ShellTypeOK
        /\ ArmedInBudget /\ DisarmedIsOver /\ FlagIsFired /\ BrokenLeaves
        /\ StreamEnded /\ WaitedFor /\ OutcomeByFlag
        /\ OwnChildIsBounded

-----------------------------------------------------------------------------
(* The invariant.                                                           *)

\* Every step of the child, of the process it leaves behind, of run(), of the
\* watchdog and of the clock keeps the types.
LEMMA ShellTypeStep ==
  ASSUME ShellTypeOK, [ShellNext]_shellVars
  PROVE  ShellTypeOK'
<1> USE BudgetAssumption DEF ShellTypeOK
<1>1. CASE Processes
  <2>1. CASE Prints
    <3>1. printed' \in 0..MaxLines /\ pipe' \in 0..printed'
      BY <2>1 DEF Prints
    <3>2. QED
      BY <2>1, <3>1 DEF Prints
  <2>2. CASE ClosesStdout
    BY <2>2 DEF ClosesStdout
  <2>3. CASE Forks
    BY <2>3 DEF Forks
  <2>4. CASE GrandchildEnds
    BY <2>4 DEF GrandchildEnds
  <2>5. CASE ChildExits
    BY <2>5 DEF ChildExits
  <2>6. QED
    BY <1>1, <2>1, <2>2, <2>3, <2>4, <2>5 DEF Processes
<1>2. CASE Run
  BY <1>2 DEF Run, ReadLine, EndOfStream, WaitReturns, Conclude, Leaves, Cancelled
<1>3. CASE Surprises
  BY <1>3 DEF Surprises, TakesInput, InputFails, Breaks, Cancelled
<1>4. CASE Watchdog
  BY <1>4 DEF Watchdog, GoesOff, Flags, Kills
<1>5. CASE Tick
  BY <1>5 DEF Tick
<1>6. CASE UNCHANGED shellVars
  BY <1>6 DEF shellVars
<1>7. QED
  BY <1>1, <1>2, <1>3, <1>4, <1>5, <1>6 DEF ShellNext

\* The clock passes the budget only when run() has nothing left to do, or waits for a
\* process that the child has left behind.
LEMMA TickIsBounded ==
  ASSUME ShellInv, Tick
  PROVE  OwnChildIsBounded'
<1> SUFFICES ASSUME grand' = "none", broke' # "error", now' > Timeout PROVE FALSE
  BY DEF OwnChildIsBounded, ReadIsBounded
<1>1. /\ grand = "none" /\ broke # "error" /\ now' = now + 1
      /\ reader \notin {"feeding", "done"} /\ ~WatchdogCanAct /\ ~ReaderCanAct
  BY DEF Tick
<1>2. now >= Timeout
  BY <1>1, BudgetAssumption DEF ShellInv, ShellTypeOK
<1>3. timer \in {"off", "fired", "cancelled"}
  BY <1>1, <1>2 DEF Due, WatchdogCanAct, ShellInv, ShellTypeOK
<1>4. child # "running"
  <2>1. broke # "interrupt"
    BY <1>1 DEF ShellInv, ShellTypeOK, BrokenLeaves, ReaderCanAct
  <2>2. broke = "no"
    BY <1>1, <2>1 DEF ShellInv, ShellTypeOK
  <2>3. QED
    BY <1>1, <1>3, <2>2 DEF ShellInv, DisarmedIsOver
<1>5. ~PipeHeld
  BY <1>1, <1>4 DEF PipeHeld
<1>6. QED
  BY <1>1, <1>4, <1>5 DEF ShellInv, ShellTypeOK, ReaderCanAct

\* Every step keeps the invariant.
LEMMA ShellStep ==
  ASSUME ShellInv, [ShellNext]_shellVars
  PROVE  ShellInv'
<1> USE DEF ArmedInBudget, DisarmedIsOver, FlagIsFired, BrokenLeaves, Orderly, StreamEnded, WaitedFor,
            OutcomeByFlag, OwnChildIsBounded, ReadIsBounded, PipeHeld
<1>1. ShellTypeOK'
  BY ShellTypeStep DEF ShellInv
<1>2. CASE Prints
  BY <1>1, <1>2 DEF ShellInv, ShellTypeOK, Prints
<1>3. CASE ClosesStdout
  BY <1>1, <1>3 DEF ShellInv, ShellTypeOK, ClosesStdout
<1>4. CASE Forks
  BY <1>1, <1>4 DEF ShellInv, ShellTypeOK, Forks
<1>5. CASE GrandchildEnds
  BY <1>1, <1>5 DEF ShellInv, ShellTypeOK, GrandchildEnds
<1>6. CASE ChildExits
  BY <1>1, <1>6 DEF ShellInv, ShellTypeOK, ChildExits
<1>7. CASE ReadLine
  BY <1>1, <1>7 DEF ShellInv, ShellTypeOK, ReadLine
<1>8. CASE EndOfStream
  BY <1>1, <1>8 DEF ShellInv, ShellTypeOK, EndOfStream
<1>9. CASE WaitReturns
  BY <1>1, <1>9 DEF ShellInv, ShellTypeOK, WaitReturns, Cancelled
<1>10. CASE Conclude
  BY <1>1, <1>10 DEF ShellInv, ShellTypeOK, Conclude
<1>11. CASE Leaves
  BY <1>1, <1>11 DEF ShellInv, ShellTypeOK, Leaves
<1>12. CASE TakesInput
  BY <1>1, <1>12, BudgetAssumption DEF ShellInv, ShellTypeOK, TakesInput
<1>13. CASE InputFails
  BY <1>1, <1>13 DEF ShellInv, ShellTypeOK, InputFails
<1>14. CASE Breaks
  BY <1>1, <1>14 DEF ShellInv, ShellTypeOK, Breaks, Cancelled
<1>15. CASE GoesOff
  BY <1>1, <1>15, BudgetAssumption DEF ShellInv, ShellTypeOK, GoesOff, Due
<1>16. CASE Flags
  BY <1>1, <1>16 DEF ShellInv, ShellTypeOK, Flags
<1>17. CASE Kills
  BY <1>1, <1>17 DEF ShellInv, ShellTypeOK, Kills
<1>18. CASE Tick
  <2>1. OwnChildIsBounded'
    BY <1>18, TickIsBounded
  <2>2. ArmedInBudget'
    BY <1>18, BudgetAssumption DEF ShellInv, ShellTypeOK, Tick, WatchdogCanAct, Due
  <2>3. FlagIsFired'
    BY <1>18, BudgetAssumption DEF ShellInv, ShellTypeOK, Tick
  <2>4. DisarmedIsOver'
    BY <1>18 DEF ShellInv, Tick
  <2>5. QED
    BY <1>1, <1>18, <2>1, <2>2, <2>3, <2>4 DEF ShellInv, Tick
<1>19. CASE UNCHANGED shellVars
  BY <1>1, <1>19 DEF ShellInv, shellVars
<1>20. QED
  BY <1>2, <1>3, <1>4, <1>5, <1>6, <1>7, <1>8, <1>9, <1>10, <1>11, <1>12, <1>13, <1>14, <1>15,
     <1>16, <1>17, <1>18, <1>19
     DEF ShellNext, Processes, Run, Surprises, Watchdog

\* The invariant holds of every run().
THEOREM ShellInvariance == ShellSpec => []ShellInv
<1>1. ShellInit => ShellInv
  <2>1. ShellInit => ShellTypeOK
    <3>1. 0 \in 0..MaxLines /\ 0 \in 0..0 /\ 0 \in 0..MaxNow
      BY BudgetAssumption
    <3>2. QED
      BY <3>1 DEF ShellInit, ShellTypeOK
  <2>2. ShellInit => ArmedInBudget /\ DisarmedIsOver /\ FlagIsFired /\ BrokenLeaves /\ StreamEnded
                 /\ WaitedFor /\ OutcomeByFlag /\ OwnChildIsBounded
    BY BudgetAssumption DEF ShellInit, ArmedInBudget, DisarmedIsOver, FlagIsFired, BrokenLeaves,
       Orderly, StreamEnded, WaitedFor, OutcomeByFlag, OwnChildIsBounded, ReadIsBounded
  <2>3. QED
    BY <2>1, <2>2 DEF ShellInv
<1>2. ShellInv /\ [ShellNext]_shellVars => ShellInv'
  BY ShellStep
<1>3. QED
  BY <1>1, <1>2, PTL DEF ShellSpec

-----------------------------------------------------------------------------
(* What run() promises its callers.                                         *)

\* run() has its types.
THEOREM ShellTypeCorrect == ShellSpec => []ShellTypeOK
<1>1. ShellInv => ShellTypeOK
  BY DEF ShellInv
<1>2. QED
  BY <1>1, ShellInvariance, PTL

\* "A watchdog that kills the child is what actually bounds it": with a child that
\* kept its standard output to itself, run() is not at work past its budget, unless its
\* loop was broken off.
THEOREM Bounded == ShellSpec => []OwnChildIsBounded
<1>1. ShellInv => OwnChildIsBounded
  BY DEF ShellInv
<1>2. QED
  BY <1>1, ShellInvariance, PTL

\* A result speaks of a child that ended by itself and was read to its end, a time-out
\* of a budget that was used up, and a killed child is never reported by its status.
THEOREM Honest == ShellSpec => []HonestOutcome
<1>1. ShellInv => HonestOutcome
  BY DEF ShellInv, ShellTypeOK, HonestOutcome, FlagIsFired, BrokenLeaves, Orderly, StreamEnded, WaitedFor,
     OutcomeByFlag
<1>2. QED
  BY <1>1, ShellInvariance, PTL
=============================================================================
