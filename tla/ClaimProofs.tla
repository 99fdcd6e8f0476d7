----------------------------- MODULE ClaimProofs -----------------------------
(* A claim from its first clone to its gates, for any control planes,         *)
(* workers, volumes, CRDs, runs under one name and tries of a script, with    *)
(* and without the pin of the git pod.  The three parts of the claim have an  *)
(* inductive invariant each; what connects them is in Opens, Leaves, Boots.   *)
EXTENDS Claim, TLAPS

-----------------------------------------------------------------------------
(* The preparation.                                                         *)

\* A machine-id thread that has ended has written, or is on record.
MidOnRecord ==
  main = "mid" =>
    \A n \in Prep!Nodes :
      midJob[n] # "idle" /\ (midJob[n] = "ended" => mid[n] = "own" \/ n \in midFail)

\* From the join of those threads on, as OwnMachineIds.
OwnWhenJoined ==
  main \in {"midEnd", "prep", "vg", "replaced"} =>
    late \/ \A n \in Prep!Nodes : mid[n] = "own"

\* A copy of the database was made by a run that has begun.
CopiesOfRuns ==
  /\ {file, placed} \subseteq 0..attempt
  /\ shipped \in [CPs -> 0..attempt] /\ data \in [CPs -> 0..attempt]

\* A control plane whose preparation has succeeded has restored a copy, and the main
\* thread has seen all of them succeed before it goes on.
OkHasData == \A c \in CPs : prep[c] = "ok" => data[c] # Prep!Never
AllWereOk == Prep!Prepared => \A n \in Prep!Nodes : prep[n] = "ok"

\* The result of the volumes' restores stands for all pairs.
ResultCounts == /\ vgResult = "ok" => pairs = PVs
                /\ main = "replaced" => vgResult = "ok"

\* The types, in groups that the steps disturb together.
MainTypes ==
  /\ attempt \in 1..Attempts
  /\ main \in {"power", "mid", "midEnd", "prep", "vg", "replaced", "exit"}
CloneTypes ==
  /\ vm \in [Prep!Nodes -> {"off", "on"}] /\ power \in [Prep!Nodes -> Prep!Job]
  /\ powerErr \subseteq Prep!Nodes
MidTypes ==
  /\ mid \in [Prep!Nodes -> {"template", "own"}] /\ midJob \in [Prep!Nodes -> Prep!Job]
  /\ midFail \subseteq Prep!Nodes /\ late \in BOOLEAN
NodeTypes ==
  /\ fetch \in {"idle", "running", "ok", "err"}
  /\ prep \in [Prep!Nodes -> {"idle", "copy", "wait", "ship", "script", "ok", "failed", "dead"}]
VolumeTypes ==
  /\ vg \in [PVs -> Prep!Job] /\ pairs \subseteq PVs /\ vgResult \in {"none", "ok", "err"}
  /\ subErr \in BOOLEAN

PrepInv == /\ MainTypes /\ CloneTypes /\ MidTypes /\ NodeTypes /\ VolumeTypes
           /\ Prep!PreparedIsOn
           /\ MidOnRecord /\ OwnWhenJoined
           /\ CopiesOfRuns /\ OkHasData /\ AllWereOk /\ ResultCounts

-----------------------------------------------------------------------------
(* The bypass of the conversion webhooks.                                   *)

\* A connection is lost only to a script that has begun.
LostHasBegun == lost => seedScript[1] # "off"

\* What the restore knows.
Mine == IF onseed THEN saved ELSE local

\* As long as no connection was lost, only the first try of the script has begun, and it
\* has ended when the main thread goes on.
OneTry ==
  /\ \A i \in Bypass!Tries : i > 1 => seedScript[i] = "off"
  /\ bypass # "bypass" => seedScript[1] \in {"off", "ok", "bad"}

\* Up to the window, what is bypassed is what the script has listed, and then saved; the
\* marker says whether the script has succeeded.
ScriptKnows ==
  /\ bypass # "bypass" => (onseed <=> seedScript[1] = "ok")
  /\ bypass = "laptop" => Bypass!Bypassed = {} /\ ~onseed
  /\ bypass = "bypass" =>
       /\ ~onseed
       /\ seedScript[1] \in {"off", "begun", "listed", "bad"} => Bypass!Bypassed = {}
       /\ seedScript[1] = "patched" => Bypass!Bypassed \subseteq listed[1]
       /\ seedScript[1] = "ok" => Bypass!Bypassed \subseteq saved

\* Then it is what the restore knows; the restore puts it back or warns, or dies where the
\* laptop does it after a script that has failed; and the main thread waits or warns.
RestoreKnows ==
  /\ bypass \in {"bypass", "laptop", "window", "crashed"} => restore = "idle"
  /\ bypass \notin {"bypass", "laptop", "crashed"} /\ restore \notin {"ended", "died"} =>
       Bypass!Bypassed \subseteq Mine
  /\ restore = "ended" => Bypass!Bypassed = {} \/ warned
  /\ restore = "died" => seedScript[1] = "bad"
  /\ bypass \in {"joinRestore", "boot", "booted", "exit10"} => restore # "idle"
  /\ bypass \in {"boot", "booted", "exit10"} => restore \in {"ended", "died"} \/ warned

BypassInv == /\ Bypass!TypeOK /\ LostHasBegun
             /\ again \/ lost \/ (OneTry /\ ScriptKnows /\ RestoreKnows)

-----------------------------------------------------------------------------
(* The settling.                                                            *)

\* As long as no patch of the source was refused and no rebuild cut off, flux has nothing
\* half-built, a repository is half-built only while git_hydrate waits for its script, and
\* the source is suspended then; gates.py never holds the source.
BuiltBehindSource ==
  odd \cap {"refused", "cut"} = {} =>
    /\ artifact = "whole" /\ applied = "whole"
    /\ post \in {"platform", "build"} => "source" \in suspended
    /\ script # "off" \/ repo = "half" => post = "build"

\* What is suspended is still to be resumed by one of the programs, or one has failed to.
OwedResume ==
  /\ gates.held # "source" /\ (gates.held # "none" => gates.at = "kusts")
  /\ storage.at \in {"suspend", "select", "place", "resume"} => Pinning
  /\ "source" \in suspended \ unsure => post \in {"platform", "build", "resume"}
  /\ "platform" \in suspended \ unsure =>
       post \in {"build", "resume", "resumeAll"} \/ gates.held = "platform"
  /\ "gitop" \in suspended \ unsure =>
       (Pinning /\ storage.at \in {"select", "scale", "place", "resume"}) \/ gates.held = "gitop"

\* The git pod is pinned before it can be placed, with flux held off, and stays so until
\* it has a node, unless something has gone wrong or a reconcile has overtaken the pin.
PinnedFirst ==
  Pinning /\ odd \cap {"loose", "overtaken"} = {} =>
    /\ storage.at \in {"suspend", "select", "scale"} => ~sts.up
    /\ storage.at \in {"select", "scale", "place"} => "gitop" \in suspended
    /\ storage.at \in {"scale", "place"} => sts.pinned
    /\ storage.at \in {"resume", "bounce", "delete", "ended"} => pod # "never"

SettleInv == Settle!TypeOK /\ BuiltBehindSource /\ OwedResume /\ PinnedFirst

ClaimTypes == phase \in {"prep", "window", "settle"} /\ again \in BOOLEAN

IInv == ClaimTypes /\ PrepInv /\ BypassInv /\ SettleInv

-----------------------------------------------------------------------------
(* The preparation keeps its invariant.                                     *)

\* It implies the type invariant: a copy is of a run up to the bound.
LEMMA PrepTypes == PrepInv => Prep!TypeOK
<1> SUFFICES ASSUME PrepInv PROVE Prep!TypeOK
  OBVIOUS
<1> USE DEF PrepInv
<1>1. 0..attempt \subseteq 0..Attempts
  BY BoundAssumption DEF MainTypes
<1>2. /\ {file, placed} \subseteq 0..Attempts
      /\ shipped \in [CPs -> 0..Attempts] /\ data \in [CPs -> 0..Attempts]
  BY <1>1 DEF CopiesOfRuns
<1>3. QED
  BY <1>2 DEF Prep!TypeOK, MainTypes, CloneTypes, MidTypes, NodeTypes, VolumeTypes

\* The claim begins with nothing prepared.
LEMMA PrepInit == Prep!Init => PrepInv
<1> SUFFICES ASSUME Prep!Init PROVE PrepInv
  OBVIOUS
<1> USE DEF Prep!Init, Prep!All, Prep!Never, Prep!Job, Prep!Nodes
<1>1. MainTypes
  BY BoundAssumption DEF MainTypes
<1>2. CloneTypes /\ MidTypes /\ NodeTypes /\ VolumeTypes
  BY DEF CloneTypes, MidTypes, NodeTypes, VolumeTypes
<1>3. CopiesOfRuns
  BY DEF CopiesOfRuns
<1>4. Prep!PreparedIsOn /\ MidOnRecord /\ OwnWhenJoined
  BY DEF Prep!PreparedIsOn, Prep!Prepared, MidOnRecord, OwnWhenJoined
<1>5. OkHasData /\ AllWereOk /\ ResultCounts
  BY DEF OkHasData, AllWereOk, Prep!Prepared, ResultCounts
<1>6. QED
  BY <1>1, <1>2, <1>3, <1>4, <1>5 DEF PrepInv

\* What ends all its threads keeps it, be it a limit or the end of the claim.
LEMMA EndOfRun ==
  ASSUME PrepInv, main' = "exit", Prep!NoJobs,
         UNCHANGED <<attempt, vm, mid, file, placed, shipped, data>>
  PROVE  PrepInv'
<1> USE DEF PrepInv, Prep!NoJobs, Prep!All, Prep!Job, Prep!Nodes
<1>1. MainTypes' /\ CloneTypes' /\ MidTypes' /\ NodeTypes' /\ VolumeTypes'
  BY DEF MainTypes, CloneTypes, MidTypes, NodeTypes, VolumeTypes
<1>2. CopiesOfRuns'
  BY DEF CopiesOfRuns
<1>3. Prep!PreparedIsOn' /\ MidOnRecord' /\ OwnWhenJoined'
  BY DEF Prep!PreparedIsOn, Prep!Prepared, MidOnRecord, OwnWhenJoined
<1>4. OkHasData' /\ AllWereOk' /\ ResultCounts'
  BY DEF OkHasData, AllWereOk, Prep!Prepared, ResultCounts
<1>5. QED
  BY <1>1, <1>2, <1>3, <1>4

\* The next run begins as the first one did, on what the last one has left.
LEMMA RetryStep ==
  ASSUME PrepInv, Prep!Retry
  PROVE  PrepInv'
<1> USE DEF PrepInv, Prep!Retry, Prep!All, Prep!Job, Prep!Nodes
<1>0. MainTypes'
  BY BoundAssumption DEF MainTypes
<1>1. CloneTypes' /\ MidTypes' /\ NodeTypes' /\ VolumeTypes'
  BY DEF CloneTypes, MidTypes, NodeTypes, VolumeTypes
<1>2. CopiesOfRuns'
  <2>1. 0..attempt \subseteq 0..attempt'
    BY DEF MainTypes
  <2>2. QED
    BY <2>1 DEF CopiesOfRuns
<1>3. Prep!PreparedIsOn' /\ MidOnRecord' /\ OwnWhenJoined'
  BY DEF Prep!PreparedIsOn, Prep!Prepared, MidOnRecord, OwnWhenJoined
<1>4. OkHasData' /\ AllWereOk' /\ ResultCounts'
  BY DEF OkHasData, AllWereOk, Prep!Prepared, ResultCounts
<1>5. QED
  BY <1>0, <1>1, <1>2, <1>3, <1>4

\* The volumes are restored beside the rest.
LEMMA VolumesStep ==
  ASSUME PrepInv, Prep!CollectVgs \/ \E p \in PVs : Prep!RestoresVg(p)
  PROVE  PrepInv'
<1> USE DEF PrepInv, Prep!CollectVgs, Prep!Collects, Prep!RestoresVg, Prep!stageA,
            Prep!prepare, Prep!Job
<1>1. UNCHANGED <<attempt, main, Prep!stageA, Prep!prepare, late>>
  OBVIOUS
<1>2. MainTypes' /\ CloneTypes' /\ MidTypes' /\ NodeTypes'
  BY <1>1 DEF MainTypes, CloneTypes, MidTypes, NodeTypes
<1>3. VolumeTypes'
  BY DEF VolumeTypes
<1>4. ResultCounts'
  BY DEF ResultCounts, VolumeTypes
<1>5. CopiesOfRuns' /\ Prep!PreparedIsOn' /\ MidOnRecord' /\ OwnWhenJoined'
  BY <1>1 DEF CopiesOfRuns, Prep!PreparedIsOn, Prep!Prepared, MidOnRecord, OwnWhenJoined
<1>6. OkHasData' /\ AllWereOk'
  BY <1>1 DEF OkHasData, AllWereOk, Prep!Prepared
<1>7. QED
  BY <1>2, <1>3, <1>4, <1>5, <1>6

\* Stage A: the clones are on, and have their own machine-ids, before it is over.
LEMMA StageAStep ==
  ASSUME PrepInv,
         \/ \E n \in Prep!Nodes : Prep!PowersOn(n) \/ Prep!WritesMid(n)
         \/ Prep!JoinPower \/ Prep!JoinMid
  PROVE  PrepInv'
<1> USE DEF PrepInv, Prep!stageA, Prep!prepare, Prep!volumes, Prep!Job
<1>1. ASSUME NEW n \in Prep!Nodes, Prep!PowersOn(n) PROVE PrepInv'
  <2> USE <1>1 DEF Prep!PowersOn
  <2>1. CloneTypes' /\ Prep!PreparedIsOn'
    BY DEF CloneTypes, Prep!PreparedIsOn, Prep!Prepared
  <2>2. MainTypes' /\ MidTypes' /\ NodeTypes' /\ VolumeTypes'
    BY DEF MainTypes, MidTypes, NodeTypes, VolumeTypes
  <2>3. MidOnRecord' /\ OwnWhenJoined' /\ CopiesOfRuns'
    BY DEF MidOnRecord, OwnWhenJoined, CopiesOfRuns
  <2>4. OkHasData' /\ AllWereOk' /\ ResultCounts'
    BY DEF OkHasData, AllWereOk, Prep!Prepared, ResultCounts
  <2>5. QED
    BY <2>1, <2>2, <2>3, <2>4
<1>2. ASSUME NEW n \in Prep!Nodes, Prep!WritesMid(n) PROVE PrepInv'
  <2> USE <1>2 DEF Prep!WritesMid
  <2>1. MidTypes' /\ MidOnRecord' /\ OwnWhenJoined'
    BY DEF MidTypes, MidOnRecord, OwnWhenJoined
  <2>2. MainTypes' /\ CloneTypes' /\ NodeTypes' /\ VolumeTypes'
    BY DEF MainTypes, CloneTypes, NodeTypes, VolumeTypes
  <2>3. Prep!PreparedIsOn' /\ CopiesOfRuns'
    BY DEF Prep!PreparedIsOn, Prep!Prepared, CopiesOfRuns
  <2>4. OkHasData' /\ AllWereOk' /\ ResultCounts'
    BY DEF OkHasData, AllWereOk, Prep!Prepared, ResultCounts
  <2>5. QED
    BY <2>1, <2>2, <2>3, <2>4
<1>3. CASE Prep!JoinPower
  <2> USE <1>3 DEF Prep!JoinPower
  <2>1. MainTypes' /\ CloneTypes' /\ MidTypes' /\ NodeTypes' /\ VolumeTypes'
    BY DEF MainTypes, CloneTypes, MidTypes, NodeTypes, VolumeTypes
  <2>2. Prep!PreparedIsOn' /\ MidOnRecord' /\ OwnWhenJoined' /\ CopiesOfRuns'
    BY DEF Prep!PreparedIsOn, Prep!Prepared, MidOnRecord, OwnWhenJoined, CopiesOfRuns
  <2>3. OkHasData' /\ AllWereOk' /\ ResultCounts'
    BY DEF OkHasData, AllWereOk, Prep!Prepared, ResultCounts
  <2>4. QED
    BY <2>1, <2>2, <2>3
<1>4. CASE Prep!JoinMid
  <2> USE <1>4 DEF Prep!JoinMid
  <2>1. MainTypes' /\ CloneTypes' /\ NodeTypes' /\ VolumeTypes'
    BY DEF MainTypes, CloneTypes, NodeTypes, VolumeTypes
  <2>2. late' \in BOOLEAN
    BY DEF MidTypes
  <2>3. MidTypes'
    BY <2>2 DEF MidTypes
  <2>4. OwnWhenJoined'
    BY DEF OwnWhenJoined, MidOnRecord, MidTypes
  <2>5. Prep!PreparedIsOn' /\ MidOnRecord' /\ CopiesOfRuns'
    BY DEF Prep!PreparedIsOn, Prep!Prepared, MidOnRecord, CopiesOfRuns
  <2>6. OkHasData' /\ AllWereOk' /\ ResultCounts'
    BY DEF OkHasData, AllWereOk, Prep!Prepared, ResultCounts
  <2>7. QED
    BY <2>1, <2>3, <2>4, <2>5, <2>6
<1>5. QED
  BY <1>1, <1>2, <1>3, <1>4

\* The threads of the nodes, and the main thread around them: a control plane is ready
\* only with a copy that this run or an earlier one has made.
LEMMA NodesStep ==
  ASSUME PrepInv,
         \/ Prep!EndStageA \/ Prep!Fetch
         \/ \E n \in CPs : Prep!Copies(n) \/ Prep!Waits(n) \/ Prep!Ships(n)
         \/ \E n \in Prep!Nodes : Prep!Script(n)
  PROVE  PrepInv'
<1> USE DEF PrepInv, Prep!stageA, Prep!prepare, Prep!volumes, Prep!Job, Prep!All
<1>1. CASE Prep!EndStageA
  <2> USE <1>1 DEF Prep!EndStageA, Prep!Step
  <2>1. MainTypes' /\ CloneTypes' /\ MidTypes' /\ NodeTypes' /\ VolumeTypes'
    BY DEF MainTypes, CloneTypes, MidTypes, NodeTypes, VolumeTypes
  <2>2. Prep!PreparedIsOn' /\ MidOnRecord' /\ OwnWhenJoined' /\ CopiesOfRuns'
    BY DEF Prep!PreparedIsOn, Prep!Prepared, MidOnRecord, OwnWhenJoined, CopiesOfRuns
  <2>3. OkHasData' /\ AllWereOk' /\ ResultCounts'
    BY DEF OkHasData, AllWereOk, Prep!Prepared, ResultCounts, Prep!Nodes
  <2>4. QED
    BY <2>1, <2>2, <2>3
<1>2. CASE Prep!Fetch
  <2> USE <1>2 DEF Prep!Fetch
  <2>1. MainTypes' /\ CloneTypes' /\ MidTypes' /\ NodeTypes' /\ VolumeTypes'
    BY DEF MainTypes, CloneTypes, MidTypes, NodeTypes, VolumeTypes
  <2>2. CopiesOfRuns'
    BY DEF CopiesOfRuns, MainTypes
  <2>3. Prep!PreparedIsOn' /\ MidOnRecord' /\ OwnWhenJoined'
    BY DEF Prep!PreparedIsOn, Prep!Prepared, MidOnRecord, OwnWhenJoined
  <2>4. OkHasData' /\ AllWereOk' /\ ResultCounts'
    BY DEF OkHasData, AllWereOk, Prep!Prepared, ResultCounts
  <2>5. QED
    BY <2>1, <2>2, <2>3, <2>4
<1>3. ASSUME NEW n \in CPs, Prep!Copies(n) \/ Prep!Waits(n) \/ Prep!Ships(n) PROVE PrepInv'
  <2> USE <1>3 DEF Prep!Copies, Prep!Waits, Prep!Ships, Prep!Prep
  <2>0. n \in Prep!Nodes
    BY DEF Prep!Nodes
  <2>1. \E from \in {"copy", "wait", "ship"}, to \in {"wait", "dead", "ship", "script"} :
          prep[n] = from /\ prep' = [prep EXCEPT ![n] = to]
    OBVIOUS
  <2>2. UNCHANGED <<attempt, main, Prep!stageA, file, placed, fetch, data, Prep!volumes, late>>
    OBVIOUS
  <2>3. MainTypes' /\ CloneTypes' /\ MidTypes' /\ VolumeTypes'
    BY <2>2 DEF MainTypes, CloneTypes, MidTypes, VolumeTypes
  <2>4. NodeTypes'
    BY <2>1, <2>2 DEF NodeTypes
  <2>5. CopiesOfRuns'
    BY <2>2 DEF CopiesOfRuns
  <2>6. OkHasData' /\ AllWereOk'
    BY <2>0, <2>1, <2>2 DEF OkHasData, AllWereOk, Prep!Prepared, NodeTypes
  <2>7. Prep!PreparedIsOn' /\ MidOnRecord' /\ OwnWhenJoined' /\ ResultCounts'
    BY <2>2 DEF Prep!PreparedIsOn, Prep!Prepared, MidOnRecord, OwnWhenJoined, ResultCounts
  <2>8. QED
    BY <2>3, <2>4, <2>5, <2>6, <2>7
<1>4. ASSUME NEW n \in Prep!Nodes, Prep!Script(n) PROVE PrepInv'
  <2>1. /\ prep[n] = "script" /\ placed' = IF n = Seed THEN Prep!Never ELSE placed
        /\ \/ prep' = [prep EXCEPT ![n] = "failed"] /\ UNCHANGED data
           \/ /\ prep' = [prep EXCEPT ![n] = "ok"] /\ (n \in CPs => Prep!Copy(n) # Prep!Never)
              /\ data' = [c \in CPs |-> IF c = n THEN Prep!Copy(n) ELSE data[c]]
        /\ UNCHANGED <<attempt, main, Prep!stageA, file, fetch, shipped, Prep!volumes, late>>
    BY <1>4 DEF Prep!Script, Prep!Scripts, Prep!Prep
  <2>2. MainTypes' /\ CloneTypes' /\ MidTypes' /\ VolumeTypes'
    BY <2>1 DEF MainTypes, CloneTypes, MidTypes, VolumeTypes
  <2>3. NodeTypes'
    BY <2>1 DEF NodeTypes
  <2>4. CopiesOfRuns'
    <3>1. Prep!Copy(n) \in 0..attempt /\ Prep!Never \in 0..attempt
      BY DEF CopiesOfRuns, MainTypes, Prep!Copy, Prep!Never
    <3>2. QED
      BY <2>1, <3>1 DEF CopiesOfRuns
  <2>5. OkHasData' /\ AllWereOk'
    BY <2>1 DEF OkHasData, AllWereOk, Prep!Prepared, NodeTypes, CopiesOfRuns, Prep!Nodes
  <2>6. Prep!PreparedIsOn' /\ MidOnRecord' /\ OwnWhenJoined' /\ ResultCounts'
    BY <2>1 DEF Prep!PreparedIsOn, Prep!Prepared, MidOnRecord, OwnWhenJoined, ResultCounts
  <2>7. QED
    BY <2>2, <2>3, <2>4, <2>5, <2>6
<1>5. QED
  BY <1>1, <1>2, <1>3, <1>4

\* The main thread goes on when every node has succeeded and the volumes are there.
LEMMA MainStep ==
  ASSUME PrepInv, Prep!JoinPrep \/ Prep!Replaces \/ Prep!GivesUp
  PROVE  PrepInv'
<1> USE DEF PrepInv, Prep!JoinPrep, Prep!Replaces, Prep!GivesUp, Prep!Step, Prep!Quits,
            Prep!stageA, Prep!prepare, Prep!volumes
<1>1. MainTypes' /\ CloneTypes' /\ MidTypes' /\ NodeTypes' /\ VolumeTypes'
  BY DEF MainTypes, CloneTypes, MidTypes, NodeTypes, VolumeTypes
<1>2. Prep!PreparedIsOn' /\ MidOnRecord' /\ OwnWhenJoined' /\ CopiesOfRuns'
  BY DEF Prep!PreparedIsOn, Prep!Prepared, MidOnRecord, OwnWhenJoined, CopiesOfRuns
<1>3. OkHasData' /\ AllWereOk' /\ ResultCounts'
  BY DEF OkHasData, AllWereOk, Prep!Prepared, ResultCounts
<1>4. QED
  BY <1>1, <1>2, <1>3

LEMMA PrepStep ==
  ASSUME PrepInv, Prep!Next
  PROVE  PrepInv'
BY EndOfRun, RetryStep, VolumesStep, StageAStep, NodesStep, MainStep DEF Prep!Next, Prep!Killed

-----------------------------------------------------------------------------
(* The bypass keeps its invariant.                                          *)

LEMMA BypassInit == Bypass!Init /\ again = FALSE => BypassInv
<1> SUFFICES ASSUME Bypass!Init, again = FALSE PROVE BypassInv
  OBVIOUS
<1> USE DEF Bypass!Init
<1>1. 1 \in Bypass!Tries
  BY BoundAssumption DEF Bypass!Tries
<1>2. Bypass!Bypassed = {}
  BY DEF Bypass!Bypassed
<1>3. Bypass!TypeOK /\ LostHasBegun
  BY DEF Bypass!TypeOK, Bypass!Modes, Bypass!Aborted, LostHasBegun
<1>4. OneTry /\ ScriptKnows /\ RestoreKnows
  BY <1>1, <1>2 DEF OneTry, ScriptKnows, RestoreKnows
<1>5. QED
  BY <1>3, <1>4 DEF BypassInv

\* Whatever is set to a mode keeps the types; the bypassed ones are those set to None, or
\* those that were and are not set to Webhook.
LEMMA SetModes ==
  ASSUME crd \in [Crds -> Bypass!Modes], NEW cs
  PROVE  /\ Bypass!Set(cs, "None") =>
              crd' \in [Crds -> Bypass!Modes] /\ Bypass!Bypassed' \subseteq Bypass!Bypassed \cup cs
         /\ Bypass!Set(cs, "Webhook") =>
              crd' \in [Crds -> Bypass!Modes] /\ Bypass!Bypassed' \subseteq Bypass!Bypassed \ cs
BY DEF Bypass!Set, Bypass!Modes, Bypass!Bypassed

\* The types of the bypass.
LEMMA BypassTypes ==
  ASSUME Bypass!TypeOK, Bypass!Next
  PROVE  Bypass!TypeOK'
<1> USE DEF Bypass!TypeOK
<1>1. ASSUME NEW i \in Bypass!Tries, Bypass!Try(i) \/ Bypass!ListFails(i) \/ Bypass!List(i)
      PROVE  Bypass!TypeOK'
  <2>1. CASE Bypass!Try(i)
    <3>1. lost' \in BOOLEAN
      BY <2>1 DEF Bypass!Try
    <3>2. QED
      BY <2>1, <3>1 DEF Bypass!Try
  <2>2. CASE Bypass!ListFails(i) \/ Bypass!List(i)
    BY <2>2 DEF Bypass!ListFails, Bypass!List
  <2>3. QED
    BY <1>1, <2>1, <2>2
<1>2. ASSUME NEW i \in Bypass!Tries, Bypass!Patch(i) PROVE Bypass!TypeOK'
  <2>1. crd' \in [Crds -> Bypass!Modes]
    BY <1>2, SetModes DEF Bypass!Patch
  <2>2. QED
    BY <1>2, <2>1 DEF Bypass!Patch
<1>3. ASSUME NEW i \in Bypass!Tries, Bypass!Save(i) \/ Bypass!Returns(i)
      PROVE  Bypass!TypeOK'
  BY <1>3 DEF Bypass!Save, Bypass!Returns
<1>4. CASE Bypass!GivesUp \/ Bypass!StartRestore \/ Bypass!EndsEarly \/ Bypass!Boot
  BY <1>4 DEF Bypass!GivesUp, Bypass!StartRestore, Bypass!EndsEarly, Bypass!Boot, Bypass!Aborted
<1>5. CASE Bypass!BypassLaptop
  <2>1. crd' \in [Crds -> Bypass!Modes] /\ local' \subseteq Crds
    BY <1>5, SetModes DEF Bypass!BypassLaptop
  <2>2. QED
    BY <1>5, <2>1 DEF Bypass!BypassLaptop
<1>6. CASE Bypass!BypassDies \/ Bypass!RestoreDies
  <2>1. crd' \in [Crds -> Bypass!Modes]
    BY <1>6, SetModes DEF Bypass!BypassDies, Bypass!RestoreDies
  <2>2. QED
    BY <1>6, <2>1 DEF Bypass!BypassDies, Bypass!RestoreDies, Bypass!Aborted
<1>7. CASE Bypass!Restores
  <2>1. crd' \in [Crds -> Bypass!Modes] /\ warned' \in BOOLEAN
    BY <1>7, SetModes DEF Bypass!Restores
  <2>2. QED
    BY <1>7, <2>1 DEF Bypass!Restores
<1>8. CASE Bypass!JoinRestore
  <2>1. warned' \in BOOLEAN
    BY <1>8 DEF Bypass!JoinRestore
  <2>2. QED
    BY <1>8, <2>1 DEF Bypass!JoinRestore
<1>9. QED
  BY <1>1, <1>2, <1>3, <1>4, <1>5, <1>6, <1>7, <1>8 DEF Bypass!Next, Bypass!Script

\* A connection that was lost stays lost, and only to a script that has begun.
LEMMA LostStays ==
  ASSUME BypassInv, Bypass!Next
  PROVE  LostHasBegun' /\ (lost => lost')
<1> USE DEF BypassInv, LostHasBegun
<1>0. 1 \in Bypass!Tries /\ \A i \in Bypass!Tries : i # 1 => i > 1 /\ 1 < i
  BY BoundAssumption DEF Bypass!Tries
<1>1. ASSUME NEW i \in Bypass!Tries, Bypass!Try(i) PROVE LostHasBegun' /\ (lost => lost')
  BY <1>0, <1>1 DEF Bypass!Try, Bypass!TypeOK
<1>2. ASSUME NEW i \in Bypass!Tries, Bypass!Script(i) \/ Bypass!Returns(i)
      PROVE  LostHasBegun' /\ (lost => lost')
  BY <1>0, <1>2 DEF Bypass!Script, Bypass!ListFails, Bypass!List, Bypass!Patch, Bypass!Save,
     Bypass!Returns, Bypass!TypeOK
<1>3. CASE Bypass!GivesUp
  BY <1>0, <1>3 DEF Bypass!GivesUp
<1>4. CASE Bypass!BypassLaptop \/ Bypass!StartRestore \/ Bypass!EndsEarly \/ Bypass!Restores
           \/ Bypass!JoinRestore \/ Bypass!Boot \/ Bypass!BypassDies \/ Bypass!RestoreDies
  BY <1>4 DEF Bypass!BypassLaptop, Bypass!StartRestore, Bypass!EndsEarly, Bypass!Restores,
     Bypass!JoinRestore, Bypass!Boot, Bypass!BypassDies, Bypass!RestoreDies
<1>5. QED
  BY <1>1, <1>2, <1>3, <1>4 DEF Bypass!Next

\* The script on the seed, and the step after it.  As long as no connection is lost, the
\* script that works is the first, and the main thread waits for it.
LEMMA ScriptStep ==
  ASSUME Bypass!TypeOK, OneTry, ScriptKnows, RestoreKnows, ~lost', lost => lost',
         NEW i \in Bypass!Tries, Bypass!Try(i) \/ Bypass!Script(i) \/ Bypass!Returns(i)
  PROVE  OneTry' /\ ScriptKnows' /\ RestoreKnows'
<1> USE DEF OneTry, ScriptKnows
<1>0. 1 \in Bypass!Tries /\ \A j \in Bypass!Tries : j # 1 => j > 1 /\ 1 < j
  BY BoundAssumption DEF Bypass!Tries
<1>1. i = 1
  BY <1>0 DEF Bypass!Try, Bypass!Script, Bypass!ListFails, Bypass!List, Bypass!Patch,
     Bypass!Save, Bypass!Returns, Bypass!IsLast
<1>2. bypass = "bypass"
  BY <1>1 DEF Bypass!Try, Bypass!Script, Bypass!ListFails, Bypass!List, Bypass!Patch,
     Bypass!Save, Bypass!Returns
<1>3. seedScript' = [seedScript EXCEPT ![1] = seedScript'[1]]
  BY <1>0, <1>1 DEF Bypass!Try, Bypass!Script, Bypass!ListFails, Bypass!List, Bypass!Patch,
     Bypass!Save, Bypass!Returns, Bypass!TypeOK
<1>4. CASE Bypass!Try(i) \/ Bypass!ListFails(i) \/ Bypass!List(i)
  <2>1. /\ UNCHANGED <<bypass, crd, onseed, restore, warned, saved, local>>
        /\ seedScript[1] \in {"off", "begun"}
        /\ seedScript'[1] \in {"begun", "listed", "bad"}
    BY <1>0, <1>1, <1>4 DEF Bypass!Try, Bypass!ListFails, Bypass!List, Bypass!TypeOK
  <2>2. Bypass!Bypassed' = Bypass!Bypassed
    BY <2>1 DEF Bypass!Bypassed
  <2>3. QED
    BY <1>0, <1>2, <1>3, <2>1, <2>2 DEF RestoreKnows, Mine, Bypass!TypeOK
<1>5. CASE Bypass!Patch(i)
  <2>1. PICK done \in SUBSET listed[1] : Bypass!Set(done, "None")
    BY <1>1, <1>5 DEF Bypass!Patch
  <2>2. Bypass!Bypassed' \subseteq Bypass!Bypassed \cup done
    BY <2>1, SetModes DEF Bypass!TypeOK
  <2>3. Bypass!Bypassed = {} /\ seedScript'[1] = "patched"
    BY <1>0, <1>1, <1>2, <1>5 DEF Bypass!Patch, Bypass!TypeOK
  <2>4. UNCHANGED <<bypass, listed, onseed, restore, warned, saved, local>>
    BY <1>5 DEF Bypass!Patch
  <2>5. QED
    BY <1>0, <1>2, <1>3, <2>1, <2>2, <2>3, <2>4 DEF RestoreKnows, Mine, Bypass!TypeOK
<1>6. CASE Bypass!Save(i)
  <2>1. /\ UNCHANGED <<bypass, crd, onseed, restore, warned, local>> /\ saved' = listed[1]
        /\ seedScript[1] = "patched" /\ seedScript'[1] = "ok"
    BY <1>0, <1>1, <1>6 DEF Bypass!Save, Bypass!TypeOK
  <2>2. Bypass!Bypassed' = Bypass!Bypassed
    BY <2>1 DEF Bypass!Bypassed
  <2>3. QED
    BY <1>0, <1>2, <1>3, <2>1, <2>2 DEF RestoreKnows, Mine, Bypass!TypeOK
<1>7. CASE Bypass!Returns(i)
  <2>1. /\ UNCHANGED <<crd, seedScript, restore, warned, saved, local>>
        /\ seedScript[1] \in {"ok", "bad"} /\ onseed' = (seedScript[1] = "ok")
        /\ bypass' = IF seedScript[1] = "ok" THEN "window" ELSE "laptop"
    BY <1>1, <1>7 DEF Bypass!Returns
  <2>2. Bypass!Bypassed' = Bypass!Bypassed
    BY <2>1 DEF Bypass!Bypassed
  <2>3. QED
    BY <1>2, <2>1, <2>2 DEF RestoreKnows, Mine
<1>8. QED
  BY <1>4, <1>5, <1>6, <1>7 DEF Bypass!Script

\* The laptop's bypass, the restore and the join of its thread: what is bypassed is put
\* back, or warned about.
LEMMA RestoreStep ==
  ASSUME Bypass!TypeOK, OneTry, ScriptKnows, RestoreKnows, ~lost',
         \/ Bypass!GivesUp \/ Bypass!BypassLaptop \/ Bypass!StartRestore \/ Bypass!EndsEarly
         \/ Bypass!Restores \/ Bypass!JoinRestore \/ Bypass!Boot
         \/ Bypass!BypassDies \/ Bypass!RestoreDies
  PROVE  OneTry' /\ ScriptKnows' /\ RestoreKnows'
<1> USE DEF OneTry, ScriptKnows, RestoreKnows, Mine
<1>1. ~Bypass!GivesUp
  BY DEF Bypass!GivesUp
<1>2. CASE Bypass!BypassLaptop
  <2> USE <1>2 DEF Bypass!BypassLaptop
  <2>1. Bypass!Bypassed' \subseteq local'
    <3>1. CASE UNCHANGED <<local, crd>>
      BY <3>1 DEF Bypass!Bypassed
    <3>2. CASE local' = Crds \ Bypass!Bypassed
      <4>1. local' = Crds
        BY <3>2
      <4>2. QED
        BY <4>1 DEF Bypass!Bypassed
    <3>3. QED
      BY <3>1, <3>2
  <2>2. QED
    BY <2>1
<1>3. CASE Bypass!StartRestore \/ Bypass!EndsEarly
  <2>1. Bypass!Bypassed' = Bypass!Bypassed
    BY <1>3 DEF Bypass!StartRestore, Bypass!EndsEarly, Bypass!Bypassed
  <2>2. QED
    BY <1>3, <2>1 DEF Bypass!StartRestore, Bypass!EndsEarly
<1>4. CASE Bypass!Restores
  <2>1. PICK left \in SUBSET Mine :
          Bypass!Set(Mine \ left, "Webhook") /\ warned' = (warned \/ left # {})
    BY <1>4 DEF Bypass!Restores
  <2>2. Bypass!Bypassed' \subseteq Bypass!Bypassed \ (Mine \ left)
    BY <2>1, SetModes DEF Bypass!TypeOK
  <2>3. bypass \notin {"bypass", "laptop", "crashed"} /\ Bypass!Bypassed \subseteq Mine
    BY <1>4 DEF Bypass!Restores
  <2>4. Bypass!Bypassed' = {} \/ warned'
    BY <2>1, <2>2, <2>3
  <2>5. QED
    BY <1>4, <2>3, <2>4 DEF Bypass!Restores
<1>5. CASE Bypass!JoinRestore \/ Bypass!Boot
  <2>1. Bypass!Bypassed' = Bypass!Bypassed
    BY <1>5 DEF Bypass!JoinRestore, Bypass!Boot, Bypass!Bypassed
  <2>2. CASE Bypass!JoinRestore
    <3>1. restore \in {"ended", "died"} \/ warned'
      BY <2>2 DEF Bypass!JoinRestore, Bypass!TypeOK
    <3>2. warned => warned'
      BY <2>2 DEF Bypass!JoinRestore
    <3>3. bypass = "joinRestore" /\ bypass' = "boot"
      BY <2>2 DEF Bypass!JoinRestore
    <3>4. UNCHANGED <<seedScript, listed, saved, local, onseed, restore>>
      BY <2>2 DEF Bypass!JoinRestore
    <3>5. QED
      BY <2>1, <3>1, <3>2, <3>3, <3>4
  <2>3. CASE Bypass!Boot
    BY <2>1, <2>3 DEF Bypass!Boot
  <2>4. QED
    BY <1>5, <2>2, <2>3
<1>6. CASE Bypass!BypassDies
  BY <1>6 DEF Bypass!BypassDies
<1>7. CASE Bypass!RestoreDies
  <2>1. bypass \notin {"bypass", "laptop", "window", "crashed"}
    BY <1>7 DEF Bypass!RestoreDies
  <2>2. seedScript[1] = "bad"
    <3>1. 1 \in Bypass!Tries /\ \A i \in Bypass!Tries : i # 1 => i > 1
      BY BoundAssumption DEF Bypass!Tries
    <3>2. seedScript[1] # "off"
      BY <1>7, <3>1 DEF Bypass!RestoreDies, Bypass!OverSsh
    <3>3. seedScript[1] \in {"off", "ok", "bad"} /\ seedScript[1] # "ok"
      BY <1>7, <2>1 DEF Bypass!RestoreDies
    <3>4. QED
      BY <3>2, <3>3
  <2>3. QED
    BY <1>7, <2>1, <2>2 DEF Bypass!RestoreDies
<1>8. QED
  BY <1>1, <1>2, <1>3, <1>4, <1>5, <1>6, <1>7

LEMMA BypassStep ==
  ASSUME BypassInv, Bypass!Next, again' = again
  PROVE  BypassInv'
<1>1. Bypass!TypeOK' /\ LostHasBegun' /\ (lost => lost')
  BY BypassTypes, LostStays DEF BypassInv
<1>2. ASSUME ~again, ~lost'
      PROVE  OneTry' /\ ScriptKnows' /\ RestoreKnows'
  <2>1. Bypass!TypeOK /\ OneTry /\ ScriptKnows /\ RestoreKnows
    BY <1>1, <1>2 DEF BypassInv
  <2>2. QED
    BY <1>1, <1>2, <2>1, ScriptStep, RestoreStep DEF Bypass!Next
<1>3. QED
  BY <1>1, <1>2 DEF BypassInv

-----------------------------------------------------------------------------
(* The settling keeps its invariant.                                        *)

FluxTypes == suspended \subseteq Settle!Objects /\ unsure \subseteq Settle!Objects
RepoTypes ==
  /\ repo \in Settle!Contents /\ {artifact, applied} \subseteq {"whole", "half"}
  /\ script \in {"off", "begun", "wiped"}
PodTypes ==
  /\ sts \in [up : BOOLEAN, pinned : BOOLEAN, begun : BOOLEAN]
  /\ pod \in Settle!Nodes \cup {"never", "none"}
  /\ serving \in BOOLEAN
StorageType ==
  storage \in [at : {"suspend", "select", "scale", "place", "resume", "bounce", "delete", "ended"},
               node : BOOLEAN]
GatesType ==
  gates \in [try : 1..2, at : {"pods", "kusts", "capi", "passed", "failed"},
             held : Settle!Objects \cup {"none"}]
RestTypes ==
  /\ post \in {"verify", "mount", "source", "platform", "build", "resume", "resumeAll", "ended"}
  /\ odd \subseteq {"refused", "loose", "overtaken", "cut"}

LEMMA SettleTypes ==
  Settle!TypeOK <=> FluxTypes /\ RepoTypes /\ PodTypes /\ StorageType /\ GatesType /\ RestTypes
BY DEF Settle!TypeOK, FluxTypes, RepoTypes, PodTypes, StorageType, GatesType, RestTypes

LEMMA SettleInit == Settle!Init => SettleInv
<1> SUFFICES ASSUME Settle!Init PROVE SettleInv
  OBVIOUS
<1> USE PinningAssumption DEF Settle!Init
<1>1. FluxTypes /\ RepoTypes /\ PodTypes /\ StorageType /\ RestTypes
  BY DEF FluxTypes, RepoTypes, PodTypes, StorageType, RestTypes, Settle!Contents
<1>2. GatesType
  BY DEF GatesType
<1>3. BuiltBehindSource /\ OwedResume /\ PinnedFirst
  BY DEF BuiltBehindSource, OwedResume, PinnedFirst
<1>4. QED
  BY <1>1, <1>2, <1>3, SettleTypes DEF SettleInv

\* What a step of the storage part, and of gates.py, makes of where they are.
LEMMA StorageTypeStep ==
  ASSUME StorageType, Settle!Storage
  PROVE  StorageType'
<1> USE DEF StorageType
<1>1. CASE Settle!Suspend \/ Settle!Select \/ Settle!Resume
  BY <1>1 DEF Settle!Suspend, Settle!Select, Settle!Resume
<1>2. CASE Settle!Scale \/ Settle!Bounce
  <2>1. PICK at \in {"place", "bounce", "delete", "ended"} :
          storage' = [storage EXCEPT !.at = at]
    BY <1>2 DEF Settle!Scale, Settle!Bounce
  <2>2. QED
    BY <2>1
<1>3. CASE Settle!Placed
  <2>1. PICK node \in BOOLEAN : storage' = [at |-> "resume", node |-> node]
    BY <1>3 DEF Settle!Placed
  <2>2. QED
    BY <2>1
<1>4. QED
  BY <1>1, <1>2, <1>3 DEF Settle!Storage

LEMMA GatesTypeStep ==
  ASSUME GatesType, Settle!Gates
  PROVE  GatesType'
<1> USE DEF GatesType
<1>1. ASSUME NEW o \in Settle!Objects, Settle!Heal(o) PROVE GatesType'
  BY <1>1 DEF Settle!Heal
<1>2. CASE Settle!Healed
  BY <1>2 DEF Settle!Healed
<1>3. CASE Settle!GateEnds
  <2>1. PICK at \in {"kusts", "capi", "passed", "failed"} : gates' = [gates EXCEPT !.at = at]
    BY <1>3 DEF Settle!GateEnds
  <2>2. QED
    BY <2>1
<1>4. CASE Settle!Killed
  BY <1>4 DEF Settle!Killed
<1>5. CASE Settle!Again
  BY <1>5 DEF Settle!Again
<1>6. QED
  BY <1>1, <1>2, <1>3, <1>4, <1>5 DEF Settle!Gates

\* The types of the settling.
LEMMA SettleTypeStep ==
  ASSUME Settle!TypeOK, gates.held # "source", Settle!Next
  PROVE  Settle!TypeOK'
<1>0. FluxTypes /\ RepoTypes /\ PodTypes /\ StorageType /\ GatesType /\ RestTypes
  BY SettleTypes
<1>4. StorageType'
  BY <1>0, StorageTypeStep DEF StorageType, Settle!Next, Settle!Post, Settle!Gates,
     Settle!Verify, Settle!Mounted, Settle!SuspendSource, Settle!SuspendPlatform,
     Settle!Rebuilt, Settle!ResumeFlux, Settle!Wipe, Settle!Fill, Settle!Heal, Settle!Healed,
     Settle!GateEnds, Settle!Killed, Settle!Again, Settle!Fetch, Settle!Apply,
     Settle!Begins, Settle!Reverts, Settle!Place, Settle!Mounts
<1>5. GatesType'
  BY <1>0, GatesTypeStep DEF GatesType, Settle!Next, Settle!Storage, Settle!Post,
     Settle!Suspend, Settle!Select, Settle!Scale, Settle!Placed, Settle!Resume, Settle!Bounce,
     Settle!Verify, Settle!Mounted, Settle!SuspendSource, Settle!SuspendPlatform,
     Settle!Rebuilt, Settle!ResumeFlux, Settle!Wipe, Settle!Fill, Settle!Fetch, Settle!Apply,
     Settle!Begins, Settle!Reverts, Settle!Place, Settle!Mounts
<1> USE DEF Settle!Next, Settle!Storage, Settle!Post, Settle!Gates, Settle!Suspend, Settle!Select,
            Settle!Scale, Settle!Placed, Settle!Resume, Settle!Bounce, Settle!Verify,
            Settle!Mounted, Settle!SuspendSource, Settle!SuspendPlatform, Settle!Rebuilt,
            Settle!ResumeFlux, Settle!Wipe, Settle!Fill, Settle!Heal, Settle!Healed,
            Settle!GateEnds, Settle!Killed, Settle!Again, Settle!Fetch, Settle!Apply,
            Settle!Begins, Settle!Reverts, Settle!Place, Settle!Mounts, Settle!flux,
            Settle!git, Settle!gitpod
<1>1. FluxTypes'
  BY <1>0 DEF FluxTypes, Settle!Suspended, Settle!Resumes, Settle!Objects, GatesType
<1>2. RepoTypes'
  BY <1>0 DEF RepoTypes, Settle!Contents, Settle!PodGone
<1>3. PodTypes'
  BY <1>0 DEF PodTypes, Settle!Nodes, Settle!PodGone
<1>6. RestTypes'
  BY <1>0 DEF RestTypes
<1> HIDE DEF Settle!Next
<1>7. QED
  BY <1>1, <1>2, <1>3, <1>4, <1>5, <1>6
     DEF Settle!TypeOK, FluxTypes, RepoTypes, PodTypes, StorageType, GatesType, RestTypes

\* The patches: whoever resumes an object leaves it resumed or on record.
LEMMA Patches ==
  ASSUME NEW o
  PROVE  /\ Settle!Suspended(o) =>
              o \in suspended' /\ suspended' \ unsure' \subseteq (suspended \ unsure) \cup {o}
              /\ suspended \subseteq suspended'
         /\ Settle!Resumes(o) =>
              /\ suspended' \ unsure' \subseteq (suspended \ unsure) \ {o}
              /\ suspended \ {o} \subseteq suspended'
BY DEF Settle!Suspended, Settle!Resumes

\* Flux, the pod, and the programs beside git_hydrate keep what it has built hidden.
LEMMA BuiltStep ==
  ASSUME SettleInv, Settle!Next
  PROVE  BuiltBehindSource'
<1> SUFFICES ASSUME odd' \cap {"refused", "cut"} = {}
             PROVE  /\ artifact' = "whole" /\ applied' = "whole"
                    /\ post' \in {"platform", "build"} => "source" \in suspended'
                    /\ script' # "off" \/ repo' = "half" => post' = "build"
  BY DEF BuiltBehindSource
<1>1. odd \subseteq odd'
  BY DEF Settle!Next, Settle!Storage, Settle!Post, Settle!Gates, Settle!Suspend, Settle!Select,
         Settle!Scale, Settle!Placed, Settle!Resume, Settle!Bounce, Settle!Verify,
         Settle!Mounted, Settle!SuspendSource, Settle!SuspendPlatform, Settle!Rebuilt,
         Settle!ResumeFlux, Settle!Wipe, Settle!Fill, Settle!Heal, Settle!Healed,
         Settle!GateEnds, Settle!Killed, Settle!Again, Settle!Fetch, Settle!Apply,
     Settle!Begins, Settle!Reverts, Settle!Place, Settle!Mounts
<1>2. /\ artifact = "whole" /\ applied = "whole"
      /\ post \in {"platform", "build"} => "source" \in suspended
      /\ script # "off" \/ repo = "half" => post = "build"
  BY <1>1 DEF SettleInv, BuiltBehindSource
<1> USE DEF Settle!flux, Settle!git, Settle!gitpod
<1>3. CASE Settle!Fetch \/ Settle!Apply \/ Settle!Begins \/ Settle!Reverts
           \/ Settle!Place \/ Settle!Mounts
  BY <1>2, <1>3 DEF Settle!Fetch, Settle!Apply, Settle!Begins, Settle!Reverts, Settle!Place,
     Settle!Mounts, Settle!PodGone
<1>4. CASE Settle!Storage
  <2>1. UNCHANGED <<repo, artifact, applied, post>> /\ (script' = script \/ script' = "off")
    BY <1>4 DEF Settle!Storage, Settle!Suspend, Settle!Select, Settle!Scale, Settle!Placed,
       Settle!Resume, Settle!Bounce, Settle!PodGone
  <2>2. "source" \in suspended => "source" \in suspended'
    BY <1>4, Patches DEF Settle!Storage, Settle!Suspend, Settle!Select, Settle!Scale,
       Settle!Placed, Settle!Resume, Settle!Bounce
  <2>3. QED
    BY <1>2, <2>1, <2>2
<1>5. CASE Settle!Gates
  <2>1. UNCHANGED <<repo, artifact, applied, post, script>>
    BY <1>5 DEF Settle!Gates, Settle!Heal, Settle!Healed, Settle!GateEnds, Settle!Killed,
       Settle!Again
  <2>2. "source" \in suspended => "source" \in suspended'
    BY <1>5, Patches DEF Settle!Gates, Settle!Heal, Settle!Healed, Settle!GateEnds,
       Settle!Killed, Settle!Again, SettleInv, OwedResume
  <2>3. QED
    BY <1>2, <2>1, <2>2
<1>6. CASE Settle!Wipe \/ Settle!Fill
  BY <1>2, <1>6 DEF Settle!Wipe, Settle!Fill
<1>7. CASE Settle!SuspendSource
  BY <1>2, <1>7, Patches DEF Settle!SuspendSource
<1>8. CASE Settle!SuspendPlatform
  BY <1>2, <1>8, Patches DEF Settle!SuspendPlatform
<1>9. CASE Settle!Verify \/ Settle!Mounted \/ Settle!Rebuilt \/ Settle!ResumeFlux
  BY <1>2, <1>9 DEF Settle!Verify, Settle!Mounted, Settle!Rebuilt, Settle!ResumeFlux
<1>10. QED
  BY <1>3, <1>4, <1>5, <1>6, <1>7, <1>8, <1>9 DEF Settle!Next, Settle!Post

\* Every resume that is owed stays with a program that has not ended.
LEMMA OwedStep ==
  ASSUME SettleInv, Settle!Next
  PROVE  OwedResume'
<1> USE DEF SettleInv, OwedResume, Settle!flux, Settle!git, Settle!gitpod
<1>1. CASE Settle!Fetch \/ Settle!Apply \/ Settle!Begins \/ Settle!Reverts
           \/ Settle!Place \/ Settle!Mounts
           \/ Settle!Wipe \/ Settle!Fill
  BY <1>1 DEF Settle!Fetch, Settle!Apply, Settle!Begins, Settle!Reverts, Settle!Place,
     Settle!Mounts,
     Settle!Wipe, Settle!Fill
<1>2. CASE Settle!Storage
  <2>1. StorageType
    BY SettleTypes
  <2>2. UNCHANGED <<post, gates>>
    BY <1>2 DEF Settle!Storage, Settle!Suspend, Settle!Select, Settle!Scale, Settle!Placed,
       Settle!Resume, Settle!Bounce
  <2>3. CASE Settle!Suspend
    <3>1. storage.at = "suspend" /\ storage'.at = "select"
      BY <2>1, <2>3 DEF Settle!Suspend, StorageType
    <3>2. suspended' \ unsure' \subseteq (suspended \ unsure) \cup {"gitop"}
      BY <2>3, Patches DEF Settle!Suspend
    <3>3. QED
      BY <2>2, <3>1, <3>2
  <2>4. CASE Settle!Resume
    <3>1. storage'.at = "bounce"
      BY <2>1, <2>4 DEF Settle!Resume, StorageType
    <3>2. suspended' \ unsure' \subseteq (suspended \ unsure) \ {"gitop"}
      BY <2>4, Patches DEF Settle!Resume
    <3>3. QED
      BY <2>2, <3>1, <3>2
  <2>5. CASE Settle!Select \/ Settle!Scale \/ Settle!Placed \/ Settle!Bounce
    <3>1. UNCHANGED <<suspended, unsure>>
      BY <2>5 DEF Settle!Select, Settle!Scale, Settle!Placed, Settle!Bounce
    <3>2. \/ storage.at = "select" /\ storage'.at = "scale"
          \/ storage.at = "scale" /\ Pinning /\ storage'.at = "place"
          \/ storage.at = "scale" /\ ~Pinning /\ storage'.at = "bounce"
          \/ storage.at = "place" /\ storage'.at = "resume"
          \/ storage.at \in {"bounce", "delete"} /\ storage'.at \in {"delete", "ended"}
      BY <2>1, <2>5 DEF Settle!Select, Settle!Scale, Settle!Placed, Settle!Bounce, StorageType
    <3>3. QED
      BY <2>2, <3>1, <3>2
  <2>6. QED
    BY <1>2, <2>3, <2>4, <2>5 DEF Settle!Storage
<1>3. CASE Settle!Post
  <2>1. UNCHANGED <<storage, gates>>
    BY <1>3 DEF Settle!Post, Settle!Verify, Settle!Mounted, Settle!SuspendSource,
       Settle!SuspendPlatform, Settle!Rebuilt, Settle!ResumeFlux
  <2>2. CASE Settle!Verify \/ Settle!Mounted \/ Settle!Rebuilt
    BY <2>1, <2>2 DEF Settle!Verify, Settle!Mounted, Settle!Rebuilt
  <2>3. CASE Settle!SuspendSource
    BY <2>1, <2>3, Patches DEF Settle!SuspendSource
  <2>4. CASE Settle!SuspendPlatform
    BY <2>1, <2>4, Patches DEF Settle!SuspendPlatform
  <2>5. CASE Settle!ResumeFlux
    BY <2>1, <2>5, Patches DEF Settle!ResumeFlux
  <2>6. QED
    BY <1>3, <2>2, <2>3, <2>4, <2>5 DEF Settle!Post
<1>4. CASE Settle!Gates
  <2>1. UNCHANGED <<post, storage>> /\ GatesType
    BY <1>4, SettleTypes DEF Settle!Gates, Settle!Heal, Settle!Healed, Settle!GateEnds,
       Settle!Killed, Settle!Again
  <2>2. ASSUME NEW o \in Settle!Objects, Settle!Heal(o) PROVE OwedResume'
    <3>1. o # "source" /\ gates.at = "kusts" /\ gates.held = "none"
          /\ gates'.held = o /\ gates'.at = "kusts"
      BY <2>1, <2>2 DEF Settle!Heal, GatesType
    <3>2. suspended' \ unsure' \subseteq (suspended \ unsure) \cup {o}
      BY <2>2, Patches DEF Settle!Heal
    <3>3. QED
      BY <2>1, <3>1, <3>2 DEF Settle!Objects
  <2>3. CASE Settle!Healed
    <3>1. gates'.held = "none"
      BY <2>1, <2>3 DEF Settle!Healed, GatesType
    <3>2. suspended' \ unsure' \subseteq (suspended \ unsure) \ {gates.held}
      BY <2>3, Patches DEF Settle!Healed
    <3>3. QED
      BY <2>1, <3>1, <3>2
  <2>4. CASE Settle!GateEnds
    <3>1. gates.held = "none" /\ gates'.held = "none" /\ UNCHANGED <<suspended, unsure>>
      BY <2>1, <2>4 DEF Settle!GateEnds, GatesType
    <3>2. QED
      BY <2>1, <3>1
  <2>5. CASE Settle!Killed
    <3>1. gates'.held = "none"
          /\ suspended' \ unsure' \subseteq (suspended \ unsure) \ {gates.held}
      BY <2>1, <2>5 DEF Settle!Killed, GatesType
    <3>2. QED
      BY <2>1, <3>1
  <2>6. CASE Settle!Again
    <3>1. gates.held = "none" /\ gates'.held = "none" /\ UNCHANGED <<suspended, unsure>>
      BY <2>1, <2>6 DEF Settle!Again, GatesType
    <3>2. QED
      BY <2>1, <3>1
  <2>7. QED
    BY <1>4, <2>2, <2>3, <2>4, <2>5, <2>6 DEF Settle!Gates
<1>5. QED
  BY <1>1, <1>2, <1>3, <1>4 DEF Settle!Next

\* The pin holds: flux is held off from before the nodeSelector to after the placement.
LEMMA PinStep ==
  ASSUME SettleInv, Settle!Next
  PROVE  PinnedFirst'
<1> SUFFICES ASSUME Pinning, odd' \cap {"loose", "overtaken"} = {}
             PROVE  /\ storage'.at \in {"suspend", "select", "scale"} => ~sts'.up
                    /\ storage'.at \in {"select", "scale", "place"} => "gitop" \in suspended'
                    /\ storage'.at \in {"scale", "place"} => sts'.pinned
                    /\ storage'.at \in {"resume", "bounce", "delete", "ended"} => pod' # "never"
  BY DEF PinnedFirst
<1>1. odd \subseteq odd'
  BY DEF Settle!Next, Settle!Storage, Settle!Post, Settle!Gates, Settle!Suspend, Settle!Select,
         Settle!Scale, Settle!Placed, Settle!Resume, Settle!Bounce, Settle!Verify,
         Settle!Mounted, Settle!SuspendSource, Settle!SuspendPlatform, Settle!Rebuilt,
         Settle!ResumeFlux, Settle!Wipe, Settle!Fill, Settle!Heal, Settle!Healed,
         Settle!GateEnds, Settle!Killed, Settle!Again, Settle!Fetch, Settle!Apply,
     Settle!Begins, Settle!Reverts, Settle!Place, Settle!Mounts
<1>2. /\ storage.at \in {"suspend", "select", "scale"} => ~sts.up
      /\ storage.at \in {"select", "scale", "place"} => "gitop" \in suspended
      /\ storage.at \in {"scale", "place"} => sts.pinned
      /\ storage.at \in {"resume", "bounce", "delete", "ended"} => pod # "never"
  BY <1>1 DEF SettleInv, PinnedFirst
<1>3. PodTypes /\ StorageType /\ GatesType
  BY SettleTypes DEF SettleInv
<1> USE DEF Settle!flux, Settle!git, Settle!gitpod
<1>4. CASE Settle!Fetch \/ Settle!Apply \/ Settle!Mounts \/ Settle!Wipe \/ Settle!Fill
  BY <1>2, <1>4 DEF Settle!Fetch, Settle!Apply, Settle!Mounts, Settle!Wipe, Settle!Fill
<1>5. CASE Settle!Begins \/ Settle!Reverts
  <2>1. UNCHANGED <<suspended, storage>> /\ sts'.up = sts.up /\ (pod # "never" => pod' # "never")
    BY <1>3, <1>5 DEF Settle!Begins, Settle!Reverts, Settle!PodGone, PodTypes
  <2>2. "gitop" \in suspended => sts'.pinned = sts.pinned
    BY <1>3, <1>5 DEF Settle!Begins, Settle!Reverts, PodTypes
  <2>3. QED
    BY <1>2, <2>1, <2>2
<1>6. CASE Settle!Place
  BY <1>2, <1>6 DEF Settle!Place, Settle!Nodes
<1>7. CASE Settle!Suspend \/ Settle!Resume
  BY <1>2, <1>3, <1>7, Patches DEF Settle!Suspend, Settle!Resume, StorageType
<1>8. CASE Settle!Select \/ Settle!Scale
  BY <1>2, <1>3, <1>8 DEF Settle!Select, Settle!Scale, StorageType, PodTypes
<1>9. CASE Settle!Placed
  BY <1>2, <1>3, <1>9 DEF Settle!Placed, Settle!Nodes
<1>10. CASE Settle!Bounce
  BY <1>2, <1>3, <1>10 DEF Settle!Bounce, Settle!PodGone, StorageType
<1>11. CASE Settle!Post
  <2>1. UNCHANGED <<storage, sts, pod>>
    BY <1>11 DEF Settle!Post, Settle!Verify, Settle!Mounted, Settle!SuspendSource,
       Settle!SuspendPlatform, Settle!Rebuilt, Settle!ResumeFlux
  <2>2. "gitop" \in suspended => "gitop" \in suspended'
    BY <1>11, Patches DEF Settle!Post, Settle!Verify, Settle!Mounted, Settle!SuspendSource,
       Settle!SuspendPlatform, Settle!Rebuilt, Settle!ResumeFlux
  <2>3. QED
    BY <1>2, <2>1, <2>2
<1>12. CASE Settle!Gates
  <2>1. UNCHANGED <<storage, sts, pod>>
    BY <1>12 DEF Settle!Gates, Settle!Heal, Settle!Healed, Settle!GateEnds, Settle!Killed,
       Settle!Again
  <2>2. "gitop" \in suspended => "gitop" \in suspended'
    BY <1>12, Patches DEF Settle!Gates, Settle!Heal, Settle!Healed, Settle!GateEnds,
       Settle!Killed, Settle!Again
  <2>3. QED
    BY <1>2, <2>1, <2>2
<1>13. QED
  BY <1>4, <1>5, <1>6, <1>7, <1>8, <1>9, <1>10, <1>11, <1>12
     DEF Settle!Next, Settle!Storage

LEMMA SettleStep ==
  ASSUME SettleInv, Settle!Next
  PROVE  SettleInv'
<1>1. Settle!TypeOK'
  BY SettleTypeStep DEF SettleInv, OwedResume
<1>2. QED
  BY <1>1, BuiltStep, OwedStep, PinStep DEF SettleInv

-----------------------------------------------------------------------------
(* The claim.                                                               *)

\* A part keeps its invariant while the claim is at work on another one.
LEMMA PrepSame ==
  ASSUME PrepInv, UNCHANGED prepVars
  PROVE  PrepInv'
<1> USE DEF prepVars, PrepInv
<1>1. MainTypes' /\ CloneTypes' /\ MidTypes' /\ NodeTypes' /\ VolumeTypes'
  BY DEF MainTypes, CloneTypes, MidTypes, NodeTypes, VolumeTypes
<1>2. Prep!PreparedIsOn' /\ MidOnRecord' /\ OwnWhenJoined' /\ CopiesOfRuns'
  BY DEF Prep!PreparedIsOn, Prep!Prepared, MidOnRecord, OwnWhenJoined, CopiesOfRuns
<1>3. OkHasData' /\ AllWereOk' /\ ResultCounts'
  BY DEF OkHasData, AllWereOk, Prep!Prepared, ResultCounts
<1>4. QED
  BY <1>1, <1>2, <1>3

LEMMA BypassSame ==
  ASSUME BypassInv, UNCHANGED <<again, bypassVars>>
  PROVE  BypassInv'
BY DEF bypassVars, BypassInv, Bypass!TypeOK, LostHasBegun, OneTry, ScriptKnows, RestoreKnows,
       Mine, Bypass!Bypassed

LEMMA SettleSame ==
  ASSUME SettleInv, UNCHANGED settleVars
  PROVE  SettleInv'
BY DEF settleVars, SettleInv, Settle!TypeOK, BuiltBehindSource, OwedResume, PinnedFirst

\* The seed serves its restored database: where that is the template's, every webhook is
\* in place, so nothing is bypassed that was not.
LEMMA OpensStep ==
  ASSUME BypassInv, Opens
  PROVE  BypassInv'
<1> USE DEF BypassInv
<1>1. UNCHANGED <<again, bypass, seedScript, listed, saved, local, onseed, restore, window,
                  warned, lost>>
  BY DEF Opens
<1>2. crd' \in [Crds -> Bypass!Modes] /\ Bypass!Bypassed' \subseteq Bypass!Bypassed
  BY DEF Opens, Bypass!TypeOK, Bypass!Modes, Bypass!Bypassed
<1>3. Bypass!TypeOK' /\ LostHasBegun'
  BY <1>1, <1>2 DEF Bypass!TypeOK, LostHasBegun
<1>4. ASSUME OneTry /\ ScriptKnows /\ RestoreKnows
      PROVE  OneTry' /\ ScriptKnows' /\ RestoreKnows'
  BY <1>1, <1>2, <1>4 DEF OneTry, ScriptKnows, RestoreKnows, Mine
<1>5. QED
  BY <1>1, <1>3, <1>4

\* A window that is left makes the next one of its name another matter.
LEMMA LeavesStep ==
  ASSUME BypassInv, Leaves
  PROVE  BypassInv' /\ again' = TRUE
<1> USE DEF BypassInv, Leaves
<1>1. crd' \in [Crds -> Bypass!Modes]
  BY SetModes DEF Bypass!TypeOK
<1>2. seedScript' \in [Bypass!Tries -> {"off", "begun", "listed", "patched", "ok", "bad"}]
      /\ listed' \in [Bypass!Tries -> SUBSET Crds]
  BY DEF Bypass!Tries
<1>3. Bypass!TypeOK'
  BY <1>1, <1>2 DEF Bypass!TypeOK
<1>4. QED
  BY <1>3 DEF LostHasBegun

\* The repository that is booted is a whole one, or broken.
LEMMA BootsStep ==
  ASSUME SettleInv, Boots
  PROVE  SettleInv'
<1> USE DEF SettleInv, Boots
<1>1. Settle!TypeOK'
  BY DEF Settle!TypeOK, Settle!Contents
<1>2. BuiltBehindSource' /\ OwedResume' /\ PinnedFirst'
  BY DEF BuiltBehindSource, OwedResume, PinnedFirst
<1>3. QED
  BY <1>1, <1>2

\* The invariant of the claim is one: it holds when the claim begins, and every step of
\* a part, and every step from a part to the next, keeps it.
LEMMA InvInit == Init => IInv
BY PrepInit, BypassInit, SettleInit DEF Init, IInv, ClaimTypes

LEMMA InvStep ==
  ASSUME IInv, [Next]_vars
  PROVE  IInv'
<1> USE DEF IInv, ClaimTypes
<1>1. CASE Prepares
  BY <1>1, PrepStep, BypassSame, SettleSame DEF Prepares
<1>2. CASE Opens
  BY <1>2, PrepSame, OpensStep, SettleSame DEF Opens
<1>3. CASE Windows
  BY <1>3, PrepSame, BypassStep, SettleSame DEF Windows
<1>4. CASE Leaves
  BY <1>4, EndOfRun, LeavesStep, SettleSame DEF Leaves
<1>5. CASE Boots
  BY <1>5, PrepSame, BypassSame, BootsStep DEF Boots
<1>6. CASE Settles
  BY <1>6, PrepSame, BypassSame, SettleStep DEF Settles
<1>7. CASE UNCHANGED vars
  BY <1>7, PrepSame, BypassSame, SettleSame DEF vars
<1>8. QED
  BY <1>1, <1>2, <1>3, <1>4, <1>5, <1>6, <1>7 DEF Next

-----------------------------------------------------------------------------
(* Theorems.                                                                *)

\* The invariant holds for any control planes, workers, volumes, CRDs, runs and tries.
THEOREM Invariance == Spec => []IInv
<1>1. Init => IInv
  BY InvInit
<1>2. IInv /\ [Next]_vars => IInv'
  BY InvStep
<1>3. QED
  BY <1>1, <1>2, PTL DEF Spec

\* What is booted was prepared by the run that boots it: clones on, machine-ids their own
\* unless a join ran out of time, every volume with its pair.
THEOREM PreparedBeforeBoot == Spec => []BootedArePrepared
<1>1. IInv => BootedArePrepared
  <2> SUFFICES ASSUME IInv PROVE BootedArePrepared
    OBVIOUS
  <2>1. Prep!PreparedIsOn /\ Prep!OwnMachineIds /\ Prep!ReplaceIsComplete
    BY DEF IInv, PrepInv, Prep!OwnMachineIds, Prep!Prepared, Prep!ReplaceIsComplete,
       OwnWhenJoined, ResultCounts
  <2>2. QED
    BY <2>1 DEF BootedArePrepared
<1>2. QED
  BY <1>1, Invariance, PTL

\* FIX-1: every control plane of a first run has the database that this run has read.
THEOREM OneDbForAll == Spec => []AllFromOneDb
<1>1. IInv => AllFromOneDb
  <2> SUFFICES ASSUME IInv, Prep!Prepared, attempt = 1, NEW c \in CPs
               PROVE  data[c] = attempt
    BY DEF AllFromOneDb, Prep!AllFromOneDb
  <2>1. data[c] \in 0..1
    BY DEF IInv, PrepInv, CopiesOfRuns
  <2>2. prep[c] = "ok"
    BY DEF IInv, PrepInv, AllWereOk, Prep!Nodes
  <2>3. data[c] # 0
    BY <2>2 DEF IInv, PrepInv, OkHasData, Prep!Never
  <2>4. QED
    BY <2>1, <2>3
<1>2. QED
  BY <1>1, Invariance, PTL

\* Unless a connection was lost, an earlier window left, or a script failed and the laptop's
\* restore died after it, what boots has the template's webhooks back, or the log says that
\* it may not.
THEOREM BackOrWarned == Spec => []RestoredOrWarned
<1>1. IInv => RestoredOrWarned
  <2> SUFFICES ASSUME IInv, ~again, ~lost, bypass \in {"booted", "exit10"}
               PROVE  Bypass!Bypassed = {} \/ warned \/ (seedScript[1] = "bad" /\ restore = "died")
    BY DEF RestoredOrWarned, Bypass!RestoredOrWarned
  <2>1. RestoreKnows
    BY DEF IInv, BypassInv
  <2>2. QED
    BY <2>1 DEF RestoreKnows
<1>2. QED
  BY <1>1, Invariance, PTL

\* Flux never applies a half-built repository, unless the patch that suspends the source
\* was refused or the rebuild was cut off.
THEOREM NeverHalfBuilt == Spec => []HalfBuiltNeverApplied
<1>1. IInv => HalfBuiltNeverApplied
  <2> SUFFICES ASSUME IInv, applied = "half"
               PROVE  odd \cap {"refused", "cut"} # {}
    BY DEF HalfBuiltNeverApplied, Settle!HalfBuiltNeverApplied
  <2>1. QED
    BY DEF IInv, SettleInv, BuiltBehindSource
<1>2. QED
  BY <1>1, Invariance, PTL

\* When its programs have ended, they have left nothing suspended but what a failed or
\* cut off resume stands for.
THEOREM FluxIsResumed == Spec => []NothingLeftSuspended
<1>1. IInv => NothingLeftSuspended
  <2> SUFFICES ASSUME IInv, storage.at = "ended", post = "ended",
                      gates.at \in {"passed", "failed"}
               PROVE  suspended \subseteq unsure
    BY DEF NothingLeftSuspended, Settle!NothingLeftSuspended
  <2>1. suspended \subseteq {"source", "platform", "gitop"}
    BY DEF IInv, SettleInv, Settle!TypeOK, Settle!Objects
  <2>2. gates.held = "none"
    BY DEF IInv, SettleInv, OwedResume, Settle!TypeOK
  <2>3. QED
    BY <2>1, <2>2 DEF IInv, SettleInv, OwedResume
<1>2. QED
  BY <1>1, Invariance, PTL

\* LEVER-A: the git pod is first placed on the node of its volumes, unless a patch was
\* refused, gates.py resumed its kustomization, the time was too short, or a reconcile that
\* had begun before the suspend has overtaken the nodeSelector.
THEOREM PinComesFirst == Spec => FirstPlacedOnPin
<1>1. IInv /\ [Next]_vars => [Pinning /\ pod = "never" /\ pod' = "other" =>
                             odd \cap {"loose", "overtaken"} # {}]_vars
  <2> SUFFICES ASSUME IInv, Next, Pinning, pod = "never", pod' = "other"
               PROVE  odd \cap {"loose", "overtaken"} # {}
    OBVIOUS
  <2>1. Settle!Place
    BY DEF Next, Prepares, Opens, Windows, Leaves, Boots, Settles, settleVars, Settle!Next,
       Settle!Storage, Settle!Post, Settle!Gates, Settle!Suspend, Settle!Select,
       Settle!Scale, Settle!Placed, Settle!Resume, Settle!Bounce, Settle!Verify,
       Settle!Mounted, Settle!SuspendSource, Settle!SuspendPlatform, Settle!Rebuilt,
       Settle!ResumeFlux, Settle!Wipe, Settle!Fill, Settle!Heal, Settle!Healed,
       Settle!GateEnds, Settle!Killed, Settle!Again, Settle!Fetch, Settle!Apply,
     Settle!Begins, Settle!Reverts, Settle!Mounts, Settle!gitpod, Settle!PodGone
  <2>2. sts.up /\ ~sts.pinned
    BY <2>1 DEF Settle!Place, Settle!Nodes
  <2>3. StorageType
    BY SettleTypes DEF IInv, SettleInv
  <2>4. QED
    BY <2>2, <2>3 DEF IInv, SettleInv, PinnedFirst, StorageType
<1>2. QED
  BY <1>1, Invariance, PTL DEF Spec, FirstPlacedOnPin
=============================================================================
