------------------------------ MODULE ClaimPrep ------------------------------
(***************************************************************************)
(* A claim up to its window (instant-cluster/claim.py, sections 0 to 3b,   *)
(* and the stage A it runs, clone.py): the template's VMs are cloned and   *)
(* powered on, get a machine-id of their own, and are prepared; every      *)
(* control plane restores the one database that was read from the seed     *)
(* node; the volume groups are restored meanwhile.  Each stage has one     *)
(* thread per node or volume and joins them with a time limit.  A failed   *)
(* or killed claim may be run again under its name, on what it left.       *)
(***************************************************************************)
EXTENDS Naturals

CONSTANTS
  CPs,        \* the control-plane VMs
  Seed,       \* the first of them
  Workers,    \* the worker VMs
  PVs,        \* the persistent volumes of the freeze manifest
  Attempts    \* bound: claims run under one name

Nodes == CPs \cup Workers
Never == 0    \* a copy of the database that was not made; else the attempt that made it

VARIABLES
  attempt,  \* which run of the claim this is
  main,     \* where its main thread is
  vm,       \* per clone: off or on
  power,    \* per clone: its power-on thread
  powerErr, \* _pw_err
  mid,      \* per clone: whose machine-id it has, the template's or its own
  midJob,   \* per clone: its machine-id thread
  midFail,  \* _mid_fail
  file,     \* the seed's database in the laptop's state directory
  placed,   \* /tmp/seed-preplaced.db on the seed
  fetch,    \* _fetch_db: idle, running, ok or err; the last two set _db_ready
  prep,     \* per node: its preparation thread
  shipped,  \* per control plane: /tmp/seed-db.gz.b64
  data,     \* per control plane: the database it restored
  vg,       \* per volume: its restore thread
  pairs,    \* the volumes that have their pairs
  subErr,   \* _sub_err: a restore failed
  vgResult, \* _vg_result: none, ok or err
  late      \* the join of the machine-id threads ran out of time

vars == <<attempt, main, vm, power, powerErr, mid, midJob, midFail, file, placed, fetch, prep,
          shipped, data, vg, pairs, subErr, vgResult, late>>
stageA == <<vm, power, powerErr, mid, midJob, midFail>>
prepare == <<file, placed, fetch, prep, shipped, data>>
volumes == <<vg, pairs, subErr, vgResult>>

Job == {"idle", "running", "ended"}

TypeOK ==
  /\ attempt \in 1..Attempts
  /\ main \in {"power", "mid", "midEnd", "prep", "vg", "replaced", "exit"}
  /\ vm \in [Nodes -> {"off", "on"}] /\ power \in [Nodes -> Job] /\ powerErr \subseteq Nodes
  /\ mid \in [Nodes -> {"template", "own"}] /\ midJob \in [Nodes -> Job]
  /\ midFail \subseteq Nodes
  /\ {file, placed} \subseteq 0..Attempts /\ fetch \in {"idle", "running", "ok", "err"}
  /\ prep \in [Nodes -> {"idle", "copy", "wait", "ship", "script", "ok", "failed", "dead"}]
  /\ shipped \in [CPs -> 0..Attempts] /\ data \in [CPs -> 0..Attempts]
  /\ vg \in [PVs -> Job] /\ pairs \subseteq PVs /\ vgResult \in {"none", "ok", "err"}
  /\ {subErr, late} \subseteq BOOLEAN

All(S, v) == [x \in S |-> v]

\* The manifest's VMs are off and their clones have materialized.
Init ==
  /\ attempt = 1 /\ main = "power"
  /\ vm = All(Nodes, "off") /\ power = All(Nodes, "running") /\ powerErr = {}
  /\ mid = All(Nodes, "template") /\ midJob = All(Nodes, "idle") /\ midFail = {}
  /\ file = Never /\ placed = Never /\ fetch = "idle"
  /\ prep = All(Nodes, "idle") /\ shipped = All(CPs, Never) /\ data = All(CPs, Never)
  /\ vg = All(PVs, "running") /\ pairs = {} /\ subErr = FALSE
  /\ vgResult = "none" /\ late = FALSE

Step(from, to) == main = from /\ main' = to
Quits(from) == main = from /\ main' = "exit"

-----------------------------------------------------------------------------
(* The restores of the volumes, from the launch of the claim on.            *)

\* _one_pv: the pairs of one volume, or a recorded error.
RestoresVg(p) ==
  /\ vg[p] = "running" /\ vg' = [vg EXCEPT ![p] = "ended"]
  /\ \/ pairs' = pairs \cup {p} /\ UNCHANGED subErr
     \/ subErr' = TRUE /\ UNCHANGED pairs
  /\ UNCHANGED <<attempt, main, stageA, prepare, vgResult, late>>

Collects(good) ==
  /\ vgResult = "none" /\ \A p \in PVs : vg[p] # "idle"
  /\ vgResult' = IF good THEN "ok" ELSE "err"
  /\ UNCHANGED <<attempt, main, stageA, prepare, vg, pairs, subErr, late>>
\* Mutant of CollectVgs: the pairs are not counted.
CollectVgs_NoCount == Collects(~subErr)
\* _early_vg_restore: the joins, each of at most 420 seconds, the errors, the count.
CollectVgs == Collects(~subErr /\ pairs = PVs)

-----------------------------------------------------------------------------
(* Stage A.                                                                 *)

\* _power_on: the VM is on, an error is recorded, or the thread dies in v3's exit.
PowersOn(n) ==
  /\ power[n] = "running" /\ power' = [power EXCEPT ![n] = "ended"]
  /\ \/ vm' = [vm EXCEPT ![n] = "on"] /\ UNCHANGED powerErr
     \/ powerErr' \in {powerErr, powerErr \cup {n}} /\ UNCHANGED vm
  /\ UNCHANGED <<attempt, main, mid, midJob, midFail, prepare, volumes, late>>

\* Mutant of JoinPower: no error recorded counts as success.
JoinPower_ErrorsOnly ==
  /\ main = "power" /\ main' = IF powerErr = {} THEN "mid" ELSE "exit"
  /\ midJob' = [n \in Nodes |-> IF main' = "mid" THEN "running" ELSE "idle"]
  /\ UNCHANGED <<attempt, vm, power, powerErr, mid, midFail, prepare, volumes, late>>
\* The join, the recorded errors, and the positive verification.
JoinPower ==
  /\ main = "power"
  /\ main' = IF powerErr = {} /\ \A n \in Nodes : vm[n] = "on" THEN "mid" ELSE "exit"
  /\ midJob' = [n \in Nodes |-> IF main' = "mid" THEN "running" ELSE "idle"]
  /\ UNCHANGED <<attempt, vm, power, powerErr, mid, midFail, prepare, volumes, late>>

\* _mid_one: written and read back, or recorded after the second try.
WritesMid(n) ==
  /\ midJob[n] = "running" /\ midJob' = [midJob EXCEPT ![n] = "ended"]
  /\ \/ mid' = [mid EXCEPT ![n] = "own"] /\ UNCHANGED midFail
     \/ midFail' = midFail \cup {n} /\ UNCHANGED mid
  /\ UNCHANGED <<attempt, main, vm, power, powerErr, prepare, volumes, late>>

\* Mutant of JoinMid: the record is not looked at.
JoinMid_Unchecked ==
  /\ Step("mid", "midEnd")
  /\ UNCHANGED <<attempt, stageA, prepare, volumes, late>>
\* The join of 120 seconds, then the record.
JoinMid ==
  /\ main = "mid" /\ main' = IF midFail = {} THEN "midEnd" ELSE "exit"
  /\ late' = (late \/ \E n \in Nodes : midJob[n] = "running")
  /\ UNCHANGED <<attempt, stageA, prepare, volumes>>

\* clone.py's process ends with its last thread; the fetch and the preparation begin.
EndStageA ==
  /\ Step("midEnd", "prep") /\ \A n \in Nodes : "running" \notin {power[n], midJob[n]}
  /\ power' = All(Nodes, "idle") /\ midJob' = All(Nodes, "idle")
  /\ powerErr' = {} /\ midFail' = {} /\ fetch' = "running"
  /\ prep' = [n \in Nodes |-> IF n \in CPs THEN "copy" ELSE "script"]
  /\ UNCHANGED <<attempt, vm, mid, file, placed, shipped, data, volumes, late>>

-----------------------------------------------------------------------------
(* The seed's database, and the preparation of the nodes.                   *)

\* _fetch_db: one command on the seed, a copy there first and then the answer.
Fetch ==
  /\ fetch = "running"
  /\ \/ placed' = attempt /\ UNCHANGED <<file, fetch>>
     \/ placed = attempt /\ file' = attempt /\ fetch' = "ok" /\ UNCHANGED placed
     \/ fetch' = "err" /\ UNCHANGED <<file, placed>>
  /\ UNCHANGED <<attempt, main, stageA, prep, shipped, data, volumes, late>>

Prep(n, from, to) == prep[n] = from /\ prep' = [prep EXCEPT ![n] = to]

Copies(n) ==
  /\ Prep(n, "copy", "wait") \/ Prep(n, "copy", "dead")
  /\ UNCHANGED <<attempt, main, stageA, file, placed, fetch, shipped, data, volumes, late>>

\* The wait for _db_ready is over after 300 seconds whether it is set or not.
Waits(n) ==
  /\ Prep(n, "wait", IF fetch = "err" THEN "dead" ELSE "ship")
  /\ UNCHANGED <<attempt, main, stageA, file, placed, fetch, shipped, data, volumes, late>>

\* The file in the state directory goes to every control plane but the seed; scp may fail.
Ships(n) ==
  /\ \/ /\ n = Seed /\ Prep(n, "ship", "script") /\ UNCHANGED shipped
     \/ /\ n # Seed /\ file # Never /\ Prep(n, "ship", "script")
        /\ shipped' = [shipped EXCEPT ![n] = file]
     \/ /\ n # Seed /\ Prep(n, "ship", "dead") /\ UNCHANGED shipped
  /\ UNCHANGED <<attempt, main, stageA, file, placed, fetch, data, volumes, late>>

Scripts(n, db, good) ==
  /\ \/ Prep(n, "script", "failed") /\ UNCHANGED data
     \/ good /\ Prep(n, "script", "ok") /\ data' = [c \in CPs |-> IF c = n THEN db ELSE data[c]]
  /\ placed' = IF n = Seed THEN Never ELSE placed
  /\ UNCHANGED <<attempt, main, stageA, file, fetch, shipped, volumes, late>>
Copy(n) == IF n = Seed /\ placed # Never THEN placed ELSE IF n \in CPs THEN shipped[n] ELSE Never
\* Mutant of Script: an empty database is not noticed.
Script_Empty(n) == Scripts(n, Copy(n), TRUE)
\* On the node: the preplaced copy where there is one, else the shipped one, if any.
Script(n) == Scripts(n, Copy(n), n \in CPs => Copy(n) # Never)

\* Every node has reported, and reported success; late ones are missing.
JoinPrep ==
  /\ main = "prep"
  /\ main' = IF \A n \in Nodes : prep[n] = "ok" THEN "vg" ELSE "exit"
  /\ UNCHANGED <<attempt, stageA, prepare, volumes, late>>

\* Etcd starts, its quorum forms, the volumes are there, the identities are replaced.
Replaces ==
  /\ Step("vg", "replaced") /\ vgResult = "ok"
  /\ UNCHANGED <<attempt, stageA, prepare, volumes, late>>

GivesUp ==
  /\ Quits("vg")
  /\ UNCHANGED <<attempt, stageA, prepare, volumes, late>>

-----------------------------------------------------------------------------
(* The end of a run, and the next one.                                      *)

Working ==
  \/ \E n \in Nodes : power[n] = "running" \/ midJob[n] = "running"
                      \/ prep[n] \in {"copy", "wait", "ship", "script"}
  \/ fetch = "running" \/ \E p \in PVs : vg[p] = "running"

NoJobs ==
  /\ power' = All(Nodes, "idle") /\ powerErr' = {}
  /\ midJob' = All(Nodes, "idle") /\ midFail' = {}
  /\ fetch' = "idle" /\ prep' = All(Nodes, "idle") /\ late' = FALSE
  /\ vg' = All(PVs, "idle") /\ pairs' = {} /\ subErr' = FALSE /\ vgResult' = "none"

\* The time limit of whoever runs the claim: the process and its threads are gone.
Killed ==
  /\ main # "replaced" /\ main' = "exit"
  /\ NoJobs
  /\ UNCHANGED <<attempt, vm, mid, file, placed, shipped, data>>

\* The claim is run again under its name: clone.py reuses the clones it finds.
Retry ==
  /\ main = "exit" /\ ~Working /\ attempt < Attempts
  /\ attempt' = attempt + 1 /\ main' = "power" /\ late' = FALSE
  /\ power' = All(Nodes, "running") /\ powerErr' = {}
  /\ midJob' = All(Nodes, "idle") /\ midFail' = {}
  /\ fetch' = "idle" /\ prep' = All(Nodes, "idle")
  /\ vg' = All(PVs, "running") /\ pairs' = {} /\ subErr' = FALSE /\ vgResult' = "none"
  /\ UNCHANGED <<vm, mid, file, placed, shipped, data>>

Next ==
  \/ \E p \in PVs : RestoresVg(p)
  \/ \E n \in Nodes : PowersOn(n) \/ WritesMid(n) \/ Script(n)
  \/ \E n \in CPs : Copies(n) \/ Waits(n) \/ Ships(n)
  \/ CollectVgs \/ JoinPower \/ JoinMid \/ EndStageA \/ Fetch \/ JoinPrep
  \/ Replaces \/ GivesUp \/ Killed \/ Retry

Spec == Init /\ [][Next]_vars

-----------------------------------------------------------------------------
(* Properties.                                                              *)

Prepared == main \in {"vg", "replaced"}

\* "Confirm the actual power state": no clone is prepared that is not on, even when
\* its power-on thread died without a word.
PreparedIsOn == main \in {"mid", "midEnd", "prep"} \/ Prepared => \A n \in Nodes : vm[n] = "on"

\* Every clone that is prepared has a machine-id of its own, so that its volumes are
\* attached to it and not to the template's VM, unless a join ran out of time.
OwnMachineIds == main = "prep" \/ Prepared => late \/ \A n \in Nodes : mid[n] = "own"

\* FIX-1, "all CPs restore from the SEED's db": in the first run under a name, they
\* have restored what this run has read from the seed, however late the fetch was.
AllFromOneDb == Prepared /\ attempt = 1 => \A c \in CPs : data[c] = attempt

\* The identities are replaced only when every volume has its restored pair.
ReplaceIsComplete == main = "replaced" => pairs = PVs

\* "A stale file from an earlier attempt can never be picked up": the same of every
\* run under the name.
NoStaleDb == Prepared => \A c \in CPs : data[c] = attempt
=============================================================================
