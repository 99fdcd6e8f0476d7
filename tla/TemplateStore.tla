---------------------------- MODULE TemplateStore ----------------------------
(***************************************************************************)
(* Frozen templates: the registry templates.json (change-set hash -> name), *)
(* the freeze manifests (name -> the frozen VM), and the VMs on Prism       *)
(* Central, as concurrent scenario runs use them: create_cluster claims a   *)
(* registered template or builds a cluster, finish_cluster sweeps the claim *)
(* or freezes and registers the cluster it built.                          *)
(*                                                                         *)
(* A cluster is one VM, known by its uuid.  Its content is the change-set   *)
(* it was built from, "half" for a build that broke off, or "upgraded"      *)
(* after a scenario upgraded its platform or its kubelets; it is touched    *)
(* when a scenario changed something else in it.                           *)
(***************************************************************************)
EXTENDS Naturals, FiniteSets

CONSTANTS
  Run,         \* processes, one scenario each
  Together,    \* bound: how many of them are under way at once
  VM,          \* uuids Prism Central gives out (bounds the clusters ever made)
  Hash,        \* change-set hashes
  Name,        \* cluster and clone names
  NameOf,      \* NameOf[r]: ctx.cluster() of the scenario r runs
  CloneOf,     \* CloneOf[r]: the name claim_cluster gives its clone
  Asks,        \* Asks[r]: the change-sets r's scenario may be started with
  Begins,      \* pairs <<n, p>> of names, n beginning with p (vm_name==p.*)
  Unseen,       \* may a scenario change what no fingerprint shows?
  Unreadable,  \* may reading a fingerprint fail?
  ProbeFails,  \* may a GET of an existing VM fail?
  StateDir,    \* is SPEEDSTART_DIR set?
  None

ASSUME StoreAssumption ==
  /\ NameOf \in [Run -> Name] /\ CloneOf \in [Run -> Name]
  /\ Asks \in [Run -> SUBSET Hash]
  /\ Begins \subseteq Name \X Name /\ \A n \in Name : <<n, n>> \in Begins
  /\ Unseen \in BOOLEAN /\ Unreadable \in BOOLEAN /\ ProbeFails \in BOOLEAN /\ StateDir \in BOOLEAN
  /\ None \notin Hash \cup Name \cup VM
  /\ "stub" \notin VM
  /\ Together \in Nat

VARIABLES
  vm,        \* vm[v]: its state, name and content on Prism Central
  reg,       \* templates.json as a reader parses it: reg[h] is a name or None
  manifest,  \* manifest[n]: None, "stub" (its "vms" is null), or the frozen VM
  pc,        \* where each run is
  ctx,       \* ctx[r]: what the run remembers
  made       \* history: made[h] is the VM last registered for h

vars == <<vm, reg, manifest, pc, ctx, made>>

Places == {"idle", "forgetting", "sweeping", "creating", "cloning", "testing",
           "finishing", "freezing", "recording", "poweringOff", "registering",
           "truncating", "writing"}
Contents == Hash \cup {"half", "upgraded", None}

TypeOK ==
  /\ vm \in [VM -> [state : {"unused", "on", "off", "gone"},
                    name : Name \cup {None}, content : Contents, touched : BOOLEAN]]
  /\ reg \in [Hash -> Name \cup {None}]
  /\ manifest \in [Name -> VM \cup {None, "stub"}]
  /\ pc \in [Run -> Places]
  /\ ctx \in [Run -> [mode : {"unset", "claimed", "created-incomplete", "created"},
                      hash : Hash \cup {None}, template : Name \cup {None},
                      vm : VM \cup {None}, born : BOOLEAN,
                      copy : [Hash -> Name \cup {None}]]]
  /\ made \in [Hash -> VM \cup {None}]

NoEntries == [h \in Hash |-> None]
NewContext == [mode |-> "unset", hash |-> None, template |-> None, vm |-> None,
               born |-> FALSE, copy |-> NoEntries]

Init ==
  /\ vm = [v \in VM |-> [state |-> "unused", name |-> None, content |-> None, touched |-> FALSE]]
  /\ reg = NoEntries
  /\ manifest = [n \in Name |-> None]
  /\ pc = [r \in Run |-> "idle"]
  /\ ctx = [r \in Run |-> NewContext]
  /\ made = [h \in Hash |-> None]

-----------------------------------------------------------------------------
(* Prism Central and its clients.                                           *)

Exists(v) == vm[v].state \in {"on", "off"}

\* freeze.py and clone.py keep the manifests in SPEEDSTART_DIR, or next to
\* themselves; create_cluster looks for them there, or in the home's state
\* directory; sweep there, or in the current directory.  (The mirror freeze.py makes
\* in the home's state directory gets the kubeconfig but not the manifest.)
Found(n) == StateDir /\ manifest[n] # None
Frozen(n) == manifest[n] \in VM

\* sweep: the VMs whose name begins with p, without those of the manifests that
\* parse (a stub's null list does not).
Protected == {manifest[n] : n \in {m \in Name : Found(m) /\ Frozen(m)}}

\* Mutant of Leftovers: every VM without a manifest.
Leftovers_Any(p) == {v \in VM \ Protected : Exists(v)}
Leftovers(p) == {v \in VM \ Protected : Exists(v) /\ <<vm[v].name, p>> \in Begins}

\* A delete that fails is logged and the sweep goes on.
Delete(D) == vm' = [v \in VM |-> IF v \in D THEN [vm[v] EXCEPT !.state = "gone"] ELSE vm[v]]
Sweep(p) == \E D \in SUBSET Leftovers(p) : Delete(D)

\* A new VM.
Boot(v, n, c, t) ==
  /\ vm[v].state = "unused"
  /\ vm' = [vm EXCEPT ![v] = [state |-> "on", name |-> n, content |-> c, touched |-> t]]

Goto(r, place) == pc' = [pc EXCEPT ![r] = place]

\* The process is over, and what it remembered with it; it may be started again.
Ends(r) == Goto(r, "idle") /\ ctx' = [ctx EXCEPT ![r] = NewContext]

-----------------------------------------------------------------------------
(* create_cluster.                                                          *)

\* _template_missing_vms: no manifest, a VM that is gone, or a GET that failed.
\* A stub lists no VM, so none of its VMs is missing.
MaybeMissing(n) == Found(n) => Frozen(n) /\ (ProbeFails \/ ~Exists(manifest[n]))
MaybeThere(n) == Found(n) /\ (Frozen(n) => Exists(manifest[n]))

\* Claim a registered template; forget one whose VMs are gone; else create.
Decide(r, h) ==
  /\ pc[r] = "idle" /\ Cardinality({s \in Run : pc[s] # "idle"}) < Together
  /\ \/ /\ reg[h] # None /\ MaybeThere(reg[h])
        /\ ctx' = [ctx EXCEPT ![r] = [NewContext EXCEPT !.mode = "claimed", !.hash = h,
                                                        !.template = reg[h]]]
        /\ Goto(r, "cloning")
     \/ /\ reg[h] # None /\ MaybeMissing(reg[h])
        /\ ctx' = [ctx EXCEPT ![r] = [NewContext EXCEPT !.hash = h]]
        /\ Goto(r, "forgetting")
     \/ /\ reg[h] = None
        /\ ctx' = [ctx EXCEPT ![r] = [NewContext EXCEPT !.mode = "created-incomplete", !.hash = h]]
        /\ Goto(r, "sweeping")
  /\ UNCHANGED <<vm, reg, manifest, made>>

\* traditional_create: what an earlier cluster of the same name left is swept.
SweepFirst(r) ==
  /\ pc[r] = "sweeping"
  /\ Sweep(NameOf[r])
  /\ Goto(r, "creating")
  /\ UNCHANGED <<reg, manifest, ctx, made>>

\* The cluster is built and delivered: its fingerprint is taken and the mode is
\* "created"; _settle may still fail.
Create(r) ==
  /\ pc[r] = "creating"
  /\ \E v \in VM, born \in (IF Unreadable THEN BOOLEAN ELSE {TRUE}) :
        /\ Boot(v, NameOf[r], ctx[r].hash, FALSE)
        /\ ctx' = [ctx EXCEPT ![r].mode = "created", ![r].vm = v, ![r].born = born]
  /\ \E next \in {"testing", "finishing"} : Goto(r, next)
  /\ UNCHANGED <<reg, manifest, made>>

\* The build raises: the mode stays "created-incomplete".
CreateFails(r) ==
  /\ pc[r] = "creating"
  /\ \/ UNCHANGED <<vm, ctx>>
     \/ \E v \in VM : /\ Boot(v, NameOf[r], "half", FALSE)
                      /\ ctx' = [ctx EXCEPT ![r].vm = v]
  /\ Goto(r, "finishing")
  /\ UNCHANGED <<reg, manifest, made>>

\* clone.py: the manifest's VM, if it exists and is off, under the clone's name.
\* A VM that already has that name is reused ("resumable re-run"), whoever runs it;
\* whether the rest of such a claim succeeds is left open.
Claimable(n) == Frozen(n) /\ vm[manifest[n]].state = "off"
CloneSource(r) == manifest[ctx[r].template]
\* Mutant of SameName: any clone of any run is "resumable".
SameName_Any(r) == {v \in VM : vm[v].state = "on" /\ \E s \in Run : vm[v].name = CloneOf[s]}
SameName(r) == {v \in VM : Exists(v) /\ vm[v].name = CloneOf[r]}

Clone(r) ==
  /\ pc[r] = "cloning"
  /\ Claimable(ctx[r].template)
  /\ \E v \in VM :
        /\ IF SameName(r) # {}
             THEN v \in SameName(r) /\ vm' = [vm EXCEPT ![v].state = "on"]
             ELSE Boot(v, CloneOf[r], vm[CloneSource(r)].content, vm[CloneSource(r)].touched)
        /\ ctx' = [ctx EXCEPT ![r].vm = v]
  /\ \E next \in {"testing", "finishing"} : Goto(r, next)   \* the gates may fail
  /\ UNCHANGED <<reg, manifest, made>>

\* Not claimable, or Prism Central fails before there is a clone.
CloneFails(r) ==
  /\ pc[r] = "cloning"
  /\ Goto(r, "finishing")
  /\ UNCHANGED <<vm, reg, manifest, ctx, made>>

\* The scenario: it may upgrade the cluster it was given, and change what no fingerprint
\* shows (an application, a pin, a resource that it does not put back).
Test(r) ==
  /\ pc[r] = "testing"
  /\ \/ UNCHANGED vm
     \/ /\ vm[ctx[r].vm].state = "on"
        /\ \E c \in {"upgraded", vm[ctx[r].vm].content}, t \in {Unseen, vm[ctx[r].vm].touched} :
              vm' = [vm EXCEPT ![ctx[r].vm].content = c, ![ctx[r].vm].touched = t]
  /\ Goto(r, "finishing")
  /\ UNCHANGED <<reg, manifest, ctx, made>>

-----------------------------------------------------------------------------
(* finish_cluster and freeze.py.                                            *)

Mode(r) == ctx[r].mode

\* delete_claim sweeps the clone by its name.
FinishClaim(r) ==
  /\ pc[r] = "finishing" /\ Mode(r) = "claimed"
  /\ Sweep(CloneOf[r])
  /\ Ends(r)
  /\ UNCHANGED <<reg, manifest, made>>

\* Mutant of FinishIncomplete: what was built is frozen.
FinishIncomplete_Freeze(r) ==
  /\ pc[r] = "finishing" /\ Mode(r) = "created-incomplete" /\ ctx[r].vm # None
  /\ Goto(r, "freezing")
  /\ UNCHANGED <<vm, reg, manifest, ctx, made>>
\* "KEPT": a cluster whose build failed.
FinishIncomplete(r) ==
  /\ pc[r] = "finishing" /\ Mode(r) = "created-incomplete"
  /\ Ends(r)
  /\ UNCHANGED <<vm, reg, manifest, made>>

\* Mutant of DriftShows: nothing is compared.
DriftShows_Never(r) == FALSE
\* A drift shows when the cluster was upgraded, its fingerprint was read when it
\* was born and is read again now.
DriftShows(r) == ctx[r].born /\ vm[ctx[r].vm].content = "upgraded"

\* delete_cluster, then the sweep by name.
FinishDrifted(r) ==
  /\ pc[r] = "finishing" /\ Mode(r) = "created"
  /\ DriftShows(r)
  /\ \E D \in SUBSET (Leftovers(NameOf[r]) \cup {ctx[r].vm}) : Delete(D)
  /\ Ends(r)
  /\ UNCHANGED <<reg, manifest, made>>

FinishCreated(r) ==
  /\ pc[r] = "finishing" /\ Mode(r) = "created"
  /\ DriftShows(r) => Unreadable
  /\ Goto(r, "freezing")
  /\ UNCHANGED <<vm, reg, manifest, ctx, made>>

IsUp(r) == vm[ctx[r].vm].state = "on"

\* The gates passed and the golden recovery points are taken: the manifest of
\* the cluster's name is written, its list of VMs still null.
FreezeBegins(r) ==
  /\ pc[r] = "freezing" /\ IsUp(r)
  /\ manifest' = [manifest EXCEPT ![NameOf[r]] = "stub"]
  /\ Goto(r, "recording")
  /\ UNCHANGED <<vm, reg, ctx, made>>

\* The identity gates passed: the manifest lists the cluster's own VM.
FreezeRecords(r) ==
  /\ pc[r] = "recording"
  /\ manifest' = [manifest EXCEPT ![NameOf[r]] = ctx[r].vm]
  /\ Goto(r, "poweringOff")
  /\ UNCHANGED <<vm, reg, ctx, made>>

PowerOff(v) == vm' = [vm EXCEPT ![v].state = "off"]

FreezePowersOff(r) ==
  /\ pc[r] = "poweringOff" /\ IsUp(r)
  /\ PowerOff(ctx[r].vm)
  /\ Goto(r, "registering")
  /\ UNCHANGED <<reg, manifest, ctx, made>>

\* A gate refuses, a call fails, the endpoint still answers, the budget ends:
\* the cluster is "KEPT for inspection" as it is.
FreezeFails(r) ==
  /\ pc[r] \in {"freezing", "recording", "poweringOff"}
  /\ \/ UNCHANGED vm
     \/ pc[r] = "poweringOff" /\ IsUp(r) /\ PowerOff(ctx[r].vm)
  /\ Ends(r)
  /\ UNCHANGED <<reg, manifest, made>>

-----------------------------------------------------------------------------
(* templates.json is read, edited and written without a lock; opening it for *)
(* writing empties it, and a file that does not parse reads as no entries.   *)

Forgetting(r) == Mode(r) = "unset"

ReadRegistry(r) ==
  /\ pc[r] \in {"forgetting", "registering"}
  /\ IF Forgetting(r) /\ reg[ctx[r].hash] = None   \* nothing to forget
       THEN /\ ctx' = [ctx EXCEPT ![r].mode = "created-incomplete"]
            /\ Goto(r, "sweeping")
       ELSE /\ ctx' = [ctx EXCEPT ![r].copy = reg]
            /\ Goto(r, "truncating")
  /\ UNCHANGED <<vm, reg, manifest, made>>

TruncateRegistry(r) ==
  /\ pc[r] = "truncating"
  /\ reg' = NoEntries
  /\ Goto(r, "writing")
  /\ UNCHANGED <<vm, manifest, ctx, made>>

Edited(r) ==
  [ctx[r].copy EXCEPT ![ctx[r].hash] = IF Forgetting(r) THEN None ELSE NameOf[r]]

WriteRegistry(r) ==
  /\ pc[r] = "writing"
  /\ reg' = Edited(r)
  /\ IF Forgetting(r)
       THEN /\ ctx' = [ctx EXCEPT ![r].mode = "created-incomplete", ![r].copy = NoEntries]
            /\ Goto(r, "sweeping")
            /\ UNCHANGED made
       ELSE /\ Ends(r)
            /\ made' = [made EXCEPT ![ctx[r].hash] = ctx[r].vm]
  /\ UNCHANGED <<vm, manifest>>

-----------------------------------------------------------------------------
(* The process is killed; the lab cleans up.                                 *)

Crash(r) ==
  /\ pc[r] # "idle"
  /\ Ends(r)
  /\ UNCHANGED <<vm, reg, manifest, made>>

\* External: somebody removes a powered-off VM from the shared Prism Central.
LabSweep ==
  /\ \E v \in VM : vm[v].state = "off" /\ Delete({v})
  /\ UNCHANGED <<reg, manifest, pc, ctx, made>>

RunStep(r) ==
  \/ \E h \in Asks[r] : Decide(r, h)
  \/ SweepFirst(r) \/ Create(r) \/ CreateFails(r) \/ Clone(r) \/ CloneFails(r) \/ Test(r)
  \/ FinishClaim(r) \/ FinishIncomplete(r) \/ FinishDrifted(r) \/ FinishCreated(r)
  \/ FreezeBegins(r) \/ FreezeRecords(r) \/ FreezePowersOff(r) \/ FreezeFails(r)
  \/ ReadRegistry(r) \/ TruncateRegistry(r) \/ WriteRegistry(r)
  \/ Crash(r)

Next == LabSweep \/ \E r \in Run : RunStep(r)

Spec == Init /\ [][Next]_vars

-----------------------------------------------------------------------------
(* Properties.                                                              *)

\* "A template's registry key promises its content": a clone made for a change-set
\* starts as a cluster built from that change-set.
ClonedContent ==
  [][\A r \in Run :
        pc[r] = "cloning" /\ pc'[r] = "testing" /\ SameName(r) = {}
        => vm'[ctx'[r].vm].content = ctx[r].hash]_vars

\* A registered name whose manifest lists a VM names a cluster of the key's
\* content, never a half-built or an upgraded one, in whatever order failed
\* freezes, lost registry updates, rebuilds and crashes came.
RegisteredContent ==
  \A h \in Hash : reg[h] # None /\ Frozen(reg[h]) => vm[manifest[reg[h]]].content = h

\* The names a run gives, and deletes by.
Names(r) == {NameOf[r], CloneOf[r]}

\* The cluster that a run tests is touched by no sweep, freeze, claim or test of another
\* run, unless the cluster's name begins with a name of that run.
LiveClusterSurvives ==
  [][\A r \in Run : LET mine == ctx[r].vm IN
        pc[r] = "testing" /\ pc'[r] = "testing" /\ vm[mine].state = "on" /\ vm'[mine] # vm[mine]
        => \E s \in Run \ {r} : /\ pc'[s] # pc[s]
                               /\ \E p \in Names(s) : <<vm[mine].name, p>> \in Begins]_vars

\* Two runs have one cluster only if one gives its clone a name of the other.
HasCluster(r) == pc[r] \in {"testing", "finishing"} /\ ctx[r].vm # None
ClonesAreOwn ==
  \A r, s \in Run : r # s /\ HasCluster(r) /\ HasCluster(s) /\ ctx[r].vm = ctx[s].vm
                    => CloneOf[r] \in Names(s) \/ CloneOf[s] \in Names(r)

\* "Clones keep their unique VM names (safe for concurrent claims)" (steps.py:4735), and so
\* no run touches the cluster that another one tests.  Neither holds of the repository's
\* own scenarios.
ClonesAreUnique ==
  \A r, s \in Run : r # s /\ HasCluster(r) /\ HasCluster(s) => ctx[r].vm # ctx[s].vm
TestedIsUntouched ==
  [][\A r \in Run : pc[r] = "testing" /\ pc'[r] = "testing" => vm'[ctx[r].vm] = vm[ctx[r].vm]]_vars

\* The promise of the registry key, of what no fingerprint shows.  It does not hold.
RegisteredIsUntouched ==
  \A h \in Hash : reg[h] # None /\ Frozen(reg[h]) => ~vm[manifest[reg[h]]].touched

\* The content of a claim, whether its VM is new or reused.  It does not hold.
ReusedContent ==
  [][\A r \in Run : pc[r] = "cloning" /\ pc'[r] = "testing"
                    => vm'[ctx'[r].vm].content = ctx[r].hash]_vars

\* "NEVER delete a frozen template's VMs" (sweep): as long as a change-set is
\* registered, no run deletes the VM that was frozen and registered for it.
TemplateSurvives ==
  [][\A h \in Hash :
        /\ reg[h] # None /\ made[h] # None /\ pc' # pc
        /\ vm[made[h]].state = "off"
        => vm'[made[h]].state = "off"]_vars

\* finish_cluster freezes and registers "so this create is the last one this
\* change-set ever pays for": while its VM exists, a change-set that was
\* registered stays registered, once no run is writing the registry.
RegistrationSticks ==
  (\A r \in Run : pc[r] \notin {"truncating", "writing"}) =>
    \A h \in Hash : made[h] # None /\ vm[made[h]].state = "off" => reg[h] # None

\* "A template is the VMs, not the manifest; check the PC before deciding to claim"
\* (_template_missing_vms): a run does not decide to claim what lists no VMs.
ClaimedListsItsVMs ==
  [][\A r \in Run : pc[r] = "idle" /\ pc'[r] = "cloning" =>
        manifest[ctx'[r].template] # "stub"]_vars
=============================================================================
