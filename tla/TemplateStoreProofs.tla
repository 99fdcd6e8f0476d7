-------------------------- MODULE TemplateStoreProofs --------------------------
(* The template store for any number of runs, VMs, names and change-sets: what *)
(* a template promises is what a claim gets, and no run touches the cluster of *)
(* another one unless the cluster's name runs into that run's.                 *)
(* And the images of one's own in what was claimed, for any number of images   *)
(* and of runs of the tool: what is recorded is what runs, and a revert leaves *)
(* nothing behind.                                                             *)
EXTENDS TemplateStore, Overrides, TLAPS

-----------------------------------------------------------------------------
(* What the code takes the names for.                                       *)

\* The runs of one cluster name ask for one change-set: a manifest is kept per name, an
\* entry of the registry per change-set.
OneHashPerName ==
  \A r, s \in Run : NameOf[r] = NameOf[s] => \A h \in Asks[r], g \in Asks[s] : h = g

\* A clone is never named as a cluster that is built.
ClonesAreNamed == \A r, s \in Run : CloneOf[r] # NameOf[s]

-----------------------------------------------------------------------------
(* The inductive invariant, part by part.                                   *)

\* Name n is that of a scenario that is run with change-set h.
Promised(n, h) == \E s \in Run : n = NameOf[s] /\ h \in Asks[s]
Promises(entries) == \A h \in Hash : entries[h] # None => Promised(entries[h], h)

\* The registry, and what has been read of it, promise only that.
RegistryPromises ==
  /\ Promises(reg)
  /\ \A r \in Run : /\ Promises(ctx[r].copy)
                    /\ Mode(r) = "claimed" => Promised(ctx[r].template, ctx[r].hash)

\* What a run knows where.
Outside == {"idle"}
Freezes == {"freezing", "recording", "poweringOff", "registering"}
Edits == {"truncating", "writing"}
Knows(r) ==
  /\ pc[r] \in Outside => ctx[r] = NewContext
  /\ pc[r] \notin Outside => ctx[r].hash \in Asks[r]
  /\ pc[r] = "forgetting" => Mode(r) = "unset"
  /\ pc[r] \in {"sweeping", "creating"} => Mode(r) = "created-incomplete"
  /\ pc[r] = "cloning" => Mode(r) = "claimed"
  /\ pc[r] = "testing" => Mode(r) \in {"claimed", "created"} /\ ctx[r].vm # None
  /\ pc[r] \in Freezes => Mode(r) = "created"
  /\ pc[r] \in Edits => Mode(r) \in {"created", "unset"}
  /\ Mode(r) = "unset" => ctx[r].vm = None
  /\ Mode(r) = "created" => ctx[r].vm # None /\ (ctx[r].born \/ Unreadable)
RunsKnow == \A r \in Run : Knows(r)

\* The cluster of a run has the run's name; it is nobody else's, unless both have
\* claimed it.
HasIts(r) ==
  ctx[r].vm # None =>
    /\ vm[ctx[r].vm].state # "unused"
    /\ vm[ctx[r].vm].name = IF Mode(r) = "claimed" THEN CloneOf[r] ELSE NameOf[r]
ClustersNamed == \A r \in Run : HasIts(r)
OneHolder ==
  \A r, s \in Run :
    r # s /\ ctx[r].vm # None /\ ctx[r].vm = ctx[s].vm => Mode(r) = "claimed"

\* What goes to the freeze has the content it was built with.
AsBuilt(r) ==
  Mode(r) = "created" =>
    vm[ctx[r].vm].content = ctx[r].hash
      \/ (vm[ctx[r].vm].content = "upgraded" /\ pc[r] \in {"testing", "finishing"})
FrozenAsBuilt == \A r \in Run : AsBuilt(r)

\* A manifest lists a cluster of its name, with the change-set of that name; a run that
\* still has it is past its last change.
ManifestsList ==
  \A n \in Name : manifest[n] \in VM =>
    /\ vm[manifest[n]].state # "unused" /\ vm[manifest[n]].name = n
    /\ Promised(n, vm[manifest[n]].content)
    /\ \A r \in Run : ctx[r].vm = manifest[n] =>
         pc[r] \in {"poweringOff", "registering"} \cup Edits

\* What holds under any names, and what needs ClonesAreNamed and fingerprints that are
\* read.
StoreInv == TypeOK /\ RegistryPromises /\ RunsKnow /\ ClustersNamed
IInv == StoreInv /\ OneHolder /\ FrozenAsBuilt /\ ManifestsList

\* One of two runs that have one cluster has claimed it, under any names.
OneClaims ==
  \A r, s \in Run :
    r # s /\ ctx[r].vm # None /\ ctx[r].vm = ctx[s].vm => "claimed" \in {Mode(r), Mode(s)}

-----------------------------------------------------------------------------
(* Types, and who writes what.                                              *)

Machines == [state : {"unused", "on", "off", "gone"}, name : Name \cup {None},
             content : Contents, touched : BOOLEAN]
Registries == [Hash -> Name \cup {None}]
Contexts == [mode : {"unset", "claimed", "created-incomplete", "created"},
             hash : Hash \cup {None}, template : Name \cup {None},
             vm : VM \cup {None}, born : BOOLEAN, copy : Registries]

LEMMA Types ==
  TypeOK <=> /\ vm \in [VM -> Machines] /\ reg \in Registries
             /\ manifest \in [Name -> VM \cup {None, "stub"}]
             /\ pc \in [Run -> Places] /\ ctx \in [Run -> Contexts]
             /\ made \in [Hash -> VM \cup {None}]
BY DEF TypeOK, Machines, Contexts, Registries

\* A context at the beginning of a run, and where runs are.
LEMMA NewTypes ==
  /\ NoEntries \in Registries /\ NewContext \in Contexts /\ NewContext.vm = None
  /\ NewContext.mode = "unset" /\ NewContext.copy = NoEntries
  /\ NoEntries = [h \in Hash |-> None]
<1>1. NoEntries \in [Hash -> Name \cup {None}]
  BY DEF NoEntries
<1>2. QED
  BY <1>1 DEF NoEntries, Registries, NewContext, Contexts

LEMMA ForgotTypes ==
  ASSUME NEW c \in Contexts
  PROVE  /\ [c EXCEPT !.mode = "created-incomplete", !.copy = NoEntries] \in Contexts
         /\ [c EXCEPT !.mode = "created-incomplete"] \in Contexts
<1>1. NoEntries \in Registries
  BY NewTypes
<1>2. QED
  BY <1>1 DEF Contexts

\* What a step may do to a VM: those that are there keep their names, and only the
\* scenario that runs on one changes its content; a new one was unused.
VmKept(v) ==
  vm[v].state # "unused" =>
    /\ vm'[v].state # "unused" /\ vm'[v].name = vm[v].name
    /\ vm'[v].content = vm[v].content
         \/ \E r \in Run : pc[r] = "testing" /\ ctx[r].vm = v /\ vm'[v].content = "upgraded"

LEMMA DeleteKeeps ==
  ASSUME vm \in [VM -> Machines], NEW D, Delete(D)
  PROVE  /\ vm' \in [VM -> Machines]
         /\ \A v \in VM : VmKept(v) /\ (v \notin D => vm'[v] = vm[v])
BY DEF Delete, Machines, VmKept

LEMMA BootKeeps ==
  ASSUME vm \in [VM -> Machines], NEW v \in VM, NEW n \in Name, NEW c \in Contents,
         NEW t \in BOOLEAN, Boot(v, n, c, t)
  PROVE  /\ vm' \in [VM -> Machines] /\ \A u \in VM : VmKept(u)
         /\ \A u \in VM \ {v} : vm'[u] = vm[u]
         /\ vm[v].state = "unused"
         /\ vm'[v] = [state |-> "on", name |-> n, content |-> c, touched |-> t]
BY DEF Boot, Machines, VmKept

LEMMA PowerKeeps ==
  ASSUME vm \in [VM -> Machines], NEW v \in VM, NEW st \in {"on", "off"},
         vm' = [vm EXCEPT ![v].state = st], vm[v].state # "unused"
  PROVE  /\ vm' \in [VM -> Machines] /\ \A u \in VM : VmKept(u)
         /\ \A u \in VM \ {v} : vm'[u] = vm[u]
         /\ vm'[v].state = st
BY DEF Machines, VmKept

\* Which of the VMs a step touches.
TouchesVm(r) ==
  \/ UNCHANGED vm
  \/ Sweep(NameOf[r]) \/ Sweep(CloneOf[r])
  \/ \E D \in SUBSET (Leftovers(NameOf[r]) \cup {ctx[r].vm}) : FinishDrifted(r) /\ Delete(D)
  \/ \E v \in VM, c \in Contents :
        /\ Boot(v, NameOf[r], c, FALSE) /\ ctx'[r].vm = v /\ pc[r] = "creating"
        /\ \/ c = ctx[r].hash /\ Create(r)
           \/ c = "half" /\ CreateFails(r)
  \/ \E v \in VM : /\ Clone(r) /\ ctx'[r].vm = v /\ SameName(r) = {}
                    /\ Boot(v, CloneOf[r], vm[CloneSource(r)].content, vm[CloneSource(r)].touched)
  \/ \E v \in SameName(r) :
        Clone(r) /\ ctx'[r].vm = v /\ vm' = [vm EXCEPT ![v].state = "on"]
  \/ /\ Test(r) /\ pc[r] = "testing" /\ vm[ctx[r].vm].state = "on"
     /\ \E c \in {"upgraded", vm[ctx[r].vm].content}, t \in {Unseen, vm[ctx[r].vm].touched} :
           vm' = [vm EXCEPT ![ctx[r].vm].content = c, ![ctx[r].vm].touched = t]
  \/ pc[r] = "poweringOff" /\ IsUp(r) /\ PowerOff(ctx[r].vm)

LEMMA Touches ==
  ASSUME TypeOK, NEW r \in Run, RunStep(r)
  PROVE  TouchesVm(r)
<1> USE Types DEF TouchesVm
<1>1. CASE SweepFirst(r) \/ FinishClaim(r)
  BY <1>1 DEF SweepFirst, FinishClaim
<1>2. CASE Create(r)
  <2>1. PICK v \in VM, born \in (IF Unreadable THEN BOOLEAN ELSE {TRUE}) :
          /\ Boot(v, NameOf[r], ctx[r].hash, FALSE)
          /\ ctx' = [ctx EXCEPT ![r].mode = "created", ![r].vm = v, ![r].born = born]
    BY <1>2 DEF Create
  <2>2. ctx'[r].vm = v /\ ctx[r].hash \in Contents /\ pc[r] = "creating"
    BY <1>2, <2>1 DEF Contexts, Contents, Create
  <2>3. QED
    BY <1>2, <2>1, <2>2
<1>3. CASE CreateFails(r)
  <2>1. CASE UNCHANGED <<vm, ctx>>
    BY <2>1
  <2>2. CASE \E v \in VM : Boot(v, NameOf[r], "half", FALSE) /\ ctx' = [ctx EXCEPT ![r].vm = v]
    <3>1. PICK v \in VM : Boot(v, NameOf[r], "half", FALSE) /\ ctx' = [ctx EXCEPT ![r].vm = v]
      BY <2>2
    <3>2. ctx'[r].vm = v /\ "half" \in Contents /\ pc[r] = "creating"
      BY <1>3, <3>1 DEF Contexts, Contents, CreateFails
    <3>3. QED
      BY <1>3, <3>1, <3>2
  <2>3. QED
    BY <1>3, <2>1, <2>2 DEF CreateFails
<1>4. CASE Clone(r)
  <2>1. PICK v \in VM :
          /\ IF SameName(r) # {}
               THEN v \in SameName(r) /\ vm' = [vm EXCEPT ![v].state = "on"]
               ELSE Boot(v, CloneOf[r], vm[CloneSource(r)].content, vm[CloneSource(r)].touched)
          /\ ctx' = [ctx EXCEPT ![r].vm = v]
    BY <1>4 DEF Clone
  <2>2. ctx'[r].vm = v
    BY <2>1 DEF Contexts
  <2>3. QED
    BY <1>4, <2>1, <2>2
<1>5. CASE Test(r)
  BY <1>5 DEF Test
<1>6. CASE FinishDrifted(r)
  BY <1>6 DEF FinishDrifted
<1>7. CASE FreezePowersOff(r) \/ FreezeFails(r)
  BY <1>7 DEF FreezePowersOff, FreezeFails
<1>8. CASE FinishIncomplete(r) \/ FinishCreated(r) \/ FreezeBegins(r) \/ FreezeRecords(r)
           \/ CloneFails(r) \/ ReadRegistry(r) \/ TruncateRegistry(r) \/ WriteRegistry(r)
           \/ Crash(r)
  BY <1>8 DEF FinishIncomplete, FinishCreated, FreezeBegins, FreezeRecords, CloneFails,
     ReadRegistry, TruncateRegistry, WriteRegistry, Crash
<1>9. CASE \E h \in Asks[r] : Decide(r, h)
  BY <1>9 DEF Decide
<1>10. QED
  BY <1>1, <1>2, <1>3, <1>4, <1>5, <1>6, <1>7, <1>8, <1>9 DEF RunStep

\* So it keeps them.
LEMMA VmStep ==
  ASSUME TypeOK, RunsKnow, Next
  PROVE  vm' \in [VM -> Machines] /\ \A v \in VM : VmKept(v)
<1> USE Types, StoreAssumption
<1>1. CASE LabSweep
  BY <1>1, DeleteKeeps DEF LabSweep
<1>2. ASSUME NEW r \in Run, RunStep(r)
      PROVE  vm' \in [VM -> Machines] /\ \A v \in VM : VmKept(v)
  <2>1. TouchesVm(r)
    BY <1>2, Touches
  <2>2. CASE UNCHANGED vm
    BY <2>2 DEF VmKept
  <2>3. CASE Sweep(NameOf[r]) \/ Sweep(CloneOf[r])
    BY <2>3, DeleteKeeps DEF Sweep
  <2>4. ASSUME NEW D, Delete(D) PROVE vm' \in [VM -> Machines] /\ \A v \in VM : VmKept(v)
    BY <2>4, DeleteKeeps
  <2>5. ASSUME NEW v \in VM, NEW c \in Contents, Boot(v, NameOf[r], c, FALSE)
        PROVE  vm' \in [VM -> Machines] /\ \A u \in VM : VmKept(u)
    BY <2>5, BootKeeps
  <2>6. ASSUME NEW v \in VM, Clone(r), Boot(v, CloneOf[r], vm[CloneSource(r)].content, vm[CloneSource(r)].touched)
        PROVE  vm' \in [VM -> Machines] /\ \A u \in VM : VmKept(u)
    <3>1. CloneSource(r) \in VM
      BY <2>6 DEF Clone, Claimable, CloneSource, Frozen
    <3>2. vm[CloneSource(r)].content \in Contents /\ vm[CloneSource(r)].touched \in BOOLEAN
      BY <3>1 DEF Machines
    <3>3. CloneOf[r] \in Name
      OBVIOUS
    <3> DEFINE c == vm[CloneSource(r)].content
               t == vm[CloneSource(r)].touched
    <3>4. c \in Contents /\ t \in BOOLEAN /\ Boot(v, CloneOf[r], c, t)
      BY <2>6, <3>2
    <3> HIDE DEF c, t
    <3>5. vm \in [VM -> Machines]
      OBVIOUS
    <3>6. QED
      BY ONLY <2>6, <3>3, <3>4, <3>5, BootKeeps
  <2>7. ASSUME NEW v \in SameName(r), vm' = [vm EXCEPT ![v].state = "on"]
        PROVE  vm' \in [VM -> Machines] /\ \A u \in VM : VmKept(u)
    <3>1. v \in VM /\ vm[v].state # "unused"
      BY DEF SameName, Exists
    <3>2. QED
      BY <2>7, <3>1, PowerKeeps
  <2>8. CASE /\ pc[r] = "testing" /\ vm[ctx[r].vm].state = "on"
             /\ \E c \in {"upgraded", vm[ctx[r].vm].content}, t \in {Unseen, vm[ctx[r].vm].touched} :
                   vm' = [vm EXCEPT ![ctx[r].vm].content = c, ![ctx[r].vm].touched = t]
    <3>1. ctx[r].vm \in VM
      BY <2>8 DEF RunsKnow, Knows, Contexts
    <3>2. PICK c \in {"upgraded", vm[ctx[r].vm].content}, t \in {Unseen, vm[ctx[r].vm].touched} :
             vm' = [vm EXCEPT ![ctx[r].vm].content = c, ![ctx[r].vm].touched = t]
      BY <2>8
    <3>3. c \in Contents /\ t \in BOOLEAN
      BY <3>1 DEF Machines, Contents
    <3>4. vm' \in [VM -> Machines]
      <4>1. [[vm[ctx[r].vm] EXCEPT !.content = c] EXCEPT !.touched = t] \in Machines
        <5>1. vm[ctx[r].vm] \in Machines
          BY <3>1
        <5> DEFINE m == vm[ctx[r].vm]
        <5> HIDE DEF m
        <5>2. ASSUME m \in Machines PROVE [[m EXCEPT !.content = c] EXCEPT !.touched = t] \in Machines
          BY ONLY <3>3, <5>2 DEF Machines
        <5>3. QED
          BY <5>1, <5>2 DEF m
      <4>2. vm' = [vm EXCEPT ![ctx[r].vm] = [[@ EXCEPT !.content = c] EXCEPT !.touched = t]]
        BY <3>1, <3>2
      <4>3. QED
        BY <3>1, <4>1, <4>2
    <3>5. /\ vm'[ctx[r].vm].state = "on" /\ vm'[ctx[r].vm].name = vm[ctx[r].vm].name
          /\ vm'[ctx[r].vm].content = c /\ \A u \in VM \ {ctx[r].vm} : vm'[u] = vm[u]
      BY <2>8, <3>1, <3>2 DEF Machines
    <3>6. QED
      BY <2>8, <3>4, <3>5 DEF VmKept
  <2>9. CASE pc[r] = "poweringOff" /\ IsUp(r) /\ PowerOff(ctx[r].vm)
    <3>1. ctx[r].vm \in VM
      BY <2>9 DEF RunsKnow, Knows, Freezes, Contexts
    <3>2. QED
      BY <2>9, <3>1, PowerKeeps DEF IsUp, PowerOff
  <2>10. QED
    BY <2>1, <2>2, <2>3, <2>4, <2>5, <2>6, <2>7, <2>8, <2>9 DEF TouchesVm
<1>3. QED
  BY <1>1, <1>2 DEF Next

\* A run's memory, before and after a step: c and d.
Chooses(r, d) ==
  \E h \in Asks[r] :
    \/ /\ pc'[r] = "cloning" /\ reg[h] # None
       /\ d = [NewContext EXCEPT !.mode = "claimed", !.hash = h, !.template = reg[h]]
    \/ pc'[r] = "forgetting" /\ d = [NewContext EXCEPT !.hash = h]
    \/ /\ pc'[r] = "sweeping"
       /\ d = [NewContext EXCEPT !.mode = "created-incomplete", !.hash = h]
Creates(r, c, d) ==
  \E v \in VM, born \in (IF Unreadable THEN BOOLEAN ELSE {TRUE}) :
    d = [c EXCEPT !.mode = "created", !.vm = v, !.born = born]
Gets(r, c, d) == \E v \in VM : d = [c EXCEPT !.vm = v]
Forgot(r, c, d) == d = [c EXCEPT !.mode = "created-incomplete", !.copy = NoEntries]
Remembers(r, c, d) ==
  \/ pc[r] = "idle" /\ Chooses(r, d)
  \/ Create(r) /\ pc[r] = "creating" /\ pc'[r] \in {"testing", "finishing"} /\ Creates(r, c, d)
  \/ CreateFails(r) /\ pc[r] = "creating" /\ pc'[r] = "finishing" /\ (d = c \/ Gets(r, c, d))
  \/ Clone(r) /\ pc[r] = "cloning" /\ pc'[r] \in {"testing", "finishing"} /\ Gets(r, c, d)
  \/ /\ pc[r] \in {"forgetting", "registering"} /\ pc'[r] = "truncating"
     /\ d = [c EXCEPT !.copy = reg]
  \/ /\ pc[r] \in {"forgetting", "registering"} /\ pc'[r] = "sweeping" /\ c.mode = "unset"
     /\ d = [c EXCEPT !.mode = "created-incomplete"]
  \/ pc[r] = "writing" /\ pc'[r] = "sweeping" /\ c.mode = "unset" /\ Forgot(r, c, d)
  \/ pc[r] # "idle" /\ pc'[r] = "idle" /\ d = NewContext
  \/ /\ d = c
     /\ <<pc[r], pc'[r]>> \in
          {<<"sweeping", "creating">>, <<"cloning", "finishing">>, <<"testing", "finishing">>,
           <<"freezing", "recording">>, <<"recording", "poweringOff">>,
           <<"poweringOff", "registering">>, <<"truncating", "writing">>}
  \/ d = c /\ pc[r] = "finishing" /\ pc'[r] = "freezing" /\ FinishCreated(r)

LEMMA Memory ==
  ASSUME TypeOK, NEW r \in Run, RunStep(r)
  PROVE  /\ ctx' = [ctx EXCEPT ![r] = ctx'[r]] /\ pc' = [pc EXCEPT ![r] = pc'[r]]
         /\ pc'[r] \in Places /\ Remembers(r, ctx[r], ctx'[r])
<1> USE Types DEF Goto, Ends, Places, Remembers
<1>1. CASE FinishClaim(r) \/ FinishIncomplete(r) \/ FinishDrifted(r) \/ FreezeFails(r) \/ Crash(r)
  BY <1>1 DEF FinishClaim, FinishIncomplete, FinishDrifted, FreezeFails, Crash
<1>2. CASE \E h \in Asks[r] : Decide(r, h)
  BY <1>2 DEF Decide, Chooses
<1>3. CASE SweepFirst(r) \/ CloneFails(r) \/ Test(r) \/ TruncateRegistry(r)
  BY <1>3 DEF SweepFirst, CloneFails, Test, TruncateRegistry
<1>4. CASE FreezeBegins(r) \/ FreezeRecords(r) \/ FreezePowersOff(r) \/ FinishCreated(r)
  BY <1>4 DEF FreezeBegins, FreezeRecords, FreezePowersOff, FinishCreated
<1>5. CASE Create(r)
  <2>1. PICK v \in VM, born \in (IF Unreadable THEN BOOLEAN ELSE {TRUE}) :
          ctx' = [ctx EXCEPT ![r].mode = "created", ![r].vm = v, ![r].born = born]
    BY <1>5 DEF Create
  <2>2. ctx'[r] = [ctx[r] EXCEPT !.mode = "created", !.vm = v, !.born = born]
    BY <2>1
  <2>3. ctx' = [ctx EXCEPT ![r] = ctx'[r]]
    BY <2>1, <2>2
  <2>4. Creates(r, ctx[r], ctx'[r])
    BY <2>2 DEF Creates
  <2>5. QED
    BY <1>5, <2>3, <2>4 DEF Create
<1>6. CASE CreateFails(r)
  BY <1>6 DEF CreateFails, Gets
<1>7. CASE Clone(r)
  BY <1>7 DEF Clone, Gets
<1>8. CASE ReadRegistry(r)
  BY <1>8 DEF ReadRegistry, Forgetting, Mode
<1>9. CASE WriteRegistry(r)
  <2>1. CASE Forgetting(r)
    <3>1. ctx' = [ctx EXCEPT ![r].mode = "created-incomplete", ![r].copy = NoEntries]
      BY <1>9, <2>1 DEF WriteRegistry
    <3>2. Forgot(r, ctx[r], ctx'[r])
      BY <3>1 DEF Forgot
    <3>3. ctx' = [ctx EXCEPT ![r] = ctx'[r]]
      BY <3>1
    <3>4. QED
      BY <1>9, <2>1, <3>2, <3>3 DEF WriteRegistry, Forgetting, Mode
  <2>2. CASE ~Forgetting(r)
    BY <1>9, <2>2 DEF WriteRegistry
  <2>3. QED
    BY <2>1, <2>2
<1>10. QED
  BY <1>1, <1>2, <1>3, <1>4, <1>5, <1>6, <1>7, <1>8, <1>9 DEF RunStep

\* A run leaves the others where they are.
LEMMA OthersStay ==
  ASSUME TypeOK, NEW r \in Run, RunStep(r)
  PROVE  \A s \in Run \ {r} : pc'[s] = pc[s] /\ ctx'[s] = ctx[s]
<1>1. ctx' = [ctx EXCEPT ![r] = ctx'[r]] /\ pc' = [pc EXCEPT ![r] = pc'[r]]
  BY Memory
<1>2. QED
  BY <1>1, Types

-----------------------------------------------------------------------------
(* What a run knows.                                                        *)

LEMMA KnowsOne ==
  ASSUME TypeOK, NEW r \in Run, Knows(r), RunStep(r)
  PROVE  Knows(r)'
<1> USE Types, NewTypes, StoreAssumption DEF Knows, Mode, Outside, Freezes, Edits
<1> DEFINE c == ctx[r]
           d == ctx'[r]
<1>1. c \in Contexts /\ Remembers(r, c, d)
  BY Memory
<1>2. CASE pc[r] = "idle" /\ Chooses(r, d)
  <2>1. PICK h \in Asks[r] :
          \/ /\ pc'[r] = "cloning"
             /\ d = [NewContext EXCEPT !.mode = "claimed", !.hash = h, !.template = reg[h]]
          \/ pc'[r] = "forgetting" /\ d = [NewContext EXCEPT !.hash = h]
          \/ /\ pc'[r] = "sweeping"
             /\ d = [NewContext EXCEPT !.mode = "created-incomplete", !.hash = h]
    BY <1>2 DEF Chooses
  <2>2. /\ d.hash = h /\ d.vm = None
        /\ \/ pc'[r] = "cloning" /\ d.mode = "claimed"
           \/ pc'[r] = "forgetting" /\ d.mode = "unset"
           \/ pc'[r] = "sweeping" /\ d.mode = "created-incomplete"
    BY <2>1 DEF NewContext
  <2>3. QED
    BY <2>2
<1>3. CASE pc[r] = "creating" /\ pc'[r] \in {"testing", "finishing"} /\ Creates(r, c, d)
  <2>1. PICK v \in VM, born \in (IF Unreadable THEN BOOLEAN ELSE {TRUE}) :
          d = [c EXCEPT !.mode = "created", !.vm = v, !.born = born]
    BY <1>3 DEF Creates
  <2>2. /\ d.mode = "created" /\ d.vm = v /\ d.hash = c.hash
        /\ d.born \/ Unreadable
    BY <1>1, <2>1 DEF Contexts
  <2>3. QED
    BY <1>3, <2>2
<1>4. CASE /\ Gets(r, c, d)
           /\ \/ pc[r] = "creating" /\ pc'[r] = "finishing"
              \/ pc[r] = "cloning" /\ pc'[r] \in {"testing", "finishing"}
  <2>1. PICK v \in VM : d = [c EXCEPT !.vm = v]
    BY <1>4 DEF Gets
  <2>2. d.vm = v /\ d.mode = c.mode /\ d.born = c.born /\ d.hash = c.hash
    BY <1>1, <2>1 DEF Contexts
  <2>3. QED
    BY <1>4, <2>2
<1>5. CASE /\ pc[r] \in {"forgetting", "registering"} /\ pc'[r] = "truncating"
           /\ d = [c EXCEPT !.copy = reg]
  <2>1. d.vm = c.vm /\ d.mode = c.mode /\ d.born = c.born /\ d.hash = c.hash
    BY <1>1, <1>5 DEF Contexts
  <2>2. QED
    BY <1>5, <2>1
<1>6. CASE /\ pc[r] \in {"forgetting", "registering", "writing"} /\ pc'[r] = "sweeping"
           /\ c.mode = "unset"
           /\ d = [c EXCEPT !.mode = "created-incomplete"] \/ Forgot(r, c, d)
  <2>1. d.vm = c.vm /\ d.mode = "created-incomplete" /\ d.hash = c.hash
    BY <1>1, <1>6 DEF Contexts, Forgot
  <2>2. QED
    BY <1>6, <2>1
<1>7. CASE pc'[r] = "idle" /\ d = NewContext
  BY <1>7
<1>8. CASE d = c /\ pc[r] = "finishing" /\ pc'[r] = "freezing" /\ FinishCreated(r)
  BY <1>8 DEF FinishCreated
<1>9. CASE pc[r] = "creating" /\ pc'[r] = "finishing" /\ d = c
  BY <1>9
<1>10. CASE /\ d = c
            /\ <<pc[r], pc'[r]>> \in
                 {<<"sweeping", "creating">>, <<"cloning", "finishing">>,
                  <<"testing", "finishing">>, <<"freezing", "recording">>,
                  <<"recording", "poweringOff">>, <<"poweringOff", "registering">>,
                  <<"truncating", "writing">>}
  BY <1>10
<1>11. QED
  BY <1>1, <1>2, <1>3, <1>4, <1>5, <1>6, <1>7, <1>8, <1>9, <1>10 DEF Remembers

LEMMA KnowStep ==
  ASSUME TypeOK, RunsKnow, Next
  PROVE  RunsKnow'
<1>1. CASE LabSweep
  BY <1>1 DEF LabSweep, RunsKnow, Knows, Mode
<1>2. ASSUME NEW r \in Run, RunStep(r), NEW s \in Run PROVE Knows(s)'
  <2>1. CASE s = r
    BY <1>2, <2>1, KnowsOne DEF RunsKnow
  <2>2. CASE s # r
    BY <1>2, <2>2, OthersStay DEF RunsKnow, Knows, Mode
  <2>3. QED
    BY <2>1, <2>2
<1>3. QED
  BY <1>1, <1>2 DEF Next, RunsKnow

LEMMA CtxTypesStep ==
  ASSUME TypeOK, Next
  PROVE  ctx' \in [Run -> Contexts] /\ pc' \in [Run -> Places]
<1> USE Types, NewTypes, StoreAssumption
<1>1. CASE LabSweep
  BY <1>1 DEF LabSweep
<1>2. ASSUME NEW r \in Run, RunStep(r)
      PROVE  ctx' \in [Run -> Contexts] /\ pc' \in [Run -> Places]
  <2> DEFINE c == ctx[r]
             d == ctx'[r]
  <2>1. /\ ctx' = [ctx EXCEPT ![r] = d] /\ pc' = [pc EXCEPT ![r] = pc'[r]]
        /\ pc'[r] \in Places /\ Remembers(r, c, d)
    BY <1>2, Memory
  <2>2. c \in Contexts
    OBVIOUS
  <2>3. ASSUME Chooses(r, d) PROVE d \in Contexts
    <3>1. ASSUME NEW h \in Asks[r]
          PROVE  /\ [NewContext EXCEPT !.mode = "claimed", !.hash = h, !.template = reg[h]]
                       \in Contexts
                 /\ [NewContext EXCEPT !.hash = h] \in Contexts
                 /\ [NewContext EXCEPT !.mode = "created-incomplete", !.hash = h] \in Contexts
      <4>1. h \in Hash /\ reg[h] \in Name \cup {None}
        BY DEF Registries
      <4>2. QED
        BY <4>1 DEF Contexts
    <3>2. PICK h \in Asks[r] :
            \/ d = [NewContext EXCEPT !.mode = "claimed", !.hash = h, !.template = reg[h]]
            \/ d = [NewContext EXCEPT !.hash = h]
            \/ d = [NewContext EXCEPT !.mode = "created-incomplete", !.hash = h]
      BY <2>3 DEF Chooses
    <3>3. QED
      BY <3>1, <3>2
  <2>4. ASSUME Creates(r, c, d) PROVE d \in Contexts
    <3>1. PICK v \in VM, born \in (IF Unreadable THEN BOOLEAN ELSE {TRUE}) :
            d = [c EXCEPT !.mode = "created", !.vm = v, !.born = born]
      BY <2>4 DEF Creates
    <3>2. born \in BOOLEAN
      OBVIOUS
    <3>3. QED
      BY <2>2, <3>1, <3>2 DEF Contexts
  <2>5. ASSUME Gets(r, c, d) PROVE d \in Contexts
    BY <2>2, <2>5 DEF Gets, Contexts
  <2>6. Forgot(r, c, d) => d \in Contexts
    BY <2>2, ForgotTypes DEF Forgot
  <2>7. d = [c EXCEPT !.copy = reg] => d \in Contexts
    BY <2>2 DEF Contexts
  <2>8. d = [c EXCEPT !.mode = "created-incomplete"] => d \in Contexts
    BY <2>2, ForgotTypes
  <2>9. d \in Contexts
    BY <2>1, <2>2, <2>3, <2>4, <2>5, <2>6, <2>7, <2>8 DEF Remembers
  <2>10. QED
    BY <2>1, <2>9
<1>3. QED
  BY <1>1, <1>2 DEF Next

\* The registry and the manifests are written by three steps each, or two.
LEMMA FileSteps ==
  ASSUME NEW r \in Run, RunStep(r)
  PROVE  /\ UNCHANGED reg \/ TruncateRegistry(r) \/ WriteRegistry(r)
         /\ UNCHANGED made \/ WriteRegistry(r)
         /\ UNCHANGED manifest \/ FreezeBegins(r) \/ FreezeRecords(r)
<1>1. CASE SweepFirst(r) \/ FinishClaim(r) \/ FinishIncomplete(r) \/ FinishDrifted(r)
           \/ FinishCreated(r) \/ CloneFails(r) \/ Test(r) \/ Create(r) \/ CreateFails(r)
           \/ Clone(r) \/ \E h \in Asks[r] : Decide(r, h)
  BY <1>1 DEF SweepFirst, FinishClaim, FinishIncomplete, FinishDrifted, FinishCreated,
     CloneFails, Test, Create, CreateFails, Clone, Decide
<1>2. CASE FreezeBegins(r) \/ FreezeRecords(r) \/ FreezePowersOff(r) \/ FreezeFails(r)
           \/ ReadRegistry(r) \/ TruncateRegistry(r) \/ WriteRegistry(r) \/ Crash(r)
  BY <1>2 DEF FreezeBegins, FreezeRecords, FreezePowersOff, FreezeFails, ReadRegistry,
     TruncateRegistry, WriteRegistry, Crash
<1>3. QED
  BY <1>1, <1>2 DEF RunStep

LEMMA TypeStep ==
  ASSUME TypeOK, RunsKnow, Next
  PROVE  TypeOK'
<1> USE Types, NewTypes, StoreAssumption
<1>1. vm' \in [VM -> Machines]
  BY VmStep
<1>2. ctx' \in [Run -> Contexts] /\ pc' \in [Run -> Places]
  BY CtxTypesStep
<1>3. /\ reg' \in Registries /\ manifest' \in [Name -> VM \cup {None, "stub"}]
      /\ made' \in [Hash -> VM \cup {None}]
  <2>1. CASE LabSweep
    BY <2>1 DEF LabSweep
  <2>2. ASSUME NEW r \in Run, RunStep(r)
        PROVE  /\ reg' \in Registries /\ manifest' \in [Name -> VM \cup {None, "stub"}]
               /\ made' \in [Hash -> VM \cup {None}]
    <3>1. manifest' \in [Name -> VM \cup {None, "stub"}]
      <4>1. /\ manifest \in [Name -> VM \cup {None, "stub"}]
            /\ ctx[r].vm \in VM \cup {None} /\ NameOf[r] \in Name
        BY DEF Contexts
      <4>2. UNCHANGED manifest \/ FreezeBegins(r) \/ FreezeRecords(r)
        BY <2>2, FileSteps
      <4>3. QED
        BY ONLY <4>1, <4>2 DEF FreezeBegins, FreezeRecords
    <3>2. reg' \in Registries
      <4>1. NameOf[r] \in Name
        OBVIOUS
      <4>2. Edited(r) \in Registries
        BY <4>1 DEF Edited, Contexts, Registries
      <4>3. QED
        BY <2>2, <4>2, FileSteps DEF TruncateRegistry, WriteRegistry
    <3>3. made' \in [Hash -> VM \cup {None}]
      <4>1. ctx[r].vm \in VM \cup {None}
        BY DEF Contexts
      <4>2. CASE WriteRegistry(r)
        BY <4>1, <4>2 DEF WriteRegistry
      <4>3. QED
        BY <2>2, <4>2, FileSteps
    <3>4. QED
      BY <3>1, <3>2, <3>3
  <2>3. QED
    BY <2>1, <2>2 DEF Next
<1>4. QED
  BY <1>1, <1>2, <1>3 DEF TypeOK, Machines, Registries, Contexts

-----------------------------------------------------------------------------
(* What the registry promises.                                              *)

LEMMA PromiseStep ==
  ASSUME TypeOK, RunsKnow, RegistryPromises, Next
  PROVE  RegistryPromises'
<1> USE StoreAssumption
<1>1. CASE LabSweep
  BY <1>1 DEF LabSweep, RegistryPromises, Promises, Mode
<1>2. ASSUME NEW r \in Run, RunStep(r) PROVE RegistryPromises'
  <2> DEFINE c == ctx[r]
             d == ctx'[r]
  <2>1. Promises(NoEntries)
    BY NewTypes DEF Promises
  <2>2. Promises(reg')
    <3>1. CASE TruncateRegistry(r)
      BY <2>1, <3>1 DEF TruncateRegistry
    <3>2. CASE WriteRegistry(r)
      <4>1. c.hash \in Asks[r] /\ c.copy \in Registries /\ Promises(c.copy)
        BY <3>2, Types DEF WriteRegistry, RunsKnow, Knows, Outside, Contexts, RegistryPromises
      <4>2. Promised(NameOf[r], c.hash)
        BY <4>1 DEF Promised
      <4>3. reg' = [c.copy EXCEPT ![c.hash] = IF Forgetting(r) THEN None ELSE NameOf[r]]
        BY <3>2 DEF WriteRegistry, Edited
      <4>4. QED
        BY <4>1, <4>2, <4>3 DEF Promises, Registries
    <3>3. QED
      BY <1>2, <3>1, <3>2, FileSteps DEF RegistryPromises
  <2>3. /\ Promises(d.copy)
        /\ d.mode = "claimed" => Promised(d.template, d.hash)
    <3>1. /\ c \in Contexts /\ Remembers(r, c, d) /\ Promises(c.copy) /\ Promises(reg)
          /\ c.mode = "claimed" => Promised(c.template, c.hash)
      BY <1>2, Memory, Types DEF RegistryPromises, Mode
    <3>2. CASE Chooses(r, d)
      <4>1. PICK h \in Asks[r] :
              \/ /\ reg[h] # None
                 /\ d = [NewContext EXCEPT !.mode = "claimed", !.hash = h, !.template = reg[h]]
              \/ d = [NewContext EXCEPT !.hash = h]
              \/ d = [NewContext EXCEPT !.mode = "created-incomplete", !.hash = h]
        BY <3>2 DEF Chooses
      <4>2. d.copy = NoEntries
        BY <4>1 DEF NewContext
      <4>3. d.mode = "claimed" => reg[h] # None /\ d.template = reg[h] /\ d.hash = h
        BY <4>1 DEF NewContext
      <4>4. h \in Hash
        OBVIOUS
      <4>5. QED
        BY <2>1, <3>1, <4>2, <4>3, <4>4 DEF Promises
    <3>3. CASE Creates(r, c, d)
      <4>1. d.copy = c.copy /\ d.mode # "claimed"
        BY <3>1, <3>3 DEF Creates, Contexts
      <4>2. QED
        BY <3>1, <4>1
    <3>4. CASE Gets(r, c, d)
      <4>1. d.copy = c.copy /\ d.mode = c.mode /\ d.template = c.template /\ d.hash = c.hash
        BY <3>1, <3>4 DEF Gets, Contexts
      <4>2. QED
        BY <3>1, <4>1
    <3>5. CASE Forgot(r, c, d)
      <4>1. d.copy = NoEntries /\ d.mode # "claimed"
        BY <3>1, <3>5 DEF Forgot, Contexts
      <4>2. QED
        BY <2>1, <4>1
    <3>6. CASE d = [c EXCEPT !.copy = reg]
      <4>1. d.copy = reg /\ d.mode = c.mode /\ d.template = c.template /\ d.hash = c.hash
        BY <3>1, <3>6 DEF Contexts
      <4>2. QED
        BY <3>1, <4>1
    <3>7. CASE d = [c EXCEPT !.mode = "created-incomplete"]
      <4>1. d.copy = c.copy /\ d.mode # "claimed"
        BY <3>1, <3>7 DEF Contexts
      <4>2. QED
        BY <3>1, <4>1
    <3>8. CASE d = NewContext
      BY <2>1, <3>8, NewTypes
    <3>9. CASE d = c
      BY <3>1, <3>9
    <3>10. QED
      BY <3>1, <3>2, <3>3, <3>4, <3>5, <3>6, <3>7, <3>8, <3>9 DEF Remembers
  <2>4. QED
    BY <1>2, <2>2, <2>3, OthersStay DEF RegistryPromises, Mode
<1>3. QED
  BY <1>1, <1>2 DEF Next

-----------------------------------------------------------------------------
(* Whose cluster is whose.                                                  *)

\* The cluster that a run has after its step: the one it had, or a new one of its name,
\* or a clone.
Acquires(r) ==
  LET v == ctx'[r].vm IN
    \/ v = None
    \/ v = ctx[r].vm /\ (Mode(r)' = "claimed" <=> Mode(r) = "claimed")
         /\ (Mode(r)' = "created" => Mode(r) = "created" /\ ctx'[r].hash = ctx[r].hash)
    \/ /\ v \in VM /\ vm[v].state = "unused"
       /\ vm'[v].state = "on" /\ vm'[v].name = NameOf[r] /\ Mode(r)' # "claimed"
       /\ Mode(r)' = "created" => vm'[v].content = ctx'[r].hash
    \/ /\ v \in VM /\ (vm[v].state = "unused" \/ vm[v].name = CloneOf[r])
       /\ vm'[v].state = "on" /\ vm'[v].name = CloneOf[r] /\ Mode(r)' = "claimed"

LEMMA AcquireStep ==
  ASSUME TypeOK, RunsKnow, NEW r \in Run, RunStep(r)
  PROVE  Acquires(r)
<1> USE StoreAssumption
<1> DEFINE c == ctx[r]
           d == ctx'[r]
<1>1. /\ c \in Contexts /\ vm \in [VM -> Machines] /\ Remembers(r, c, d)
      /\ c.mode = "unset" => c.vm = None
  BY Memory, Types DEF RunsKnow, Knows, Mode
<1>2. CASE Create(r)
  <2>1. PICK v \in VM, born \in (IF Unreadable THEN BOOLEAN ELSE {TRUE}) :
          /\ Boot(v, NameOf[r], c.hash, FALSE)
          /\ ctx' = [ctx EXCEPT ![r].mode = "created", ![r].vm = v, ![r].born = born]
    BY <1>2 DEF Create
  <2>2. d = [c EXCEPT !.mode = "created", !.vm = v, !.born = born]
    BY <2>1, Types
  <2>3. d.vm = v /\ d.mode = "created" /\ d.hash = c.hash
    BY <1>1, <2>2 DEF Contexts
  <2>4. vm[v].state = "unused" /\ vm'[v] = [state |-> "on", name |-> NameOf[r], content |-> c.hash, touched |-> FALSE]
    BY <1>1, <2>1 DEF Boot
  <2>5. QED
    BY <2>3, <2>4 DEF Acquires, Mode
<1>3. CASE CreateFails(r)
  <2>1. CASE UNCHANGED <<vm, ctx>>
    BY <2>1 DEF Acquires, Mode
  <2>2. CASE \E v \in VM : Boot(v, NameOf[r], "half", FALSE) /\ ctx' = [ctx EXCEPT ![r].vm = v]
    <3>1. PICK v \in VM : Boot(v, NameOf[r], "half", FALSE) /\ ctx' = [ctx EXCEPT ![r].vm = v]
      BY <2>2
    <3>2. d.vm = v /\ d.mode = c.mode
      BY <1>1, <3>1, Types DEF Contexts
    <3>3. c.mode = "created-incomplete"
      BY <1>3 DEF CreateFails, RunsKnow, Knows, Mode
    <3>4. vm[v].state = "unused" /\ vm'[v] = [state |-> "on", name |-> NameOf[r], content |-> "half", touched |-> FALSE]
      BY <1>1, <3>1 DEF Boot
    <3>5. QED
      BY <3>2, <3>3, <3>4 DEF Acquires, Mode
  <2>3. QED
    BY <1>3, <2>1, <2>2 DEF CreateFails
<1>4. CASE Clone(r)
  <2>1. PICK v \in VM :
          /\ IF SameName(r) # {}
               THEN v \in SameName(r) /\ vm' = [vm EXCEPT ![v].state = "on"]
               ELSE Boot(v, CloneOf[r], vm[CloneSource(r)].content, vm[CloneSource(r)].touched)
          /\ ctx' = [ctx EXCEPT ![r].vm = v]
    BY <1>4 DEF Clone
  <2>2. d.vm = v /\ d.mode = c.mode
    BY <1>1, <2>1, Types DEF Contexts
  <2>3. c.mode = "claimed"
    BY <1>4 DEF Clone, RunsKnow, Knows, Mode
  <2>4. /\ vm'[v].state = "on" /\ vm'[v].name = CloneOf[r]
        /\ vm[v].state = "unused" \/ vm[v].name = CloneOf[r]
    <3>1. CASE SameName(r) # {}
      BY <1>1, <2>1, <3>1 DEF SameName, Machines
    <3>2. CASE SameName(r) = {}
      BY <1>1, <2>1, <3>2 DEF Boot
    <3>3. QED
      BY <3>1, <3>2
  <2>5. QED
    BY <2>2, <2>3, <2>4 DEF Acquires, Mode
<1>5. CASE ~Create(r) /\ ~CreateFails(r) /\ ~Clone(r)
  <2>1. CASE Chooses(r, d)
    <3>1. d.vm = None
      BY <2>1 DEF Chooses, NewContext
    <3>2. QED
      BY <3>1 DEF Acquires
  <2>2. CASE d = [c EXCEPT !.copy = reg]
    <3>1. d.vm = c.vm /\ d.mode = c.mode /\ d.hash = c.hash
      BY <1>1, <2>2 DEF Contexts
    <3>2. QED
      BY <3>1 DEF Acquires, Mode
  <2>3. CASE c.mode = "unset" /\ (d = [c EXCEPT !.mode = "created-incomplete"] \/ Forgot(r, c, d))
    <3>1. d.vm = None
      BY <1>1, <2>3 DEF Contexts, Forgot
    <3>2. QED
      BY <3>1 DEF Acquires
  <2>4. CASE d = NewContext
    BY <2>4, NewTypes DEF Acquires
  <2>5. CASE d = c
    BY <2>5 DEF Acquires, Mode
  <2>6. QED
    BY <1>1, <1>5, <2>1, <2>2, <2>3, <2>4, <2>5 DEF Remembers
<1>6. QED
  BY <1>2, <1>3, <1>4, <1>5

\* The cluster of a run keeps the run's name.
LEMMA NamedStep ==
  ASSUME TypeOK, RunsKnow, ClustersNamed, Next
  PROVE  ClustersNamed'
<1> USE StoreAssumption
<1>1. /\ \A v \in VM : VmKept(v)
      /\ \A s \in Run : ctx[s].vm \in VM \cup {None} /\ HasIts(s)
  BY VmStep, Types DEF Contexts, ClustersNamed
<1>2. CASE LabSweep
  BY <1>1, <1>2 DEF LabSweep, ClustersNamed, HasIts, VmKept, Mode
<1>3. ASSUME NEW r \in Run, RunStep(r), NEW s \in Run PROVE HasIts(s)'
  <2>1. CASE s # r
    <3>1. ctx'[s] = ctx[s]
      BY <1>3, <2>1, OthersStay
    <3>2. QED
      BY <1>1, <3>1 DEF HasIts, VmKept, Mode
  <2>2. CASE s = r
    <3>1. Acquires(r)
      BY <1>3, AcquireStep
    <3>2. QED
      BY <1>1, <2>2, <3>1 DEF Acquires, HasIts, VmKept, Mode
  <2>3. QED
    BY <2>1, <2>2
<1>4. QED
  BY <1>2, <1>3 DEF Next, ClustersNamed

LEMMA StoreStep ==
  ASSUME StoreInv, [Next]_vars
  PROVE  StoreInv'
<1>1. CASE Next
  BY <1>1, TypeStep, PromiseStep, KnowStep, NamedStep DEF StoreInv
<1>2. CASE UNCHANGED vars
  BY <1>2 DEF vars, StoreInv, TypeOK, RegistryPromises, RunsKnow, Knows, ClustersNamed, HasIts,
     Mode
<1>3. QED
  BY <1>1, <1>2

LEMMA StoreInit ==
  Init => StoreInv
<1> SUFFICES ASSUME Init PROVE StoreInv
  OBVIOUS
<1> USE StoreAssumption, NewTypes
<1>1. TypeOK
  BY Types DEF Init, Machines, Contents, Places
<1>2. RegistryPromises
  BY DEF Init, RegistryPromises, Promises, Mode
<1>3. RunsKnow
  BY DEF Init, RunsKnow, Knows, Outside, Freezes, Edits, Mode
<1>4. ClustersNamed
  BY DEF Init, ClustersNamed, HasIts
<1>5. QED
  BY <1>1, <1>2, <1>3, <1>4 DEF StoreInv

-----------------------------------------------------------------------------
(* What is frozen is as it was built.                                       *)

\* A cluster that is somebody else's is no other run's, unless by a clone's name.
LEMMA HolderStep ==
  ASSUME ClonesAreNamed, StoreInv, OneHolder, Next
  PROVE  OneHolder'
<1> USE StoreAssumption
<1>1. CASE LabSweep
  BY <1>1 DEF LabSweep, OneHolder, Mode
<1>2. ASSUME NEW a \in Run, RunStep(a), NEW r \in Run, NEW s \in Run, r # s,
             ctx'[r].vm # None, ctx'[r].vm = ctx'[s].vm
      PROVE  Mode(r)' = "claimed"
  <2>1. /\ Acquires(a) /\ ctx[r].vm \in VM \cup {None} /\ ctx[s].vm \in VM \cup {None}
        /\ HasIts(r) /\ HasIts(s)
    BY <1>2, AcquireStep, Types DEF Contexts, StoreInv, ClustersNamed
  <2>2. \A q \in Run \ {a} : ctx'[q] = ctx[q]
    BY <1>2, OthersStay DEF StoreInv
  <2>3. CASE r # a /\ s # a
    BY <1>2, <2>2, <2>3 DEF OneHolder, Mode
  <2>4. CASE r = a
    <3>1. ctx'[s] = ctx[s]
      BY <1>2, <2>2, <2>4
    <3>2. CASE ctx'[a].vm = ctx[a].vm /\ (Mode(a)' = "claimed" <=> Mode(a) = "claimed")
      BY <1>2, <2>4, <3>1, <3>2 DEF OneHolder
    <3>3. QED
      BY <1>2, <2>1, <2>4, <3>1, <3>2 DEF Acquires, HasIts
  <2>5. CASE s = a
    <3>1. ctx'[r] = ctx[r]
      BY <1>2, <2>2, <2>5
    <3>2. CASE ctx'[a].vm = ctx[a].vm
      BY <1>2, <2>5, <3>1, <3>2 DEF OneHolder, Mode
    <3>3. CASE vm[ctx'[a].vm].name = CloneOf[a]
      BY <1>2, <2>1, <2>5, <3>1, <3>3 DEF HasIts, ClonesAreNamed, Mode
    <3>4. QED
      BY <1>2, <2>1, <2>5, <3>1, <3>2, <3>3 DEF Acquires, HasIts
  <2>6. QED
    BY <2>3, <2>4, <2>5
<1>3. QED
  BY <1>1, <1>2 DEF Next, OneHolder

\* What a run that goes on with its own cluster does next.
LEMMA OwnSteps ==
  ASSUME StoreInv, NEW r \in Run, RunStep(r), Mode(r)' = "created",
         ctx'[r].vm = ctx[r].vm
  PROVE  /\ pc[r] = "testing" => pc'[r] = "finishing"
         /\ pc[r] = "finishing" => FinishCreated(r)
<1> DEFINE c == ctx[r]
           d == ctx'[r]
<1>1. c \in Contexts /\ Remembers(r, c, d) /\ d.mode = "created"
  BY Memory, Types DEF StoreInv, Mode
<1>2. d # NewContext
  BY <1>1, NewTypes
<1>3. QED
  BY <1>1, <1>2 DEF Remembers

LEMMA BuiltStep ==
  ASSUME ~Unreadable, StoreInv, OneHolder, FrozenAsBuilt, Next
  PROVE  FrozenAsBuilt'
<1> USE StoreAssumption
<1>1. /\ \A v \in VM : VmKept(v)
      /\ \A s \in Run : /\ ctx[s].vm \in VM \cup {None} /\ HasIts(s) /\ AsBuilt(s) /\ Knows(s)
                        /\ Knows(s)'
  BY VmStep, Types, KnowStep DEF Contexts, ClustersNamed, StoreInv, FrozenAsBuilt, RunsKnow
\* Only its own scenario changes a cluster that was built.
<1>2. ASSUME NEW s \in Run, Mode(s) = "created"
      PROVE  \/ vm'[ctx[s].vm].content = vm[ctx[s].vm].content
             \/ pc[s] = "testing" /\ vm'[ctx[s].vm].content = "upgraded"
  <2>1. ctx[s].vm \in VM /\ vm[ctx[s].vm].state # "unused"
    BY <1>1, <1>2 DEF Knows, HasIts
  <2>2. ASSUME NEW q \in Run, ctx[q].vm = ctx[s].vm PROVE q = s
    BY <1>2, <2>1, <2>2 DEF OneHolder
  <2>3. QED
    BY <1>1, <2>1, <2>2 DEF VmKept
<1>3. CASE LabSweep
  <2>1. pc' = pc /\ ctx' = ctx
    BY <1>3 DEF LabSweep
  <2>2. QED
    BY <1>1, <1>2, <2>1 DEF FrozenAsBuilt, AsBuilt, Mode
<1>4. ASSUME NEW r \in Run, RunStep(r), NEW s \in Run, Mode(s)' = "created" PROVE AsBuilt(s)'
  <2>1. CASE s # r
    <3>1. ctx'[s] = ctx[s] /\ pc'[s] = pc[s]
      BY <1>4, <2>1, OthersStay DEF StoreInv
    <3>2. QED
      BY <1>1, <1>2, <1>4, <3>1 DEF AsBuilt, Mode
  <2>2. CASE s = r
    <3>1. Acquires(r) /\ ctx'[r].vm # None
      BY <1>1, <1>4, <2>2, AcquireStep DEF StoreInv, Knows
    <3>2. CASE /\ ctx'[r].vm = ctx[r].vm /\ Mode(r) = "created"
               /\ ctx'[r].hash = ctx[r].hash
      <4>1. /\ pc[r] = "testing" => pc'[r] = "finishing"
            /\ pc[r] = "finishing" => FinishCreated(r)
        BY <1>4, <2>2, <3>2, OwnSteps
      <4>2. pc[r] = "finishing" => vm[ctx[r].vm].content # "upgraded"
        BY <1>1, <3>2, <4>1 DEF FinishCreated, DriftShows, Knows
      <4>3. QED
        BY <1>1, <1>2, <2>2, <3>2, <4>1, <4>2 DEF AsBuilt
    <3>3. QED
      BY <1>4, <2>2, <3>1, <3>2 DEF Acquires, AsBuilt
  <2>3. QED
    BY <2>1, <2>2
<1>5. QED
  BY <1>3, <1>4 DEF Next, FrozenAsBuilt, AsBuilt

\* What a run does after it has told the manifest of its cluster.
Past == {"poweringOff", "registering"} \cup Edits
LEMMA PastSteps ==
  ASSUME StoreInv, NEW r \in Run, RunStep(r), pc[r] \in Past, ctx'[r].vm # None
  PROVE  pc'[r] \in Past
<1> DEFINE c == ctx[r]
           d == ctx'[r]
<1>1. c \in Contexts /\ Remembers(r, c, d) /\ (c.mode = "unset" => c.vm = None)
  BY Memory, Types DEF StoreInv, Mode, RunsKnow, Knows
<1>2. d # NewContext
  BY NewTypes
<1>3. CASE c.mode = "unset" /\ (d = [c EXCEPT !.mode = "created-incomplete"] \/ Forgot(r, c, d))
  BY <1>1, <1>3 DEF Contexts, Forgot
<1>4. QED
  BY <1>1, <1>2, <1>3 DEF Remembers, Past, Edits

LEMMA ListStep ==
  ASSUME ClonesAreNamed, StoreInv, OneHolder, FrozenAsBuilt, ManifestsList, Next
  PROVE  ManifestsList'
<1> USE StoreAssumption
<1>1. /\ \A v \in VM : VmKept(v)
      /\ \A s \in Run : /\ ctx[s].vm \in VM \cup {None}
                        /\ HasIts(s) /\ AsBuilt(s) /\ Knows(s)
  BY VmStep, Types DEF Contexts, ClustersNamed, StoreInv, FrozenAsBuilt, RunsKnow
\* What a manifest lists is not changed any more.
<1>2. ASSUME NEW n \in Name, manifest[n] \in VM
      PROVE  /\ vm'[manifest[n]].state # "unused" /\ vm'[manifest[n]].name = n
             /\ vm'[manifest[n]].content = vm[manifest[n]].content
  BY <1>1, <1>2 DEF ManifestsList, VmKept, Edits
<1>3. CASE LabSweep
  <2>1. pc' = pc /\ ctx' = ctx /\ manifest' = manifest
    BY <1>3 DEF LabSweep
  <2>2. QED
    BY <1>2, <2>1 DEF ManifestsList
<1>4. ASSUME NEW a \in Run, RunStep(a), NEW n \in Name, manifest'[n] \in VM
      PROVE  /\ vm'[manifest'[n]].state # "unused" /\ vm'[manifest'[n]].name = n
             /\ Promised(n, vm'[manifest'[n]].content)
             /\ \A r \in Run : ctx'[r].vm = manifest'[n] => pc'[r] \in Past
  <2>1. /\ manifest \in [Name -> VM \cup {None, "stub"}]
        /\ \A r \in Run \ {a} : pc'[r] = pc[r] /\ ctx'[r] = ctx[r]
    BY <1>4, OthersStay, Types DEF StoreInv
  <2>2. CASE manifest'[n] = manifest[n]
    <3>1. /\ vm'[manifest'[n]].state # "unused" /\ vm'[manifest'[n]].name = n
          /\ Promised(n, vm'[manifest'[n]].content)
      BY <1>2, <1>4, <2>2 DEF ManifestsList
    <3>2. ASSUME NEW r \in Run, ctx'[r].vm = manifest[n] PROVE pc'[r] \in Past
      <4>1. CASE r # a
        BY <1>4, <2>1, <2>2, <3>2, <4>1 DEF ManifestsList, Past
      <4>2. CASE r = a
        <5>1. Acquires(a) /\ manifest[n] # None
          BY <1>4, <2>2, AcquireStep DEF StoreInv
        <5>2. CASE ctx'[a].vm = ctx[a].vm
          BY <1>4, <2>2, <3>2, <4>2, <5>1, <5>2, PastSteps DEF ManifestsList, Past
        <5>3. vm[manifest[n]].state # "unused" /\ vm[manifest[n]].name # CloneOf[a]
          BY <1>4, <2>2 DEF ManifestsList, Promised, ClonesAreNamed
        <5>4. QED
          BY <3>2, <4>2, <5>1, <5>2, <5>3 DEF Acquires
      <4>3. QED
        BY <4>1, <4>2
    <3>3. QED
      BY <2>2, <3>1, <3>2
  <2>3. CASE manifest'[n] # manifest[n]
    <3>1. FreezeRecords(a)
      BY <1>4, <2>1, <2>3, FileSteps DEF FreezeBegins
    <3>2. n = NameOf[a] /\ manifest'[n] = ctx[a].vm /\ vm' = vm /\ pc[a] = "recording"
      BY <2>1, <2>3, <3>1 DEF FreezeRecords
    <3>3. Mode(a) = "created" /\ ctx[a].hash \in Asks[a]
      BY <1>1, <3>2 DEF Knows, Freezes, Outside
    <3>4. /\ vm[ctx[a].vm].state # "unused" /\ vm[ctx[a].vm].name = n
          /\ vm[ctx[a].vm].content = ctx[a].hash
      BY <1>1, <1>4, <3>2, <3>3 DEF HasIts, AsBuilt
    <3>5. Promised(n, vm[ctx[a].vm].content)
      BY <3>2, <3>3, <3>4 DEF Promised
    <3>6. ASSUME NEW r \in Run, ctx'[r].vm = ctx[a].vm PROVE pc'[r] \in Past
      <4>1. ctx' = ctx /\ pc'[a] = "poweringOff"
        BY <3>1, Types DEF FreezeRecords, Goto, StoreInv
      <4>2. r = a
        BY <1>4, <3>2, <3>3, <3>6, <4>1 DEF OneHolder
      <4>3. QED
        BY <4>1, <4>2 DEF Past
    <3>7. QED
      BY <3>2, <3>4, <3>5, <3>6
  <2>4. QED
    BY <2>2, <2>3
<1>5. QED
  BY <1>3, <1>4 DEF Next, ManifestsList, Past

-----------------------------------------------------------------------------
(* What is tested goes on.                                                  *)

\* A step of another run touches a cluster that is up only if it goes by one of that run's
\* names.
LEMMA Untouched ==
  ASSUME StoreInv, NEW a \in Run, RunStep(a), NEW s \in Run, s # a, pc[s] = "testing",
         vm[ctx[s].vm].state = "on", \A p \in Names(a) : <<vm[ctx[s].vm].name, p>> \notin Begins
  PROVE  vm'[ctx[s].vm] = vm[ctx[s].vm]
<1> USE StoreAssumption
<1> DEFINE v == ctx[s].vm
<1>1. v \in VM /\ v # None /\ vm \in [VM -> Machines] /\ TouchesVm(a)
  BY Touches, Types DEF StoreInv, RunsKnow, Knows, Contexts
<1>2. vm[v].name \notin Names(a) /\ \A p \in Names(a) : v \notin Leftovers(p)
  BY <1>1 DEF Leftovers, Names
<1>3. v # ctx[a].vm /\ v \notin SameName(a)
  BY <1>1, <1>2 DEF StoreInv, ClustersNamed, HasIts, Names, SameName
<1>4. ASSUME NEW D, Delete(D), v \notin D PROVE vm'[v] = vm[v]
  BY <1>1, <1>4 DEF Delete
<1>5. ASSUME NEW u \in VM, NEW n \in Name, NEW c, NEW t, Boot(u, n, c, t) PROVE vm'[v] = vm[v]
  BY <1>1, <1>5 DEF Boot
<1>6. ASSUME NEW u \in SameName(a), vm' = [vm EXCEPT ![u].state = "on"] PROVE vm'[v] = vm[v]
  BY <1>1, <1>3, <1>6 DEF SameName
<1>7. ASSUME NEW c, NEW t, vm' = [vm EXCEPT ![ctx[a].vm].content = c, ![ctx[a].vm].touched = t]
      PROVE  vm'[v] = vm[v]
  BY <1>1, <1>3, <1>7
<1>8. CASE PowerOff(ctx[a].vm)
  BY <1>1, <1>3, <1>8 DEF PowerOff
<1>9. QED
  BY <1>1, <1>2, <1>3, <1>4, <1>5, <1>6, <1>7, <1>8 DEF TouchesVm, Sweep, Names

\* Who gets a cluster that another run has gets it as a clone: a new VM is nobody's.
LEMMA ClaimsStep ==
  ASSUME StoreInv, OneClaims, [Next]_vars
  PROVE  OneClaims'
<1>1. CASE UNCHANGED vars
  BY <1>1 DEF vars, OneClaims, Mode
<1>2. CASE LabSweep
  BY <1>2 DEF LabSweep, OneClaims, Mode
<1>3. ASSUME NEW a \in Run, RunStep(a), NEW s \in Run, s # a, ctx'[a].vm # None,
             ctx'[a].vm = ctx'[s].vm
      PROVE  "claimed" \in {Mode(a)', Mode(s)'}
  <2>1. Acquires(a) /\ ctx'[s] = ctx[s] /\ HasIts(s)
    BY <1>3, AcquireStep, OthersStay DEF StoreInv, ClustersNamed
  <2>2. CASE ctx'[a].vm = ctx[a].vm /\ (Mode(a)' = "claimed" <=> Mode(a) = "claimed")
    BY <1>3, <2>1, <2>2 DEF OneClaims, Mode
  <2>3. QED
    BY <1>3, <2>1, <2>2 DEF Acquires, HasIts
<1>4. ASSUME NEW a \in Run, RunStep(a), NEW r \in Run \ {a}, NEW s \in Run \ {a}
      PROVE  ctx'[r] = ctx[r] /\ ctx'[s] = ctx[s]
  BY <1>4, OthersStay DEF StoreInv
<1>5. QED
  BY <1>1, <1>2, <1>3, <1>4 DEF Next, OneClaims, Mode

-----------------------------------------------------------------------------
(* The theorems.                                                            *)

\* Under any names: what the registry promises, and that a run's cluster has its name.
THEOREM StoreInvariance == Spec => []StoreInv
BY StoreInit, StoreStep, PTL DEF Spec

\* With clones that are named as such and fingerprints that are read: what is frozen is as it
\* was built.
THEOREM Invariance ==
  ASSUME ClonesAreNamed, ~Unreadable
  PROVE  Spec => []IInv
<1>1. Init => IInv
  <2>1. Init => OneHolder /\ FrozenAsBuilt /\ ManifestsList
    BY StoreAssumption, NewTypes DEF Init, OneHolder, FrozenAsBuilt, AsBuilt, ManifestsList, Mode
  <2>2. QED
    BY <2>1, StoreInit DEF IInv
<1>2. IInv /\ [Next]_vars => IInv'
  <2>1. ASSUME IInv, Next PROVE IInv'
    BY <2>1, StoreStep, HolderStep, BuiltStep, ListStep DEF IInv
  <2>2. ASSUME IInv, UNCHANGED vars PROVE IInv'
    BY <2>2, StoreStep DEF IInv, vars, OneHolder, FrozenAsBuilt, AsBuilt, ManifestsList, Mode
  <2>3. QED
    BY <2>1, <2>2
<1>3. QED
  BY <1>1, <1>2, PTL DEF Spec

LEMMA OneHash ==
  ASSUME OneHashPerName, NEW n, NEW h, NEW g, Promised(n, h), Promised(n, g)
  PROVE  h = g
<1>1. PICK r \in Run : n = NameOf[r] /\ h \in Asks[r]
  BY DEF Promised
<1>2. PICK s \in Run : n = NameOf[s] /\ g \in Asks[s]
  BY DEF Promised
<1>3. QED
  BY <1>1, <1>2 DEF OneHashPerName

\* "A template's registry key promises its content": a registered name with a manifest has the
\* content of its key, as long as each cluster name has one change-set (steps.py's finish_cluster
\* and _template_missing_vms, freeze.py's manifest).
THEOREM RegisteredIsPromised ==
  ASSUME ClonesAreNamed, ~Unreadable, OneHashPerName
  PROVE  Spec => []RegisteredContent
<1>1. IInv => RegisteredContent
  <2>1. SUFFICES ASSUME IInv, NEW h \in Hash, reg[h] # None, Frozen(reg[h])
                 PROVE  vm[manifest[reg[h]]].content = h
    BY DEF RegisteredContent
  <2>2. Promised(reg[h], h) /\ reg[h] \in Name
    BY <2>1, Types DEF IInv, StoreInv, RegistryPromises, Promises, Registries
  <2>3. Promised(reg[h], vm[manifest[reg[h]]].content)
    BY <2>1, <2>2 DEF IInv, ManifestsList, Frozen
  <2>4. QED
    BY <2>2, <2>3, OneHash
<1>2. QED
  BY <1>1, Invariance, PTL

\* The same for what is claimed: a clone starts with the content of the change-set that was
\* asked for (clone.py's selection, after create_cluster's decision).
THEOREM ClonedIsPromised ==
  ASSUME ClonesAreNamed, ~Unreadable, OneHashPerName
  PROVE  Spec => ClonedContent
<1>1. IInv /\ [Next]_vars =>
        [\A r \in Run :
           pc[r] = "cloning" /\ pc'[r] = "testing" /\ SameName(r) = {}
           => vm'[ctx'[r].vm].content = ctx[r].hash]_vars
  <2>1. SUFFICES ASSUME IInv, Next, NEW r \in Run, pc[r] = "cloning", pc'[r] = "testing",
                        SameName(r) = {}
                 PROVE  vm'[ctx'[r].vm].content = ctx[r].hash
    OBVIOUS
  <2>2. PICK a \in Run : RunStep(a)
    BY <2>1 DEF Next, LabSweep
  <2>3. a = r
    BY <2>1, <2>2, OthersStay DEF IInv, StoreInv
  <2>4. Clone(r)
    BY <2>1, <2>2, <2>3, Memory DEF IInv, StoreInv, Remembers
  <2>5. PICK v \in VM : /\ Boot(v, CloneOf[r], vm[CloneSource(r)].content, vm[CloneSource(r)].touched)
                       /\ ctx' = [ctx EXCEPT ![r].vm = v]
    BY <2>1, <2>4 DEF Clone
  <2>6. vm'[ctx'[r].vm].content = vm[CloneSource(r)].content
    BY <2>1, <2>5, Types DEF Boot, IInv, StoreInv, Contexts
  <2>7. /\ CloneSource(r) = manifest[ctx[r].template] /\ manifest[ctx[r].template] \in VM
        /\ Promised(ctx[r].template, ctx[r].hash) /\ ctx[r].template \in Name
    <3>1. Mode(r) = "claimed" /\ Frozen(ctx[r].template)
      BY <2>1, <2>4 DEF Clone, Claimable, IInv, StoreInv, RunsKnow, Knows
    <3>2. Promised(ctx[r].template, ctx[r].hash)
      BY <2>1, <3>1 DEF IInv, StoreInv, RegistryPromises
    <3>3. QED
      BY <3>1, <3>2, StoreAssumption DEF CloneSource, Frozen, Promised
  <2>8. Promised(ctx[r].template, vm[CloneSource(r)].content)
    BY <2>1, <2>7 DEF IInv, ManifestsList
  <2>9. QED
    BY <2>6, <2>7, <2>8, OneHash
<1>2. QED
  BY <1>1, Invariance, PTL DEF Spec, ClonedContent

\* Under any names, two runs have one cluster only if one of them gives its clone a name of the
\* other (clone.py's reuse).
THEOREM ClonesStayOwn == Spec => []ClonesAreOwn
<1>1. Init => OneClaims
  BY NewTypes DEF Init, OneClaims
<1>2. StoreInv /\ OneClaims => ClonesAreOwn
  BY DEF StoreInv, ClustersNamed, HasIts, OneClaims, ClonesAreOwn, HasCluster, Names
<1>3. QED
  BY <1>1, <1>2, ClaimsStep, StoreInvariance, PTL DEF Spec

\* Under any names, no sweep, freeze, claim or test of another run touches the cluster a run
\* tests, unless that cluster's name begins with a name of that run.
THEOREM TestedSurvives == Spec => LiveClusterSurvives
<1>1. StoreInv /\ [Next]_vars =>
        [\A r \in Run : LET mine == ctx[r].vm IN
           pc[r] = "testing" /\ pc'[r] = "testing" /\ vm[mine].state = "on" /\ vm'[mine] # vm[mine]
           => \E s \in Run \ {r} : /\ pc'[s] # pc[s]
                                  /\ \E p \in Names(s) : <<vm[mine].name, p>> \in Begins]_vars
  <2>1. SUFFICES ASSUME StoreInv, Next, NEW r \in Run, pc[r] = "testing", pc'[r] = "testing",
                        vm[ctx[r].vm].state = "on", vm'[ctx[r].vm] # vm[ctx[r].vm]
                 PROVE  \E s \in Run \ {r} : /\ pc'[s] # pc[s]
                                           /\ \E p \in Names(s) : <<vm[ctx[r].vm].name, p>> \in Begins
    OBVIOUS
  <2>2. ~LabSweep
    <3>1. ctx[r].vm \in VM
      BY <2>1, Types DEF StoreInv, RunsKnow, Knows, Contexts
    <3>2. QED
      BY <2>1, <3>1 DEF LabSweep, Delete
  <2>3. PICK a \in Run : RunStep(a)
    BY <2>1, <2>2 DEF Next
  <2>4. pc'[a] # pc[a]
    <3>1. Remembers(a, ctx[a], ctx'[a])
      BY <2>1, <2>3, Memory DEF StoreInv
    <3>2. QED
      BY <3>1 DEF Remembers, Chooses
  <2>5. a # r
    BY <2>1, <2>4
  <2>6. QED
    BY <2>1, <2>3, <2>4, <2>5, Untouched
<1>2. QED
  BY <1>1, StoreInvariance, PTL DEF Spec, LiveClusterSurvives

-----------------------------------------------------------------------------
(* Images of one's own: the inductive invariant, part by part.              *)

\* What a record says of a component.
In(st, k) == IF k \in DOMAIN st THEN st[k].image ELSE Orig

\* What an entry keeps.
IsEntry(k, e) == /\ e.image \in Images /\ e.orig \in [Kept(k) -> Images \cup {Orig}]
                 /\ e.held \in BOOLEAN /\ e.secret \in BOOLEAN
Entries(st) == DOMAIN st \subseteq Components /\ \A k \in DOMAIN st : IsEntry(k, st[k])
OverrideTypes == /\ OverrideTypeOK /\ Entries(record)
                 /\ mem = [t \in Tools |-> mem[t]] /\ \A t \in Tools : Entries(mem[t])

\* Unless two runs have overlapped, one process is at work.
OneAtWork ==
  "raced" \notin odd => \A t, u \in Tools : at[t] # "idle" /\ at[u] # "idle" => t = u

\* The images of the application are those of its entries.
FluxIs(st) == \A k \in FluxApp : live[k] = In(st, k)

\* So are the other components, and the entries of the chart's images are in the order of
\* their applies: a later one has kept what an earlier one has given, an earlier one has not.
OthersAre(st) == \A k \in Chart \cup Ctrls : live[k] = In(st, k)
FoundAlone(st) == \A k \in DOMAIN st \cap (Chart \cup Ctrls) : st[k].orig[k] = Orig
KeepsEarlier(st) ==
  \A k \in DOMAIN st \cap Chart, x \in Chart : st[k].orig[x] \in {Orig, In(st, x)}
InOrder(st) ==
  \A k, x \in DOMAIN st \cap Chart :
    k # x => st[k].orig[x] = st[x].image \/ st[x].orig[k] = st[k].image
RestIs(st) == OthersAre(st) /\ FoundAlone(st) /\ KeepsEarlier(st) /\ InOrder(st)

\* The pull secret is where an entry needs it, the operator is down when an entry holds it.
TracesOf(st) ==
  /\ \A n \in secrets : \E k \in DOMAIN st : st[k].secret /\ n = Ns(k)
  /\ ~operator => \E k \in DOMAIN st : st[k].held

\* The record speaks between the runs, the memory of the one at work during it.
FluxFollows ==
  odd \cap {"refused", "cut", "unread", "raced", "deployed"} = {} =>
    /\ Idle => FluxIs(record)
    /\ \A t \in Tools : at[t] # "idle" => FluxIs(mem[t])
RestFollows ==
  odd \cap {"refused", "cut", "unread", "raced", "again", "crossed"} = {} =>
    /\ Idle => RestIs(record)
    /\ \A t \in Tools : at[t] # "idle" => RestIs(mem[t])
TracesFollow ==
  odd \cap {"refused", "cut", "unread", "raced", "again"} = {} =>
    /\ Idle => TracesOf(record)
    /\ \A t \in Tools : at[t] # "idle" => TracesOf(mem[t])

OverrideInv == OverrideTypes /\ OneAtWork /\ FluxFollows /\ RestFollows /\ TracesFollow

-----------------------------------------------------------------------------
(* Records.                                                                 *)

LEMMA AddedEntry ==
  ASSUME NEW st, Entries(st), NEW k \in Components, NEW e, IsEntry(k, e)
  PROVE  /\ Entries(With(st, k, e)) /\ DOMAIN With(st, k, e) = DOMAIN st \cup {k}
         /\ With(st, k, e)[k] = e /\ \A x \in DOMAIN st \ {k} : With(st, k, e)[x] = st[x]
         /\ In(With(st, k, e), k) = e.image
         /\ \A x \in Components \ {k} : In(With(st, k, e), x) = In(st, x)
BY DEF Entries, With, In

LEMMA TakenEntry ==
  ASSUME NEW st, Entries(st), NEW k
  PROVE  /\ Entries(Without(st, k)) /\ DOMAIN Without(st, k) = DOMAIN st \ {k}
         /\ \A x \in DOMAIN st \ {k} : Without(st, k)[x] = st[x]
         /\ In(Without(st, k), k) = Orig
         /\ \A x \in Components \ {k} : In(Without(st, k), x) = In(st, x)
BY DEF Entries, Without, In

LEMMA NoneEntry == Entries(NoOverrides) /\ \A k \in Components : In(NoOverrides, k) = Orig
BY DEF Entries, NoOverrides, In

Lives == [Components -> Images \cup {Orig}]
LEMMA RebuiltIs ==
  ASSUME live \in Lives, NEW st, Entries(st)
  PROVE  /\ Rebuilt(st) \in Lives
         /\ \A x \in Components : Rebuilt(st)[x] = IF x \in FluxApp THEN In(st, x) ELSE live[x]
BY DEF Rebuilt, In, Entries, IsEntry, Lives

LEMMA PatchedIs ==
  ASSUME live \in Lives, NEW st, Entries(st), NEW k \in DOMAIN st
  PROVE  /\ Patched(st, k) \in Lives
         /\ \A x \in Components :
              Patched(st, k)[x] =
                IF k \in FluxApp THEN IF x \in FluxApp THEN In(st, x) ELSE live[x]
                ELSE IF x = k THEN In(st, k) ELSE live[x]
<1>1. CASE k \in FluxApp
  BY <1>1, RebuiltIs DEF Patched
<1>2. CASE k \notin FluxApp
  BY <1>2 DEF Patched, Lives, Entries, IsEntry, In
<1>3. QED
  BY <1>1, <1>2

LEMMA RestoredIs ==
  ASSUME live \in Lives, NEW st, Entries(st), NEW k \in Components, NEW e, IsEntry(k, e)
  PROVE  /\ Restored(st, k, e) \in Lives
         /\ \A x \in Components :
              Restored(st, k, e)[x] =
                IF k \in FluxApp THEN IF x \in FluxApp THEN In(st, x) ELSE live[x]
                ELSE IF x \in Kept(k) THEN e.orig[x] ELSE live[x]
<1>1. CASE k \in FluxApp
  BY <1>1, RebuiltIs DEF Restored
<1>2. CASE k \notin FluxApp
  BY <1>2 DEF Restored, Lives, IsEntry
<1>3. QED
  BY <1>1, <1>2

-----------------------------------------------------------------------------
(* What a step of a run does.                                               *)

NewEntry(t, k, i) ==
  [image |-> i, orig |-> [x \in Kept(k) |-> live[x]],
   held |-> k \in Ctrls /\ "hold" \in option[t], secret |-> "secret" \in option[t]]
Applied(t, k, i) == With(mem[t], k, NewEntry(t, k, i))

LEMMA NewIsEntry ==
  ASSUME OverrideTypes, NEW t \in Tools, NEW k \in Components, NEW i \in Images
  PROVE  IsEntry(k, NewEntry(t, k, i))
<1>1. Kept(k) \subseteq Components
  BY DEF Kept, Components
<1>2. [x \in Kept(k) |-> live[x]] \in [Kept(k) -> Images \cup {Orig}]
  BY <1>1 DEF OverrideTypes, OverrideTypeOK
<1>3. (k \in Ctrls /\ "hold" \in option[t]) \in BOOLEAN /\ ("secret" \in option[t]) \in BOOLEAN
  OBVIOUS
<1>4. QED
  BY <1>2, <1>3 DEF IsEntry, NewEntry

LEMMA AppliedIs ==
  ASSUME OverrideTypes, NEW t \in Tools, NEW k \in Components, NEW i \in Images
  PROVE  /\ IsEntry(k, NewEntry(t, k, i)) /\ Entries(Applied(t, k, i))
         /\ DOMAIN Applied(t, k, i) = DOMAIN mem[t] \cup {k} /\ k \in DOMAIN Applied(t, k, i)
         /\ \A x \in Components \ {k} : In(Applied(t, k, i), x) = In(mem[t], x)
<1>1. Entries(mem[t]) /\ IsEntry(k, NewEntry(t, k, i))
  BY NewIsEntry DEF OverrideTypes
<1>2. /\ Entries(With(mem[t], k, NewEntry(t, k, i)))
      /\ DOMAIN With(mem[t], k, NewEntry(t, k, i)) = DOMAIN mem[t] \cup {k}
  BY <1>1, AddedEntry
<1>3. \A x \in Components \ {k} : In(With(mem[t], k, NewEntry(t, k, i)), x) = In(mem[t], x)
  BY <1>1 DEF With, In, Entries
<1>4. QED
  BY <1>1, <1>2, <1>3 DEF Applied

LEMMA ApplyDoes ==
  ASSUME NEW t \in Tools, NEW k \in Components, NEW i \in Images, Apply(t, k, i)
  PROVE  /\ at[t] = "apply" /\ ops < MaxOps /\ ops' = ops + 1
         /\ mem' = [mem EXCEPT ![t] = Applied(t, k, i)]
         /\ UNCHANGED <<record, at, option>>
         /\ \E done \in Outcomes :
              /\ Image(done, k, Patched(Applied(t, k, i), k))
              /\ operator' = (operator /\ ~(NewEntry(t, k, i).held /\ "operator" \in done))
              /\ secrets' = secrets \cup (IF NewEntry(t, k, i).secret /\ "secret" \in done
                                          THEN {Ns(k)} ELSE {})
              /\ odd' = odd \cup (When(k \in DOMAIN mem[t], "again")
                                  \cup When(done # Calls, "refused"))
BY DEF Apply, Applied, NewEntry, Odd

LEMMA RevertDoes ==
  ASSUME NEW t \in Tools, NEW k \in Components, Revert(t, k)
  PROVE  /\ at[t] = "revert" /\ ops < MaxOps /\ ops' = ops + 1 /\ k \in DOMAIN mem[t]
         /\ mem' = [mem EXCEPT ![t] = Without(mem[t], k)]
         /\ UNCHANGED <<record, at, option>>
         /\ \E done \in Outcomes :
              /\ Image(done, k, Restored(Without(mem[t], k), k, mem[t][k]))
              /\ operator' = IF "operator" \in done THEN Frees(mem[t][k]) ELSE operator
              /\ secrets' = secrets \ (IF mem[t][k].secret /\ "secret" \in done
                                       THEN {Ns(k)} ELSE {})
              /\ odd' = odd \cup (When(Buried(Without(mem[t], k), k), "crossed")
                                  \cup When(done # Calls, "refused"))
BY DEF Revert, Odd

\* A run takes the record over, and leaves it.
LEMMA Handover ==
  ASSUME OverrideTypes, OneAtWork, NEW t \in Tools, Start(t) \/ Save(t) \/ Killed(t),
         odd' \cap {"refused", "cut", "unread", "raced"} = {}
  PROVE  /\ UNCHANGED shared /\ odd' = odd
         /\ \/ /\ Idle /\ ~Idle'
               /\ \A u \in Tools : at'[u] # "idle" => mem'[u] = record
            \/ at[t] # "idle" /\ Idle' /\ record' = mem[t]
<1> USE DEF OverrideTypes, OverrideTypeOK
<1>1. CASE Start(t)
  <2>1. PICK unread \in BOOLEAN :
          /\ mem' = [mem EXCEPT ![t] = IF unread THEN NoOverrides ELSE record]
          /\ odd' = odd \cup (When(unread, "unread") \cup When(~Idle, "raced"))
    BY <1>1 DEF Start, Odd
  <2>2. Idle /\ ~unread /\ odd' = odd
    BY <2>1 DEF When
  <2>3. PICK cmd \in {"apply", "revert"} : at' = [at EXCEPT ![t] = cmd]
    BY <1>1 DEF Start
  <2>4. mem'[t] = record
    BY <2>1, <2>2
  <2>5. UNCHANGED shared
    BY <1>1 DEF Start
  <2>6. QED
    BY <2>2, <2>3, <2>4, <2>5 DEF Idle
<1>2. CASE Save(t)
  <2>1. record' = mem[t] /\ odd' = odd /\ UNCHANGED shared
    BY <1>2 DEF Save, Odd
  <2>2. at[t] # "idle" /\ at' = [at EXCEPT ![t] = "idle"]
    BY <1>2 DEF Save, ToolEnds
  <2>3. QED
    BY <2>1, <2>2 DEF OneAtWork, Idle
<1>3. CASE Killed(t)
  BY <1>3 DEF Killed, Odd
<1>4. QED
  BY <1>1, <1>2, <1>3

LEMMA WorkStep ==
  ASSUME OverrideTypes, OneAtWork, OverrideNext
  PROVE  OneAtWork'
<1>1. ASSUME NEW t \in Tools, Start(t) PROVE OneAtWork'
  <2>1. /\ odd \subseteq odd' /\ When(~Idle, "raced") \subseteq odd'
        /\ \E cmd \in {"apply", "revert"} : at' = [at EXCEPT ![t] = cmd]
    BY <1>1 DEF Start, Odd
  <2>2. QED
    BY <2>1 DEF OneAtWork, When, Idle, OverrideTypes, OverrideTypeOK
<1>2. ASSUME NEW t \in Tools, Save(t) \/ Killed(t) PROVE OneAtWork'
  <2>1. odd \subseteq odd' /\ at' = [at EXCEPT ![t] = "idle"]
    BY <1>2 DEF Save, Killed, ToolEnds, Odd
  <2>2. QED
    BY <2>1 DEF OneAtWork, OverrideTypes, OverrideTypeOK
<1>3. ASSUME UNCHANGED at, odd \subseteq odd' PROVE OneAtWork'
  BY <1>3 DEF OneAtWork
<1>4. ASSUME NEW t \in Tools, NEW k \in Components,
             Revert(t, k) \/ \E i \in Images : Apply(t, k, i)
      PROVE  UNCHANGED at /\ odd \subseteq odd'
  BY <1>4, ApplyDoes, RevertDoes
<1>5. DeployApp => UNCHANGED at /\ odd \subseteq odd'
  BY DEF DeployApp, Odd
<1>6. QED
  BY <1>1, <1>2, <1>3, <1>4, <1>5 DEF OverrideNext

-----------------------------------------------------------------------------
(* Types.                                                                   *)

LEMMA OverrideTypesStep ==
  ASSUME OverrideTypes, OverrideNext
  PROVE  OverrideTypes'
<1> USE MaxOpsAssumption
<1>1. /\ live \in Lives /\ values \in BOOLEAN /\ operator \in BOOLEAN
      /\ Entries(record) /\ mem = [t \in Tools |-> mem[t]]
      /\ \A t \in Tools : Entries(mem[t])
      /\ at \in [Tools -> {"idle", "apply", "revert"}]
      /\ option \in [Tools -> SUBSET {"hold", "secret"}] /\ ops \in 0..MaxOps
      /\ odd \subseteq {"refused", "cut", "unread", "raced", "again", "crossed", "deployed"}
  BY DEF OverrideTypes, OverrideTypeOK, Lives
<1>2. SUFFICES
        /\ live' \in Lives /\ values' \in BOOLEAN /\ operator' \in BOOLEAN
        /\ Entries(record') /\ mem' = [t \in Tools |-> mem'[t]]
        /\ \A t \in Tools : Entries(mem'[t])
        /\ at' \in [Tools -> {"idle", "apply", "revert"}]
        /\ option' \in [Tools -> SUBSET {"hold", "secret"}] /\ ops' \in 0..MaxOps
        /\ odd' \subseteq {"refused", "cut", "unread", "raced", "again", "crossed", "deployed"}
  <2>1. \A st : Entries(st) => IsRecord(st)
    BY DEF Entries, IsEntry, IsRecord
  <2>2. QED
    BY <1>2, <2>1 DEF OverrideTypes, OverrideTypeOK, Lives
<1>3. ASSUME NEW t \in Tools, NEW st, Entries(st), mem' = [mem EXCEPT ![t] = st]
      PROVE  mem' = [u \in Tools |-> mem'[u]] /\ \A u \in Tools : Entries(mem'[u])
  BY <1>1, <1>3
<1>4. ASSUME NEW cond, NEW word PROVE When(cond, word) \subseteq {word}
  BY DEF When
<1>5. ASSUME NEW done, NEW k, NEW new \in Lives, Image(done, k, new)
      PROVE  live' \in Lives /\ values' \in BOOLEAN
  BY <1>1, <1>5 DEF Image
<1>6. ASSUME NEW t \in Tools, Start(t) PROVE <1>2!1
  <2>1. PICK st \in {record, NoOverrides} : mem' = [mem EXCEPT ![t] = st]
    BY <1>6 DEF Start
  <2>5. UNCHANGED shared /\ UNCHANGED <<record, ops>> /\ Entries(st)
    BY <1>1, <1>6, NoneEntry DEF Start
  <2>2. odd' \subseteq {"refused", "cut", "unread", "raced", "again", "crossed", "deployed"}
    BY <1>1, <1>4, <1>6 DEF Start, Odd
  <2>3. /\ at' \in [Tools -> {"idle", "apply", "revert"}]
        /\ option' \in [Tools -> SUBSET {"hold", "secret"}]
    BY <1>1, <1>6 DEF Start
  <2>4. QED
    BY <1>1, <1>3, <2>1, <2>2, <2>3, <2>5 DEF shared
<1>7. ASSUME NEW t \in Tools, Save(t) \/ Killed(t) PROVE <1>2!1
  <2>1. /\ UNCHANGED shared /\ UNCHANGED ops /\ mem' = [mem EXCEPT ![t] = NoOverrides]
        /\ record' \in {record, mem[t]}
    BY <1>7 DEF Save, Killed, ToolEnds
  <2>2. odd' \subseteq {"refused", "cut", "unread", "raced", "again", "crossed", "deployed"}
    BY <1>1, <1>7 DEF Save, Killed, Odd
  <2>3. /\ at' \in [Tools -> {"idle", "apply", "revert"}]
        /\ option' \in [Tools -> SUBSET {"hold", "secret"}]
    BY <1>1, <1>7 DEF Save, Killed, ToolEnds
  <2>4. QED
    BY <1>1, <1>3, <2>1, <2>2, <2>3, NoneEntry DEF shared
<1>8. ASSUME NEW t \in Tools, NEW k \in Components, NEW i \in Images, Apply(t, k, i)
      PROVE  <1>2!1
  <2> DEFINE e == NewEntry(t, k, i)
             st == Applied(t, k, i)
  <2>1. IsEntry(k, e) /\ Entries(st) /\ k \in DOMAIN st
    BY AppliedIs
  <2>2. PICK done \in Outcomes :
          /\ Image(done, k, Patched(st, k))
          /\ operator' = (operator /\ ~(e.held /\ "operator" \in done))
          /\ odd' = odd \cup (When(k \in DOMAIN mem[t], "again") \cup When(done # Calls, "refused"))
    BY <1>8, ApplyDoes
  <2>3. live' \in Lives /\ values' \in BOOLEAN
    BY <1>1, <1>5, <2>1, <2>2, PatchedIs
  <2>4. operator' \in BOOLEAN
    BY <2>2
  <2>5. odd' \subseteq {"refused", "cut", "unread", "raced", "again", "crossed", "deployed"}
    BY <1>1, <1>4, <2>2
  <2>6. ops' \in 0..MaxOps
    BY <1>1, <1>8, ApplyDoes
  <2>7. mem' = [mem EXCEPT ![t] = st] /\ UNCHANGED <<record, at, option>>
    BY <1>8, ApplyDoes
  <2>8. QED
    BY <1>1, <1>3, <2>1, <2>3, <2>4, <2>5, <2>6, <2>7
<1>9. ASSUME NEW t \in Tools, NEW k \in Components, Revert(t, k) PROVE <1>2!1
  <2> DEFINE e == mem[t][k]
             st == Without(mem[t], k)
  <2>1. k \in DOMAIN mem[t] /\ IsEntry(k, e) /\ Entries(st)
    <3>1. k \in DOMAIN mem[t]
      BY <1>9, RevertDoes
    <3>2. Entries(mem[t])
      BY <1>1
    <3>3. QED
      BY <3>1, <3>2, TakenEntry DEF Entries
  <2>2. PICK done \in Outcomes :
          /\ Image(done, k, Restored(st, k, e))
          /\ operator' = IF "operator" \in done THEN Frees(e) ELSE operator
          /\ odd' = odd \cup (When(Buried(st, k), "crossed") \cup When(done # Calls, "refused"))
    BY <1>9, RevertDoes
  <2>3. live' \in Lives /\ values' \in BOOLEAN
    BY <1>1, <1>5, <2>1, <2>2, RestoredIs
  <2>4. operator' \in BOOLEAN
    BY <1>1, <2>2 DEF Frees
  <2>5. odd' \subseteq {"refused", "cut", "unread", "raced", "again", "crossed", "deployed"}
    BY <1>1, <1>4, <2>2
  <2>6. ops' \in 0..MaxOps
    BY <1>1, <1>9, RevertDoes
  <2>7. mem' = [mem EXCEPT ![t] = st] /\ UNCHANGED <<record, at, option>>
    BY <1>9, RevertDoes
  <2>8. QED
    BY <1>1, <1>3, <2>1, <2>3, <2>4, <2>5, <2>6, <2>7
<1>10. ASSUME DeployApp PROVE <1>2!1
  <2>1. /\ UNCHANGED <<operator, record, at, mem, option, ops>>
        /\ values' = TRUE /\ live' = Rebuilt(NoOverrides)
    BY <1>10 DEF DeployApp
  <2>2. odd' \subseteq {"refused", "cut", "unread", "raced", "again", "crossed", "deployed"}
    BY <1>1, <1>4, <1>10 DEF DeployApp, Odd
  <2>3. live' \in Lives
    BY <1>1, <2>1, RebuiltIs, NoneEntry
  <2>4. QED
    BY <1>1, <2>1, <2>2, <2>3
<1>11. QED
  BY <1>6, <1>7, <1>8, <1>9, <1>10 DEF OverrideNext

-----------------------------------------------------------------------------
(* The application's images.                                                *)

\* The process at work, when no two have overlapped.
LEMMA AtWork ==
  ASSUME OneAtWork, "raced" \notin odd, NEW t \in Tools, at[t] # "idle"
  PROVE  ~Idle /\ \A u \in Tools : at[u] # "idle" => u = t
BY DEF OneAtWork, Idle

LEMMA FluxReverts ==
  ASSUME live \in Lives, NEW st, Entries(st), NEW k \in DOMAIN st, FluxIs(st),
         live' = Restored(Without(st, k), k, st[k])
  PROVE  \A x \in FluxApp : live'[x] = In(Without(st, k), x)
<1>1. /\ k \in Components /\ IsEntry(k, st[k]) /\ Entries(Without(st, k))
      /\ \A x \in Components \ {k} : In(Without(st, k), x) = In(st, x)
  BY TakenEntry DEF Entries
<1>2. SUFFICES ASSUME NEW x \in FluxApp PROVE live'[x] = In(Without(st, k), x)
  OBVIOUS
<1>3. x \in Components /\ (k \notin FluxApp => x # k /\ x \notin Kept(k))
  BY KindsAssumption DEF Components, Kept
<1>4. live'[x] = IF k \in FluxApp THEN IF x \in FluxApp THEN In(Without(st, k), x) ELSE live[x]
                 ELSE IF x \in Kept(k) THEN st[k].orig[x] ELSE live[x]
  BY <1>1, <1>3, RestoredIs
<1>5. CASE k \in FluxApp
  BY <1>4, <1>5
<1>6. CASE k \notin FluxApp
  BY <1>1, <1>3, <1>4, <1>6 DEF FluxIs
<1>7. QED
  BY <1>5, <1>6

LEMMA FluxStep ==
  ASSUME OverrideTypes, OneAtWork, FluxFollows, OverrideNext
  PROVE  FluxFollows'
<1> SUFFICES ASSUME odd' \cap {"refused", "cut", "unread", "raced", "deployed"} = {}
             PROVE  /\ Idle' => FluxIs(record)'
                    /\ \A u \in Tools : at'[u] # "idle" => FluxIs(mem[u])'
  BY DEF FluxFollows
<1>1. /\ live \in Lives /\ Entries(record) /\ mem = [t \in Tools |-> mem[t]]
      /\ \A t \in Tools : Entries(mem[t])
  BY DEF OverrideTypes, OverrideTypeOK, Lives
<1>2. ASSUME odd \subseteq odd'
      PROVE  /\ Idle => FluxIs(record)
             /\ \A u \in Tools : at[u] # "idle" => FluxIs(mem[u])
             /\ "raced" \notin odd
  BY <1>2 DEF FluxFollows
<1>3. ASSUME NEW t \in Tools, Start(t) \/ Save(t) \/ Killed(t)
      PROVE  /\ Idle' => FluxIs(record)'
             /\ \A u \in Tools : at'[u] # "idle" => FluxIs(mem[u])'
  <2>1. /\ live' = live /\ odd' = odd
        /\ \/ /\ Idle /\ ~Idle'
              /\ \A u \in Tools : at'[u] # "idle" => mem'[u] = record
           \/ at[t] # "idle" /\ Idle' /\ record' = mem[t]
    BY <1>3, Handover DEF shared
  <2>2. QED
    BY <1>2, <2>1 DEF FluxIs, Idle
\* A step of the one at work.
<1>4. ASSUME NEW t \in Tools, NEW st, UNCHANGED at, at[t] # "idle", "raced" \notin odd,
             mem' = [mem EXCEPT ![t] = st], \A x \in FluxApp : live'[x] = In(st, x)
      PROVE  /\ Idle' => FluxIs(record)'
             /\ \A u \in Tools : at'[u] # "idle" => FluxIs(mem[u])'
  BY <1>1, <1>4, AtWork DEF FluxIs, Idle
<1>5. ASSUME NEW t \in Tools, NEW k \in Components, NEW i \in Images, Apply(t, k, i)
      PROVE  /\ Idle' => FluxIs(record)'
             /\ \A u \in Tools : at'[u] # "idle" => FluxIs(mem[u])'
  <2> DEFINE st == Applied(t, k, i)
  <2>1. PICK done \in Outcomes :
          /\ Image(done, k, Patched(st, k))
          /\ odd' = odd \cup (When(k \in DOMAIN mem[t], "again") \cup When(done # Calls, "refused"))
    BY <1>5, ApplyDoes
  <2>2. done = Calls /\ odd \subseteq odd'
    BY <2>1 DEF When
  <2>3. live' = Patched(st, k)
    BY <2>1, <2>2 DEF Image, Calls
  <2>4. /\ IsEntry(k, NewEntry(t, k, i)) /\ Entries(st) /\ k \in DOMAIN st
        /\ \A x \in Components \ {k} : In(st, x) = In(mem[t], x)
    BY AppliedIs
  <2>5. at[t] # "idle" /\ UNCHANGED at /\ mem' = [mem EXCEPT ![t] = st]
    BY <1>5, ApplyDoes
  <2>6. \A x \in FluxApp : live'[x] = In(st, x)
    <3>1. FluxIs(mem[t])
      BY <1>2, <2>2, <2>5
    <3>2. \A x \in FluxApp : x \in Components /\ (k \in FluxApp \/ x # k)
      BY DEF Components
    <3>3. QED
      BY <1>1, <2>3, <2>4, <3>1, <3>2, PatchedIs DEF FluxIs
  <2>7. QED
    BY <1>2, <1>4, <2>2, <2>5, <2>6
<1>6. ASSUME NEW t \in Tools, NEW k \in Components, Revert(t, k)
      PROVE  /\ Idle' => FluxIs(record)'
             /\ \A u \in Tools : at'[u] # "idle" => FluxIs(mem[u])'
  <2> DEFINE e == mem[t][k]
             st == Without(mem[t], k)
  <2>1. PICK done \in Outcomes :
          /\ Image(done, k, Restored(st, k, e))
          /\ odd' = odd \cup (When(Buried(st, k), "crossed") \cup When(done # Calls, "refused"))
    BY <1>6, RevertDoes
  <2>2. done = Calls /\ odd \subseteq odd'
    BY <2>1 DEF When
  <2>3. live' = Restored(st, k, e)
    BY <2>1, <2>2 DEF Image, Calls
  <2>4. at[t] # "idle" /\ UNCHANGED at /\ mem' = [mem EXCEPT ![t] = st] /\ k \in DOMAIN mem[t]
    BY <1>6, RevertDoes
  <2>5. IsEntry(k, e) /\ Entries(st) /\ \A x \in Components \ {k} : In(st, x) = In(mem[t], x)
    <3>1. Entries(mem[t])
      BY <1>1
    <3>2. QED
      BY <2>4, <3>1, TakenEntry DEF Entries
  <2>6. \A x \in FluxApp : live'[x] = In(st, x)
    <3>1. FluxIs(mem[t])
      BY <1>2, <2>2, <2>4
    <3>2. QED
      BY <1>1, <2>3, <2>4, <3>1, FluxReverts
  <2>7. QED
    BY <1>2, <1>4, <2>2, <2>4, <2>6
<1>7. ASSUME DeployApp
      PROVE  /\ Idle' => FluxIs(record)'
             /\ \A u \in Tools : at'[u] # "idle" => FluxIs(mem[u])'
  <2>1. /\ UNCHANGED <<record, at, mem>>
        /\ odd' = odd \cup When(live' # live, "deployed")
    BY <1>7 DEF DeployApp, Odd
  <2>2. live' = live /\ odd \subseteq odd'
    BY <2>1 DEF When
  <2>3. QED
    BY <1>2, <2>1, <2>2 DEF FluxIs, Idle
<1>8. QED
  BY <1>3, <1>5, <1>6, <1>7 DEF OverrideNext

-----------------------------------------------------------------------------
(* The images of the chart, and the controllers.                            *)

\* What the rest of the components is, with the images they will have.
Agrees(st) == FoundAlone(st) /\ KeepsEarlier(st) /\ InOrder(st)

LEMMA RestApplies ==
  ASSUME live \in Lives, NEW st, Entries(st), RestIs(st),
         NEW k \in Components \ DOMAIN st, NEW e, IsEntry(k, e),
         e.orig = [x \in Kept(k) |-> live[x]], live' = Patched(With(st, k, e), k)
  PROVE  /\ \A x \in Chart \cup Ctrls : live'[x] = In(With(st, k, e), x)
         /\ Agrees(With(st, k, e))
<1> DEFINE new == With(st, k, e)
<1>1. /\ Entries(new) /\ DOMAIN new = DOMAIN st \cup {k} /\ new[k] = e
      /\ \A x \in DOMAIN st : new[x] = st[x]
      /\ \A x \in Components \ {k} : In(new, x) = In(st, x)
  BY AddedEntry
<1>2. In(st, k) = Orig /\ \A x \in DOMAIN st : In(st, x) = st[x].image
  BY DEF In
<1>3. \A x \in Chart \cup Ctrls : live[x] = In(st, x) /\ x \in Components /\ x \notin FluxApp
  BY KindsAssumption DEF RestIs, OthersAre, Components
<1>4. \A x \in Chart \cup Ctrls : live'[x] = In(new, x)
  <2>1. ASSUME NEW x \in Chart \cup Ctrls PROVE live'[x] = In(new, x)
    <3>1. live'[x] = IF k \in FluxApp THEN live[x]
                     ELSE IF x = k THEN In(new, k) ELSE live[x]
      BY <1>1, <1>3, PatchedIs
    <3>2. k \in FluxApp => x # k
      BY <1>3
    <3>3. QED
      BY <1>1, <1>3, <3>1, <3>2
  <2>2. QED
    BY <2>1
<1>5. \A x \in Kept(k) : e.orig[x] = In(st, x)
  BY <1>3 DEF Kept
<1>6. k \in Chart \cup Ctrls => e.orig[k] = Orig
  BY <1>2, <1>5 DEF Kept
<1>7. FoundAlone(new)
  BY <1>1, <1>6 DEF FoundAlone, RestIs
<1>8. KeepsEarlier(new)
  <2>1. ASSUME NEW y \in DOMAIN new \cap Chart, NEW x \in Chart
        PROVE  new[y].orig[x] \in {Orig, In(new, x)}
    <3>1. CASE y = k
      <4>1. x \in Kept(k) /\ x \in Components
        BY <3>1 DEF Kept, Components
      <4>2. e.orig[x] = In(st, x)
        BY <1>5, <4>1
      <4>3. QED
        BY <1>1, <1>2, <3>1, <4>1, <4>2
    <3>2. CASE y # k
      <4>1. st[y].orig[x] \in {Orig, In(st, x)}
        BY <1>1, <3>2 DEF RestIs, KeepsEarlier
      <4>2. x \in Components
        BY DEF Components
      <4>3. QED
        BY <1>1, <1>2, <3>2, <4>1, <4>2
    <3>3. QED
      BY <3>1, <3>2
  <2>2. QED
    BY <2>1 DEF KeepsEarlier
<1>9. InOrder(new)
  <2>1. ASSUME NEW y \in DOMAIN st \cap Chart, k \in Chart PROVE e.orig[y] = st[y].image
    BY <1>2, <1>5, <2>1 DEF Kept
  <2>2. QED
    BY <1>1, <2>1 DEF InOrder, RestIs
<1>10. QED
  BY <1>4, <1>7, <1>8, <1>9 DEF Agrees

LEMMA RestReverts ==
  ASSUME live \in Lives, NEW st, Entries(st), RestIs(st), NEW k \in DOMAIN st,
         ~Buried(Without(st, k), k), live' = Restored(Without(st, k), k, st[k])
  PROVE  /\ \A x \in Chart \cup Ctrls : live'[x] = In(Without(st, k), x)
         /\ Agrees(Without(st, k))
<1> DEFINE new == Without(st, k)
           e == st[k]
<1>1. /\ k \in Components /\ IsEntry(k, e) /\ Entries(new) /\ DOMAIN new = DOMAIN st \ {k}
      /\ \A x \in DOMAIN new : new[x] = st[x]
      /\ In(new, k) = Orig /\ \A x \in Components \ {k} : In(new, x) = In(st, x)
  BY TakenEntry DEF Entries
<1>2. \A x \in Components : In(st, x) = IF x \in DOMAIN st THEN st[x].image ELSE Orig
  BY DEF In
<1>3. \A x \in Chart \cup Ctrls : live[x] = In(st, x) /\ x \in Components /\ x \notin FluxApp
  BY KindsAssumption DEF RestIs, OthersAre, Components
\* Nothing later is left, so this entry has kept what the others have given.
<1>4. ASSUME k \in Chart, NEW x \in DOMAIN new \cap Chart PROVE new[x].orig[k] = Orig
  BY <1>1, <1>4 DEF Buried
<1>5. ASSUME k \in Chart, NEW x \in Chart PROVE e.orig[x] = In(new, x)
  <2>1. CASE x = k
    BY <1>1, <1>5, <2>1 DEF RestIs, FoundAlone
  <2>2. CASE x # k /\ x \in DOMAIN st
    <3>1. st[x].orig[k] = Orig
      BY <1>1, <1>4, <1>5, <2>2
    <3>2. st[k].image # Orig
      BY <1>1, OrigAssumption DEF IsEntry
    <3>3. e.orig[x] = st[x].image
      BY <1>5, <2>2, <3>1, <3>2 DEF RestIs, InOrder
    <3>4. QED
      BY <1>1, <1>2, <1>3, <2>2, <3>3
  <2>3. CASE x \notin DOMAIN st
    <3>1. e.orig[x] \in {Orig, In(st, x)}
      BY <1>5 DEF RestIs, KeepsEarlier
    <3>2. QED
      BY <1>1, <1>2, <1>3, <2>3, <3>1
  <2>4. QED
    BY <2>1, <2>2, <2>3
<1>6. \A x \in Chart \cup Ctrls : live'[x] = In(new, x)
  <2>1. ASSUME NEW x \in Chart \cup Ctrls PROVE live'[x] = In(new, x)
    <3>1. live'[x] = IF k \in FluxApp THEN live[x]
                     ELSE IF x \in Kept(k) THEN e.orig[x] ELSE live[x]
      BY <1>1, <1>3, RestoredIs
    <3>2. k \in FluxApp => x # k
      BY <1>3
    <3>3. CASE k \notin FluxApp /\ x \in Kept(k)
      <4>1. CASE k \in Chart
        <5>1. x \in Chart
          BY <3>3, <4>1 DEF Kept
        <5>2. QED
          BY <1>5, <3>1, <3>3, <4>1, <5>1
      <4>2. CASE k \notin Chart
        <5>1. x = k /\ k \in Ctrls
          BY <3>3, <4>2 DEF Kept
        <5>2. e.orig[k] = Orig
          BY <5>1 DEF RestIs, FoundAlone
        <5>3. QED
          BY <1>1, <3>1, <3>3, <5>1, <5>2
      <4>3. QED
        BY <4>1, <4>2
    <3>4. CASE k \in FluxApp \/ x \notin Kept(k)
      <4>1. x # k
        BY <1>1, <3>2, <3>4 DEF Kept
      <4>2. QED
        BY <1>1, <1>3, <3>1, <3>4, <4>1
    <3>5. QED
      BY <3>3, <3>4
  <2>2. QED
    BY <2>1
<1>7. FoundAlone(new) /\ InOrder(new)
  BY <1>1 DEF FoundAlone, InOrder, RestIs
<1>8. KeepsEarlier(new)
  <2>1. ASSUME NEW y \in DOMAIN new \cap Chart, NEW x \in Chart
        PROVE  new[y].orig[x] \in {Orig, In(new, x)}
    <3>1. new[y].orig[x] \in {Orig, In(st, x)}
      BY <1>1 DEF RestIs, KeepsEarlier
    <3>2. CASE x = k
      BY <1>4, <3>2
    <3>3. CASE x # k
      BY <1>1, <1>3, <3>1, <3>3
    <3>4. QED
      BY <3>2, <3>3
  <2>2. QED
    BY <2>1 DEF KeepsEarlier
<1>9. QED
  BY <1>6, <1>7, <1>8 DEF Agrees

LEMMA RestStep ==
  ASSUME OverrideTypes, OneAtWork, RestFollows, OverrideNext
  PROVE  RestFollows'
<1> DEFINE Goal == /\ Idle' => RestIs(record)'
                   /\ \A u \in Tools : at'[u] # "idle" => RestIs(mem[u])'
<1> SUFFICES ASSUME odd' \cap {"refused", "cut", "unread", "raced", "again", "crossed"} = {}
             PROVE  Goal
  BY DEF RestFollows
<1>1. /\ live \in Lives /\ Entries(record) /\ mem = [t \in Tools |-> mem[t]]
      /\ \A t \in Tools : Entries(mem[t])
  BY DEF OverrideTypes, OverrideTypeOK, Lives
<1>2. ASSUME odd \subseteq odd'
      PROVE  /\ Idle => RestIs(record)
             /\ \A u \in Tools : at[u] # "idle" => RestIs(mem[u])
             /\ "raced" \notin odd
  BY <1>2 DEF RestFollows
<1>3. ASSUME NEW st, RestIs(st), \A x \in Chart \cup Ctrls : live'[x] = live[x]
      PROVE  RestIs(st)'
  BY <1>3 DEF RestIs, OthersAre, FoundAlone, KeepsEarlier, InOrder
<1>4. ASSUME NEW t \in Tools, Start(t) \/ Save(t) \/ Killed(t) PROVE Goal
  <2>1. /\ live' = live /\ odd' = odd
        /\ \/ /\ Idle /\ ~Idle'
              /\ \A u \in Tools : at'[u] # "idle" => mem'[u] = record
           \/ at[t] # "idle" /\ Idle' /\ record' = mem[t]
    BY <1>4, Handover DEF shared
  <2>2. CASE Idle /\ ~Idle' /\ \A u \in Tools : at'[u] # "idle" => mem'[u] = record
    BY <1>2, <2>1, <2>2 DEF RestIs, OthersAre
  <2>3. CASE at[t] # "idle" /\ Idle' /\ record' = mem[t]
    BY <1>2, <2>1, <2>3 DEF RestIs, OthersAre, Idle
  <2>4. QED
    BY <2>1, <2>2, <2>3
\* A step of the one at work.
<1>5. ASSUME NEW t \in Tools, NEW st, UNCHANGED at, at[t] # "idle", "raced" \notin odd,
             mem' = [mem EXCEPT ![t] = st], \A x \in Chart \cup Ctrls : live'[x] = In(st, x),
             Agrees(st)
      PROVE  Goal
  <2>1. ~Idle' /\ \A u \in Tools : at'[u] # "idle" => u = t
    BY <1>5, AtWork DEF Idle
  <2>2. mem'[t] = st
    BY <1>1, <1>5
  <2>3. RestIs(mem[t])'
    BY <1>5, <2>2 DEF Agrees, RestIs, OthersAre
  <2>4. QED
    BY <2>1, <2>3
<1>6. ASSUME NEW t \in Tools, NEW k \in Components, NEW i \in Images, Apply(t, k, i) PROVE Goal
  <2> DEFINE st == Applied(t, k, i)
  <2>1. PICK done \in Outcomes :
          /\ Image(done, k, Patched(st, k))
          /\ odd' = odd \cup (When(k \in DOMAIN mem[t], "again") \cup When(done # Calls, "refused"))
    BY <1>6, ApplyDoes
  <2>2. done = Calls /\ odd \subseteq odd' /\ k \notin DOMAIN mem[t]
    BY <2>1 DEF When
  <2>3. live' = Patched(st, k)
    BY <2>1, <2>2 DEF Image, Calls
  <2>4. at[t] # "idle" /\ UNCHANGED at /\ mem' = [mem EXCEPT ![t] = st]
    BY <1>6, ApplyDoes
  <2>5. /\ Entries(mem[t]) /\ RestIs(mem[t]) /\ IsEntry(k, NewEntry(t, k, i))
        /\ NewEntry(t, k, i).orig = [x \in Kept(k) |-> live[x]]
    BY <1>1, <1>2, <2>2, <2>4, NewIsEntry DEF NewEntry
  <2>6. (\A x \in Chart \cup Ctrls : live'[x] = In(st, x)) /\ Agrees(st)
    BY <1>1, <2>2, <2>3, <2>5, RestApplies DEF Applied
  <2>7. QED
    BY <1>2, <1>5, <2>2, <2>4, <2>6
<1>7. ASSUME NEW t \in Tools, NEW k \in Components, Revert(t, k) PROVE Goal
  <2> DEFINE st == Without(mem[t], k)
  <2>1. PICK done \in Outcomes :
          /\ Image(done, k, Restored(st, k, mem[t][k]))
          /\ odd' = odd \cup (When(Buried(st, k), "crossed") \cup When(done # Calls, "refused"))
    BY <1>7, RevertDoes
  <2>2. done = Calls /\ odd \subseteq odd' /\ ~Buried(st, k)
    BY <2>1 DEF When
  <2>3. live' = Restored(st, k, mem[t][k])
    BY <2>1, <2>2 DEF Image, Calls
  <2>4. at[t] # "idle" /\ UNCHANGED at /\ mem' = [mem EXCEPT ![t] = st] /\ k \in DOMAIN mem[t]
    BY <1>7, RevertDoes
  <2>5. Entries(mem[t]) /\ RestIs(mem[t])
    BY <1>1, <1>2, <2>2, <2>4
  <2>6. (\A x \in Chart \cup Ctrls : live'[x] = In(st, x)) /\ Agrees(st)
    BY <1>1, <2>2, <2>3, <2>4, <2>5, RestReverts
  <2>7. QED
    BY <1>2, <1>5, <2>2, <2>4, <2>6
<1>8. ASSUME DeployApp PROVE Goal
  <2>1. /\ UNCHANGED <<record, at, mem>> /\ odd \subseteq odd' /\ live' = Rebuilt(NoOverrides)
    BY <1>8 DEF DeployApp, Odd
  <2>2. \A x \in Chart \cup Ctrls : live'[x] = live[x]
    BY <1>1, <2>1, RebuiltIs, NoneEntry, KindsAssumption DEF Components
  <2>3. QED
    BY <1>2, <1>3, <2>1, <2>2 DEF Idle
<1>9. QED
  BY <1>4, <1>6, <1>7, <1>8 DEF OverrideNext

-----------------------------------------------------------------------------
(* The pull secret and the operator.                                        *)

LEMMA TracesStep ==
  ASSUME OverrideTypes, OneAtWork, TracesFollow, OverrideNext
  PROVE  TracesFollow'
<1> DEFINE Goal == /\ Idle' => TracesOf(record)'
                   /\ \A u \in Tools : at'[u] # "idle" => TracesOf(mem[u])'
<1> SUFFICES ASSUME odd' \cap {"refused", "cut", "unread", "raced", "again"} = {}
             PROVE  Goal
  BY DEF TracesFollow
<1>1. /\ operator \in BOOLEAN /\ mem = [t \in Tools |-> mem[t]]
      /\ \A t \in Tools : Entries(mem[t])
  BY DEF OverrideTypes, OverrideTypeOK
<1>2. ASSUME odd \subseteq odd'
      PROVE  /\ Idle => TracesOf(record)
             /\ \A u \in Tools : at[u] # "idle" => TracesOf(mem[u])
             /\ "raced" \notin odd
  BY <1>2 DEF TracesFollow
<1>3. ASSUME NEW t \in Tools, Start(t) \/ Save(t) \/ Killed(t) PROVE Goal
  <2>1. /\ secrets' = secrets /\ operator' = operator /\ odd' = odd
        /\ \/ /\ Idle /\ ~Idle'
              /\ \A u \in Tools : at'[u] # "idle" => mem'[u] = record
           \/ at[t] # "idle" /\ Idle' /\ record' = mem[t]
    BY <1>3, Handover DEF shared
  <2>2. CASE Idle /\ ~Idle' /\ \A u \in Tools : at'[u] # "idle" => mem'[u] = record
    BY <1>2, <2>1, <2>2 DEF TracesOf
  <2>3. CASE at[t] # "idle" /\ Idle' /\ record' = mem[t]
    BY <1>2, <2>1, <2>3 DEF TracesOf, Idle
  <2>4. QED
    BY <2>1, <2>2, <2>3
\* A step of the one at work.
<1>4. ASSUME NEW t \in Tools, NEW st, UNCHANGED at, at[t] # "idle", "raced" \notin odd,
             mem' = [mem EXCEPT ![t] = st],
             \A n \in secrets' : \E k \in DOMAIN st : st[k].secret /\ n = Ns(k),
             ~operator' => \E k \in DOMAIN st : st[k].held
      PROVE  Goal
  <2>1. ~Idle' /\ \A u \in Tools : at'[u] # "idle" => u = t
    BY <1>4, AtWork DEF Idle
  <2>2. mem'[t] = st
    BY <1>1, <1>4
  <2>3. TracesOf(mem[t])'
    BY <1>4, <2>2 DEF TracesOf
  <2>4. QED
    BY <2>1, <2>3
<1>5. ASSUME NEW t \in Tools, NEW k \in Components, NEW i \in Images, Apply(t, k, i) PROVE Goal
  <2> DEFINE e == NewEntry(t, k, i)
             st == Applied(t, k, i)
  <2>1. PICK done \in Outcomes :
          /\ operator' = (operator /\ ~(e.held /\ "operator" \in done))
          /\ secrets' = secrets \cup (IF e.secret /\ "secret" \in done THEN {Ns(k)} ELSE {})
          /\ odd' = odd \cup (When(k \in DOMAIN mem[t], "again") \cup When(done # Calls, "refused"))
    BY <1>5, ApplyDoes
  <2>2. done = Calls /\ odd \subseteq odd' /\ k \notin DOMAIN mem[t]
    BY <2>1 DEF When
  <2>3. at[t] # "idle" /\ UNCHANGED at /\ mem' = [mem EXCEPT ![t] = st]
    BY <1>5, ApplyDoes
  <2>4. /\ DOMAIN st = DOMAIN mem[t] \cup {k} /\ st[k] = e
        /\ \A x \in DOMAIN mem[t] : st[x] = mem[t][x]
    <3>1. st = With(mem[t], k, e)
      BY DEF Applied
    <3>2. QED
      BY <2>2, <3>1 DEF With
  <2>5. TracesOf(mem[t])
    BY <1>2, <2>2, <2>3
  <2>6. \A n \in secrets' : \E x \in DOMAIN st : st[x].secret /\ n = Ns(x)
    <3>1. ASSUME NEW n \in secrets PROVE \E x \in DOMAIN st : st[x].secret /\ n = Ns(x)
      BY <2>4, <2>5 DEF TracesOf
    <3>2. secrets' \subseteq secrets \cup (IF e.secret THEN {Ns(k)} ELSE {})
      BY <2>1
    <3>3. QED
      BY <2>4, <3>1, <3>2
  <2>7. ~operator' => \E x \in DOMAIN st : st[x].held
    <3>1. ~operator => \E x \in DOMAIN st : st[x].held
      BY <2>4, <2>5 DEF TracesOf
    <3>2. e.held => \E x \in DOMAIN st : st[x].held
      BY <2>4
    <3>3. QED
      BY <2>1, <3>1, <3>2
  <2>8. QED
    BY <1>2, <1>4, <2>2, <2>3, <2>6, <2>7
<1>6. ASSUME NEW t \in Tools, NEW k \in Components, Revert(t, k) PROVE Goal
  <2> DEFINE e == mem[t][k]
             st == Without(mem[t], k)
  <2>1. PICK done \in Outcomes :
          /\ operator' = IF "operator" \in done THEN Frees(e) ELSE operator
          /\ secrets' = secrets \ (IF e.secret /\ "secret" \in done THEN {Ns(k)} ELSE {})
          /\ odd' = odd \cup (When(Buried(st, k), "crossed") \cup When(done # Calls, "refused"))
    BY <1>6, RevertDoes
  <2>2. done = Calls /\ odd \subseteq odd'
    BY <2>1 DEF When
  <2>3. operator' = Frees(e) /\ secrets' = secrets \ (IF e.secret THEN {Ns(k)} ELSE {})
    BY <2>1, <2>2 DEF Calls
  <2>4. at[t] # "idle" /\ UNCHANGED at /\ mem' = [mem EXCEPT ![t] = st] /\ k \in DOMAIN mem[t]
    BY <1>6, RevertDoes
  <2>5. DOMAIN st = DOMAIN mem[t] \ {k} /\ \A x \in DOMAIN st : st[x] = mem[t][x]
    BY <1>1, TakenEntry
  <2>6. TracesOf(mem[t])
    BY <1>2, <2>2, <2>4
  <2>7. \A n \in secrets' : \E x \in DOMAIN st : st[x].secret /\ n = Ns(x)
    <3>1. SUFFICES ASSUME NEW n \in secrets' PROVE \E x \in DOMAIN st : st[x].secret /\ n = Ns(x)
      OBVIOUS
    <3>2. n \in secrets /\ (e.secret => n # Ns(k))
      BY <2>3
    <3>3. PICK x \in DOMAIN mem[t] : mem[t][x].secret /\ n = Ns(x)
      BY <2>6, <3>2 DEF TracesOf
    <3>4. x # k
      BY <3>2, <3>3
    <3>5. QED
      BY <2>5, <3>3, <3>4
  <2>8. ~operator' => \E x \in DOMAIN st : st[x].held
    <3>1. SUFFICES ASSUME ~operator' PROVE \E x \in DOMAIN st : st[x].held
      OBVIOUS
    <3>2. ~operator /\ ~e.held
      BY <2>3, <3>1 DEF Frees
    <3>3. PICK x \in DOMAIN mem[t] : mem[t][x].held
      BY <2>6, <3>2 DEF TracesOf
    <3>4. x # k
      BY <3>2, <3>3
    <3>5. QED
      BY <2>5, <3>3, <3>4
  <2>9. QED
    BY <1>2, <1>4, <2>2, <2>4, <2>7, <2>8
<1>7. ASSUME DeployApp PROVE Goal
  <2>1. UNCHANGED <<operator, secrets, record, at, mem>> /\ odd \subseteq odd'
    BY <1>7 DEF DeployApp, Odd
  <2>2. QED
    BY <1>2, <2>1 DEF TracesOf, Idle
<1>8. QED
  BY <1>3, <1>5, <1>6, <1>7 DEF OverrideNext

-----------------------------------------------------------------------------
(* What the tool promises.                                                  *)

THEOREM OverrideInvariance == OverrideSpec => []OverrideInv
<1>1. OverrideInit => OverrideInv
  <2> SUFFICES ASSUME OverrideInit PROVE OverrideInv
    OBVIOUS
  <2>1. OverrideTypes
    <3>1. OverrideTypeOK
      <4>1. IsRecord(NoOverrides)
        BY DEF IsRecord, NoOverrides
      <4>2. ops \in 0..MaxOps
        BY MaxOpsAssumption DEF OverrideInit
      <4>3. QED
        BY <4>1, <4>2 DEF OverrideInit, OverrideTypeOK
    <3>2. Entries(record) /\ mem = [t \in Tools |-> mem[t]] /\ \A t \in Tools : Entries(mem[t])
      BY NoneEntry DEF OverrideInit
    <3>3. QED
      BY <3>1, <3>2 DEF OverrideTypes
  <2>2. OneAtWork /\ Idle
    BY DEF OverrideInit, OneAtWork, Idle
  <2>3. DOMAIN record = {} /\ \A k \in Components : In(record, k) = Orig
    BY NoneEntry DEF OverrideInit, NoOverrides
  <2>4. FluxIs(record) /\ RestIs(record)
    BY <2>3 DEF OverrideInit, FluxIs, RestIs, OthersAre, FoundAlone, KeepsEarlier, InOrder,
       Components
  <2>5. TracesOf(record)
    BY DEF OverrideInit, TracesOf
  <2>6. QED
    BY <2>1, <2>2, <2>4, <2>5 DEF OverrideInv, FluxFollows, RestFollows, TracesFollow, Idle
<1>2. OverrideInv /\ [OverrideNext]_overrideVars => OverrideInv'
  <2>1. ASSUME OverrideInv, OverrideNext PROVE OverrideInv'
    BY <2>1, OverrideTypesStep, WorkStep, FluxStep, RestStep, TracesStep DEF OverrideInv
  <2>2. ASSUME OverrideInv, UNCHANGED overrideVars PROVE OverrideInv'
    BY <2>2 DEF OverrideInv, overrideVars, shared, OverrideTypes, OverrideTypeOK, OneAtWork,
       FluxFollows, RestFollows, TracesFollow, FluxIs, RestIs, OthersAre, TracesOf, Idle
  <2>3. QED
    BY <2>1, <2>2
<1>3. QED
  BY <1>1, <1>2, PTL DEF OverrideSpec

\* Between the runs the components run what the record says, for any number of images and
\* of runs (override_image.py's apply_one, revert_one and state_save).
THEOREM RecordSpeaks == OverrideSpec => []RecordIsLive
<1>1. OverrideInv => RecordIsLive
  BY DEF OverrideInv, FluxFollows, RestFollows, FluxIs, RestIs, OthersAre, RecordIsLive, Clean,
     Recorded, In
<1>2. QED
  BY <1>1, OverrideInvariance, PTL

\* With nothing recorded the operator is up and no ServiceAccount has the pull secret.
THEOREM NothingStays == OverrideSpec => []NothingLeftBehind
<1>1. OverrideInv => NothingLeftBehind
  <2> SUFFICES ASSUME OverrideInv, Clean({"refused", "cut", "unread", "raced", "again"}), DOMAIN record = {}
               PROVE  operator /\ secrets = {}
    BY DEF NothingLeftBehind
  <2>1. TracesOf(record)
    BY DEF OverrideInv, TracesFollow, Clean
  <2>2. QED
    BY <2>1 DEF TracesOf
<1>2. QED
  BY <1>1, OverrideInvariance, PTL
=============================================================================
