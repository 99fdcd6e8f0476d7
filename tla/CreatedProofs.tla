---------------------------- MODULE CreatedProofs ----------------------------
(* A created cluster up to its template (create_cluster and finish_cluster of *)
(* steps.py, freeze.py), for any volumes, nodes and number of freezes: what   *)
(* is frozen has your override and, if asserted, runs and has run your image; *)
(* its snapshots are final, and it is dead.                                   *)
EXTENDS Created, TLAPS

-----------------------------------------------------------------------------
(* The inductive invariant of the create, part by part.                     *)

\* The mode says "created" behind the fingerprint only.
ModeIsLate ==
  /\ mode = "created" => main \in {"scenario", "finish"} \cup Delivery!Ended
  /\ main = "scenario" => mode = "created"
  /\ mode = "created-incomplete" => version.now = 1 /\ asserted = "none" /\ main # "freeze"

\* Your override is on the cluster from the second seed on.
SeededByThen ==
  main \in {"install", "retry", "deliver", "fingerprint"} \/ mode = "created" => HrName \in cm

\* So what an assertion has found to run yours is rendered to nothing else, until it is
\* upgraded.
AssertedRuns == asserted # "none" => version.now = 2 \/ running = "yours"

\* The fingerprint is of what was created, unless it was not read.
BornAsCreated == mode = "created" => blind \/ version.born = 1

\* What a strict assertion has passed has run nothing else, until it is upgraded.
AssertedIsClean == asserted = "strict" => tainted \/ version.now = 2 \/ gens = {"yours"}

\* Only what is neither tainted nor upgraded goes to the freeze, unless a fingerprint was
\* not read.
FreezeIsClean == main = "freeze" => blind \/ (~tainted /\ version.now = 1)

CreateInv == /\ Delivery!TypeOK
             /\ ModeIsLate /\ SeededByThen /\ BornAsCreated
             /\ AssertedRuns /\ AssertedIsClean /\ FreezeIsClean

-----------------------------------------------------------------------------
(* The inductive invariant of the freeze, part by part.                     *)

Orderly == ~Freeze!Said({"undrained", "loose", "thawed"})
Quiesced == {"drain", "pause", "points", "scope", "identity", "record", "off", "dead", "mirror",
             "complete"}
Drained == Quiesced \ {"drain"}
Snapped == Drained \ {"pause", "points"}

\* Nothing scales a consumer up behind the suspension, and none lacks its volume.
StaysDown ==
  Orderly => /\ wanted \subseteq attached
             /\ ~suspended => wanted = Vols
             /\ freeze \in {"scale"} \cup Quiesced => suspended

\* Behind the drain no volume is attached.
DrainedIsDetached == Orderly /\ freeze \in Drained => attached = {}

\* A recovery point is of a volume that nobody writes to any more, a reused one included.
PointsAreFinal ==
  Orderly => \A v \in Vols : point[v] # Freeze!None => attached = {} /\ point[v] = content[v]

\* Behind the recovery points every volume has one.
TakenHasPoint ==
  /\ \A v \in taken : point[v] # Freeze!None
  /\ freeze \in Snapped => \A v \in Vols : point[v] # Freeze!None

Seen == ~Freeze!Said({"warned", "blind", "unpaused"})
Scoped == {"record", "off", "dead"}

\* The cluster is paused from the pause on.
PausedBehind == Seen /\ freeze \in Snapped \cup {"points"} => paused

\* What is powered off is what the nodes run on, those without a providerID apart.
OwnIsKnown == Seen /\ freeze \in Scoped => Freeze!Known \subseteq own

\* Behind the power-off no such node is up.
OffIsOff == Seen /\ freeze \in {"dead", "mirror", "complete"} => up \subseteq blank

\* Behind the check the control plane is silent, unless the check was fooled.
SilentBehind ==
  freeze \in {"mirror", "complete"} /\ Freeze!Serves => Freeze!Said({"blip"})

FreezeInv == /\ Freeze!TypeOK
             /\ StaysDown /\ DrainedIsDetached /\ PointsAreFinal /\ TakenHasPoint
             /\ PausedBehind /\ OwnIsKnown /\ OffIsOff /\ SilentBehind

IInv == CreateInv /\ FreezeInv

-----------------------------------------------------------------------------
(* The create.                                                              *)

Delivered == /\ ModeIsLate /\ SeededByThen /\ BornAsCreated
             /\ AssertedRuns /\ AssertedIsClean /\ FreezeIsClean

\* A step that leaves the component, the mode and the verdicts alone.
LEMMA CreateRests ==
  ASSUME Delivered, UNCHANGED <<mode, running, gens, asserted, tainted, version, blind>>,
         cm \subseteq cm',
         main' = main \/ (main' # "fingerprint" /\ main \notin {"scenario"} \cup Delivery!Ended
                          /\ main' \notin {"scenario", "freeze"}
                          /\ (main = "finish" => main' = "finish")),
         main' \in {"install", "retry", "deliver"} =>
           main \in {"install", "retry", "deliver"} \/ HrName \in cm'
  PROVE  Delivered'
BY DEF Delivered, ModeIsLate, SeededByThen, BornAsCreated, AssertedRuns, AssertedIsClean,
   FreezeIsClean, Delivery!Ended

\* The steps of the thread, of the new cluster's control plane and of the create up to the
\* install only seed, or raise.
LEMMA CreateSeeds ==
  ASSUME Delivery!TypeOK, Delivered,
         \/ Delivery!Look \/ (\E n \in HrNames : Delivery!Seeds(n)) \/ Delivery!Seeded
         \/ Delivery!Dies \/ Delivery!Comes
         \/ Delivery!Sweep \/ Delivery!Reset \/ Delivery!Create \/ Delivery!Gate
         \/ Delivery!Preseed \/ Delivery!Install
  PROVE  Delivered'
<1> USE DEF Delivery!world, Delivery!seed, Delivery!code, Delivery!test, Delivery!Step,
            Delivery!Raises, Delivery!Ended
<1>1. CASE Delivery!Look \/ Delivery!Seeded \/ Delivery!Dies \/ Delivery!Comes
           \/ (\E n \in HrNames : Delivery!Seeds(n))
  BY <1>1, CreateRests DEF Delivery!Look, Delivery!Seeded, Delivery!Dies, Delivery!Comes,
     Delivery!Seeds
<1>2. CASE Delivery!Sweep \/ Delivery!Reset \/ Delivery!Create \/ Delivery!Gate
  BY <1>2, CreateRests DEF Delivery!Sweep, Delivery!Reset, Delivery!Create, Delivery!Gate
<1>3. CASE Delivery!Preseed \/ Delivery!Install
  BY <1>3, CreateRests, NameAssumption
     DEF Delivery!Preseed, Delivery!Install, Delivery!TypeOK
<1>4. QED
  BY <1>1, <1>2, <1>3

\* The steps that render, deliver, test, upgrade and decide.
LEMMA CreateDelivers ==
  ASSUME Delivery!TypeOK, Delivered,
         \/ Delivery!Render \/ Delivery!Deliver \/ Delivery!Fingerprint \/ Delivery!Assert
         \/ Delivery!Upgrades \/ Delivery!Ends \/ Delivery!Finish
  PROVE  Delivered'
<1> USE DEF Delivery!world, Delivery!seed, Delivery!code, Delivery!test, Delivery!Step,
            Delivery!Raises, Delivery!Ended, Delivery!TypeOK,
            Delivered, ModeIsLate, SeededByThen, BornAsCreated, AssertedRuns,
            AssertedIsClean, FreezeIsClean
<1>1. CASE Delivery!Render
  <2>1. running # "other" /\ main \notin Delivery!Ended
        /\ running' = (IF HrName \in cm THEN "yours" ELSE "ga") /\ gens' = gens \cup {running'}
        /\ UNCHANGED <<main, mode, cm, asserted, tainted, version, blind>>
    BY <1>1 DEF Delivery!Render, Delivery!Live
  <2>2. ModeIsLate' /\ BornAsCreated' /\ FreezeIsClean'
    BY <2>1
  <2>3. SeededByThen'
    BY <2>1
  <2>4. AssertedIsClean'
    <3>1. asserted # "none" => mode = "created"
      OBVIOUS
    <3>2. QED
      BY <2>1, <3>1
  <2>5. AssertedRuns'
    <3>1. asserted # "none" => HrName \in cm
      OBVIOUS
    <3>2. QED
      BY <2>1, <3>1
  <2>6. QED
    BY <2>2, <2>3, <2>4, <2>5
<1>2. CASE Delivery!Deliver
  <2>1. mode = "created-incomplete"
    BY <1>2 DEF Delivery!Deliver
  <2>2. QED
    BY <1>2, <2>1 DEF Delivery!Deliver
<1>3. CASE Delivery!Fingerprint
  <2>1. mode = "created-incomplete" /\ version.now = 1 /\ asserted = "none"
    BY <1>3 DEF Delivery!Fingerprint
  <2>2. (blind' \/ version'.born = 1) /\ version'.now = 1
    BY <1>3, <2>1 DEF Delivery!Fingerprint
  <2>3. QED
    BY <1>3, <2>1, <2>2 DEF Delivery!Fingerprint
<1>4. CASE Delivery!Assert
  BY <1>4 DEF Delivery!Assert
<1>5. CASE Delivery!Upgrades
  <2>1. version'.now = 2 /\ version'.born = version.born
    BY <1>5 DEF Delivery!Upgrades
  <2>2. QED
    BY <1>5, <2>1 DEF Delivery!Upgrades
<1>6. CASE Delivery!Ends
  BY <1>6 DEF Delivery!Ends
<1>7. CASE Delivery!Finish
  <2>1. UNCHANGED <<mode, cm, running, gens, asserted, tainted, version>> /\ (blind => blind')
    BY <1>7 DEF Delivery!Finish
  <2>2. main = "finish" /\ main' \in Delivery!Ended
    BY <1>7 DEF Delivery!Finish
  <2>3. main' = "freeze" => mode = "created"
    BY <1>7 DEF Delivery!Finish
  <2>4. main' = "freeze" => blind' \/ (~tainted /\ version.now = 1)
    BY <1>7, <2>3 DEF Delivery!Finish
  <2>5. QED
    BY <2>1, <2>2, <2>3, <2>4
<1>8. QED
  BY <1>1, <1>2, <1>3, <1>4, <1>5, <1>6, <1>7


Places == /\ main \in {"sweep", "reset", "create", "gate", "preseed", "install", "retry",
                       "deliver", "fingerprint", "scenario", "finish"} \cup Delivery!Ended
          /\ mode \in {"created-incomplete", "created"}
          /\ left \in {"none", "answers", "swept"} /\ boot \in {"none", "old", "new"}
Threads == /\ watcher \in {"look", "seed", "done", "dead", "late"}
           /\ target \in {"none", "old", "new"}
           /\ cm \subseteq HrNames
Codes == /\ running \in {"none", "ga", "yours", "other"} /\ gens \subseteq {"ga", "yours", "other"}
Flags == /\ kubeconfig \in BOOLEAN /\ api \in BOOLEAN /\ asserted \in {"none", "runs", "strict"}
         /\ tainted \in BOOLEAN /\ blind \in BOOLEAN
Versions == version \in [now : 1..2, born : 0..1]

LEMMA CreateTypesSplit == Delivery!TypeOK <=> Places /\ Threads /\ Codes /\ Flags /\ Versions
BY DEF Delivery!TypeOK, Places, Threads, Codes, Flags, Versions

\* The create keeps its types.
LEMMA CreateTypes ==
  ASSUME Delivery!TypeOK, ModeIsLate, Delivery!Next
  PROVE  Delivery!TypeOK'
<1> USE NameAssumption
    DEF Delivery!world, Delivery!seed, Delivery!code, Delivery!test, Delivery!Step,
        Delivery!Raises, Delivery!Ended, Delivery!Next,
        Delivery!Look, Delivery!Seeded, Delivery!Dies, Delivery!Comes, Delivery!Seeds,
        Delivery!Sweep, Delivery!Reset, Delivery!Create, Delivery!Gate, Delivery!Preseed,
        Delivery!Install, Delivery!Render, Delivery!Deliver, Delivery!Fingerprint,
        Delivery!Upgrades, Delivery!Assert, Delivery!Ends, Delivery!Finish
<1>1. Places /\ Threads /\ Codes /\ Flags /\ Versions
  BY CreateTypesSplit
<1>2. Places'
  BY <1>1 DEF Places
<1>3. Threads'
  BY <1>1 DEF Threads
<1>4. Codes'
  BY <1>1 DEF Codes
<1>5. Flags'
  BY <1>1 DEF Flags
<1>6. Versions'
  <2>1. main = "fingerprint" => version.now = 1
    BY <1>1 DEF ModeIsLate, Places
  <2>2. version' = version \/ version' = [version EXCEPT !.now = 2]
        \/ (version' = [version EXCEPT !.born = version.now] /\ version.now = 1)
    BY <2>1
  <2>3. QED
    BY <1>1, <2>2 DEF Versions
<1>7. QED
  <2>1. (Places /\ Threads /\ Codes /\ Flags /\ Versions)'
    BY <1>2, <1>3, <1>4, <1>5, <1>6
  <2>2. QED
    BY <2>1 DEF Delivery!TypeOK, Places, Threads, Codes, Flags, Versions

-----------------------------------------------------------------------------
(* The freeze.                                                              *)

FreezePlaces ==
  /\ attempt \in 1..Attempts
  /\ freeze \in {"gates", "git", "suspend", "scale", "drain", "pause", "points", "scope",
                 "identity", "record", "off", "dead", "mirror"} \cup Freeze!Ended
  /\ odd \subseteq {"kept", "loose", "undrained", "unpaused", "blind", "warned", "blip",
                    "thawed"}
VolumeTypes ==
  /\ content \in [Vols -> 1..MaxVersion] /\ point \in [Vols -> 0..MaxVersion]
  /\ bundle \in 0..MaxVersion
NodeTypes ==
  /\ vm \in [Freeze!Nodes -> 1..2] /\ up \subseteq Freeze!Nodes
  /\ machine \in [Freeze!Nodes -> 0..2] /\ blank \subseteq Freeze!Nodes
  /\ own \subseteq Freeze!VMs
FreezeSets ==
  /\ wanted \subseteq Vols /\ attached \subseteq Vols /\ taken \subseteq Vols
  /\ mirrored \subseteq Freeze!Artifacts
FreezeFlags ==
  /\ suspended \in BOOLEAN /\ paused \in BOOLEAN /\ listed \in BOOLEAN /\ manifest \in BOOLEAN

\* The type invariant of the freeze, in groups.
LEMMA FreezeTypesSplit ==
  Freeze!TypeOK <=> FreezePlaces /\ VolumeTypes /\ NodeTypes /\ FreezeSets /\ FreezeFlags
BY DEF Freeze!TypeOK, FreezePlaces, VolumeTypes, NodeTypes, FreezeSets, FreezeFlags

\* The freeze keeps its types.
LEMMA FreezeTypes ==
  ASSUME Freeze!TypeOK, Freeze!Next
  PROVE  Freeze!TypeOK'
<1> USE GitAssumption, BoundAssumption
    DEF Freeze!cluster, Freeze!left, Freeze!run, Freeze!Step, Freeze!Fails, Freeze!Odd,
        Freeze!Works, Freeze!Ended, Freeze!None, Freeze!Next,
        Freeze!Write, Freeze!Attach, Freeze!Flux, Freeze!Replace, Freeze!Gates,
        Freeze!Captures, Freeze!Keeps, Freeze!Suspend, Freeze!Scale, Freeze!Drain,
        Freeze!Pause, Freeze!Mint, Freeze!Caches, Freeze!Scope, Freeze!Identity,
        Freeze!Record, Freeze!GoesOff, Freeze!Polled, Freeze!Dead, Freeze!Mirror,
        Freeze!Killed, Freeze!Thaw, Freeze!Again
<1>1. FreezePlaces /\ VolumeTypes /\ NodeTypes /\ FreezeSets /\ FreezeFlags
  BY FreezeTypesSplit
<1>2. FreezePlaces'
  <2>1. attempt' = attempt \/ (attempt' = attempt + 1 /\ attempt < Attempts)
    OBVIOUS
  <2>2. attempt' \in 1..Attempts
    <3>1. Attempts \in Nat /\ attempt \in 1..Attempts
      BY <1>1 DEF FreezePlaces
    <3>2. QED
      BY <2>1, <3>1 DEF FreezePlaces
  <2>3. freeze' \in {"gates", "git", "suspend", "scale", "drain", "pause", "points", "scope",
                 "identity", "record", "off", "dead", "mirror"} \cup Freeze!Ended
    BY <1>1 DEF FreezePlaces
  <2>4. odd' \subseteq {"kept", "loose", "undrained", "unpaused", "blind", "warned", "blip",
                        "thawed"}
    BY <1>1 DEF FreezePlaces
  <2>5. QED
    BY <2>2, <2>3, <2>4 DEF FreezePlaces
<1>3. VolumeTypes'
  <2>1. \/ content' = content
        \/ \E v \in Vols : content[v] < MaxVersion /\ content' = [content EXCEPT ![v] = @ + 1]
    OBVIOUS
  <2>2. point' = point \/ \E v \in Vols : point' = [point EXCEPT ![v] = content[v]]
    OBVIOUS
  <2>3. bundle' \in {bundle, content[Git]}
    OBVIOUS
  <2> HIDE DEF Freeze!Next
  <2>4. MaxVersion \in Nat
    OBVIOUS
  <2>5. content' \in [Vols -> 1..MaxVersion]
    BY <1>1, <2>1, <2>4 DEF VolumeTypes
  <2>6. point' \in [Vols -> 0..MaxVersion]
    BY <1>1, <2>2, <2>4 DEF VolumeTypes
  <2>7. bundle' \in 0..MaxVersion
    BY <1>1, <2>3, <2>4 DEF VolumeTypes
  <2>8. QED
    BY <2>5, <2>6, <2>7 DEF VolumeTypes
<1>4. NodeTypes'
  <2>1. vm' = vm \/ \E n \in Freeze!Nodes : vm' = [vm EXCEPT ![n] = 2]
    OBVIOUS
  <2>2. \/ machine' \in {machine, vm}
        \/ \E n \in Freeze!Nodes : machine' = [machine EXCEPT ![n] = 2]
    OBVIOUS
  <2>3. blank' = blank /\ (up' \subseteq up \/ up' = Freeze!Nodes)
    OBVIOUS
  <2>4. own' \in {{}, own, {<<n, machine[n]>> : n \in Freeze!Nodes}}
    OBVIOUS
  <2> HIDE DEF Freeze!Next
  <2>5. vm' \in [Freeze!Nodes -> 1..2] /\ machine' \in [Freeze!Nodes -> 0..2]
    BY <1>1, <2>1, <2>2 DEF NodeTypes
  <2>6. own' \subseteq Freeze!VMs
    BY <1>1, <2>4 DEF NodeTypes, Freeze!VMs
  <2>7. QED
    BY <1>1, <2>3, <2>5, <2>6 DEF NodeTypes
<1>5. FreezeSets'
  BY <1>1 DEF FreezeSets, Freeze!Artifacts
<1>6. FreezeFlags'
  BY <1>1 DEF FreezeFlags
<1>7. QED
  <2>1. (FreezePlaces /\ VolumeTypes /\ NodeTypes /\ FreezeSets /\ FreezeFlags)'
    BY <1>2, <1>3, <1>4, <1>5, <1>6
  <2>2. QED
    BY <2>1 DEF Freeze!TypeOK, FreezePlaces, VolumeTypes, NodeTypes, FreezeSets, FreezeFlags

Quieted == StaysDown /\ DrainedIsDetached /\ PointsAreFinal /\ TakenHasPoint
Silenced == PausedBehind /\ OwnIsKnown /\ OffIsOff /\ SilentBehind

\* The words that speak against the snapshots stay said.
LEMMA OrderlyBefore ==
  ASSUME Freeze!Next, Orderly'
  PROVE  Orderly /\ freeze' # "thawed"
<1> USE DEF Freeze!cluster, Freeze!left, Freeze!run, Freeze!Step, Freeze!Fails, Freeze!Odd,
     Freeze!Works, Freeze!Ended, Freeze!Next,
     Freeze!Write, Freeze!Attach, Freeze!Flux, Freeze!Replace, Freeze!Gates,
     Freeze!Captures, Freeze!Keeps, Freeze!Suspend, Freeze!Scale, Freeze!Drain,
     Freeze!Pause, Freeze!Mint, Freeze!Caches, Freeze!Scope, Freeze!Identity,
     Freeze!Record, Freeze!GoesOff, Freeze!Polled, Freeze!Dead, Freeze!Mirror,
     Freeze!Killed, Freeze!Thaw, Freeze!Again
<1>1. \A w \in {"undrained", "loose", "thawed"} : w \in odd => w \in odd'
  OBVIOUS
<1>2. freeze' = "thawed" => "thawed" \in odd'
  OBVIOUS
<1>3. QED
  BY <1>1, <1>2 DEF Orderly, Freeze!Said

\* The quiesce holds: nothing comes up again behind it, and the recovery points are final.
LEMMA QuietedStep ==
  ASSUME FreezePlaces, VolumeTypes, FreezeSets, Quieted, Freeze!Next
  PROVE  Quieted'
<1> USE GitAssumption
    DEF Freeze!cluster, Freeze!left, Freeze!run, Freeze!Step, Freeze!Fails, Freeze!Odd,
        Freeze!Works, Freeze!Ended, Freeze!None, Freeze!Next, Freeze!Said,
        Freeze!Write, Freeze!Attach, Freeze!Flux, Freeze!Replace, Freeze!Gates,
        Freeze!Captures, Freeze!Keeps, Freeze!Suspend, Freeze!Scale, Freeze!Drain,
        Freeze!Pause, Freeze!Mint, Freeze!Caches, Freeze!Scope, Freeze!Identity,
        Freeze!Record, Freeze!GoesOff, Freeze!Polled, Freeze!Dead, Freeze!Mirror,
        Freeze!Killed, Freeze!Thaw, Freeze!Again,
        Quieted, Quiesced, Drained, Snapped
<1>1. Orderly' => Orderly /\ freeze' # "thawed"
  BY OrderlyBefore
<1>2. TakenHasPoint'
  <2>1. \/ point' = point /\ (taken' \subseteq taken \/ \E v \in Vols :
                                taken' = taken \cup {v} /\ point[v] # 0)
        \/ \E v \in Vols : point' = [point EXCEPT ![v] = content[v]] /\ taken' = taken \cup {v}
    OBVIOUS
  <2>2. \A v \in Vols : content[v] # 0
    BY DEF VolumeTypes
  <2> HIDE DEF Freeze!Next
  <2>3. \A v \in taken' : point'[v] # 0
    BY <2>1, <2>2 DEF TakenHasPoint, VolumeTypes, FreezeSets
  <2>4. \A v \in Vols : point[v] # 0 => point'[v] # 0
    BY <2>1, <2>2 DEF VolumeTypes
  <2> USE DEF Freeze!Next
  <2>5. freeze' \in Snapped => freeze \in Snapped \/ taken = Vols
    OBVIOUS
  <2>6. QED
    BY <2>3, <2>4, <2>5 DEF TakenHasPoint
<1>3. StaysDown'
  <2> SUFFICES ASSUME Orderly', Orderly PROVE StaysDown'
    BY <1>1 DEF StaysDown
  <2>1. wanted' \subseteq attached'
    BY DEF StaysDown, FreezeSets, Orderly
  <2>2. ~suspended' => wanted' = Vols
    BY DEF StaysDown, FreezeSets, Orderly
  <2>3. freeze' \in {"scale"} \cup Quiesced => suspended'
    BY DEF StaysDown, FreezeSets, Orderly
  <2>4. QED
    BY <2>1, <2>2, <2>3 DEF StaysDown
<1>4. DrainedIsDetached'
  BY <1>1 DEF StaysDown, DrainedIsDetached, FreezeSets, Orderly
<1>5. PointsAreFinal'
  BY <1>1 DEF StaysDown, DrainedIsDetached, PointsAreFinal, FreezeSets, VolumeTypes
<1>6. QED
  BY <1>2, <1>3, <1>4, <1>5

\* The power-off holds: it is of what runs, and what it has put off stays off.
LEMMA SilencedStep ==
  ASSUME FreezePlaces, NodeTypes, Silenced, Freeze!Next
  PROVE  Silenced'
<1> USE DEF Freeze!cluster, Freeze!left, Freeze!run, Freeze!Step, Freeze!Fails, Freeze!Odd,
        Freeze!Works, Freeze!Ended, Freeze!None, Freeze!Next, Freeze!Said,
        Freeze!Write, Freeze!Attach, Freeze!Flux, Freeze!Replace, Freeze!Gates,
        Freeze!Captures, Freeze!Keeps, Freeze!Suspend, Freeze!Scale, Freeze!Drain,
        Freeze!Pause, Freeze!Mint, Freeze!Caches, Freeze!Scope, Freeze!Identity,
        Freeze!Record, Freeze!GoesOff, Freeze!Polled, Freeze!Dead, Freeze!Mirror,
        Freeze!Killed, Freeze!Thaw, Freeze!Again,
        Silenced, Seen, Quiesced, Drained, Snapped, Scoped
<1>1. PausedBehind'
  BY DEF PausedBehind
<1>2. OwnIsKnown'
  BY DEF PausedBehind, OwnIsKnown, Freeze!Known
<1>3. OffIsOff'
  BY DEF OwnIsKnown, OffIsOff, Freeze!Known, Freeze!On, NodeTypes
<1>4. SilentBehind'
  BY DEF SilentBehind, Freeze!Serves
<1>5. QED
  BY <1>1, <1>2, <1>3, <1>4

-----------------------------------------------------------------------------
(* The theorems.                                                            *)

\* The create begins with nothing delivered, and the freeze with a cluster at work.
LEMMA Begins ==
  ASSUME Init
  PROVE  IInv
<1>1. CreateInv
  <2>1. Delivery!TypeOK
    <3>1. Places /\ Threads /\ Codes /\ Flags
      BY DEF Init, Delivery!Init, Places, Threads, Codes, Flags
    <3>2. 1 \in 1..2 /\ 0 \in 0..1
      OBVIOUS
    <3>3. Versions
      BY <3>2 DEF Init, Delivery!Init, Versions
    <3>4. QED
      BY <3>1, <3>3, CreateTypesSplit
  <2>2. QED
    BY <2>1 DEF Init, Delivery!Init, CreateInv, ModeIsLate, SeededByThen, BornAsCreated,
       AssertedRuns, AssertedIsClean, FreezeIsClean, Delivery!Ended
<1>2. FreezeInv
  <2>1. Attempts \in Nat \ {0} /\ MaxVersion \in Nat \ {0}
    BY BoundAssumption
  <2>2. VolumeTypes
    <3>1. 1 \in 1..MaxVersion /\ 0 \in 0..MaxVersion
      BY <2>1
    <3>2. QED
      BY <3>1 DEF Init, Freeze!Init, VolumeTypes, Freeze!None
  <2>3. NodeTypes
    BY DEF Init, Freeze!Init, NodeTypes
  <2>4. FreezePlaces /\ FreezeSets /\ FreezeFlags
    <3>1. 1 \in 1..Attempts
      BY <2>1
    <3>2. FreezePlaces
      BY <3>1 DEF Init, Freeze!Init, FreezePlaces
    <3>3. FreezeSets /\ FreezeFlags
      BY DEF Init, Freeze!Init, FreezeSets, FreezeFlags
    <3>4. QED
      BY <3>2, <3>3
  <2>5. Freeze!TypeOK
    BY <2>2, <2>3, <2>4, FreezeTypesSplit
  <2>6. StaysDown /\ DrainedIsDetached /\ PointsAreFinal /\ TakenHasPoint
    BY DEF Init, Freeze!Init, StaysDown, DrainedIsDetached, PointsAreFinal, TakenHasPoint,
       Quiesced, Drained, Snapped
  <2>7. PausedBehind /\ OwnIsKnown /\ OffIsOff /\ SilentBehind
    BY DEF Init, Freeze!Init, PausedBehind, OwnIsKnown, OffIsOff, SilentBehind,
       Quiesced, Drained, Snapped, Scoped
  <2>8. QED
    BY <2>5, <2>6, <2>7 DEF FreezeInv
<1>3. QED
  BY <1>1, <1>2 DEF IInv

\* What is proved of the create speaks of its own variables only, and so does what is
\* proved of the freeze.
LEMMA CreateInvFrame ==
  ASSUME CreateInv, UNCHANGED deliveryVars
  PROVE  CreateInv'
BY DEF deliveryVars, CreateInv, Delivery!TypeOK, ModeIsLate, SeededByThen, BornAsCreated,
   AssertedRuns, AssertedIsClean, FreezeIsClean
LEMMA FreezeInvFrame ==
  ASSUME FreezeInv, UNCHANGED freezeVars
  PROVE  FreezeInv'
BY DEF freezeVars, FreezeInv, Freeze!TypeOK, StaysDown, DrainedIsDetached, PointsAreFinal,
   TakenHasPoint, PausedBehind, OwnIsKnown, OffIsOff, SilentBehind, Orderly, Seen, Freeze!Said,
   Freeze!Known, Freeze!Serves

\* Every step of the create and of the freezes keeps the invariant.
LEMMA CreatedStep ==
  ASSUME IInv, [Next]_vars
  PROVE  IInv'
<1>1. CreateInv /\ FreezeInv
  BY DEF IInv
<1>2. CASE Creates
  <2>1. Delivery!TypeOK'
    BY <1>1, <1>2, CreateTypes DEF Creates, CreateInv
  <2>2. Delivered'
    BY <1>1, <1>2, CreateSeeds, CreateDelivers
       DEF Creates, CreateInv, Delivered, Delivery!Next
  <2>3. CreateInv'
    BY <2>1, <2>2 DEF CreateInv, Delivered
  <2>4. QED
    BY <1>1, <1>2, <2>3, FreezeInvFrame DEF Creates, IInv
<1>3. CASE Freezes
  <2>1. Freeze!TypeOK'
    BY <1>1, <1>3, FreezeTypes DEF Freezes, FreezeInv
  <2>2. FreezePlaces /\ VolumeTypes /\ NodeTypes /\ FreezeSets
    BY <1>1, FreezeTypesSplit DEF FreezeInv
  <2>3. Quieted' /\ Silenced'
    BY <1>1, <1>3, <2>2, QuietedStep, SilencedStep DEF Freezes, FreezeInv, Quieted, Silenced
  <2>4. FreezeInv'
    BY <2>1, <2>3 DEF FreezeInv, Quieted, Silenced
  <2>5. QED
    BY <1>1, <1>3, <2>4, CreateInvFrame DEF Freezes, IInv
<1>4. CASE UNCHANGED vars
  BY <1>1, <1>4, CreateInvFrame, FreezeInvFrame DEF vars, IInv
<1>5. QED
  BY <1>2, <1>3, <1>4 DEF Next

\* The invariant holds in every state of every create and of every freeze after it.
THEOREM Invariance == Spec => []IInv
<1>1. Init => IInv
  BY Begins
<1>2. IInv /\ [Next]_vars => IInv'
  BY CreatedStep
<1>3. QED
  BY <1>1, <1>2, PTL DEF Spec

\* What is frozen has your override at rest; after an assertion it runs your image, and after
\* a strict one it has never run another, unless a fingerprint was not read.
THEOREM YoursIsFrozen == Spec => []FrozenIsYours
<1>1. IInv => FrozenIsYours
  <2> SUFFICES ASSUME IInv, main = "freeze", ~blind
               PROVE  /\ HrName \in cm
                      /\ asserted # "none" => running = "yours"
                      /\ asserted = "strict" => gens = {"yours"}
    BY DEF FrozenIsYours, Delivery!FrozenIsYours
  <2>1. ~tainted /\ version.now = 1 /\ mode = "created"
    BY DEF IInv, CreateInv, FreezeIsClean, ModeIsLate, Delivery!TypeOK
  <2>2. QED
    BY <2>1 DEF IInv, CreateInv, SeededByThen, AssertedRuns, AssertedIsClean
<1>2. QED
  BY <1>1, Invariance, PTL

\* The recovery points of a complete freeze hold what the volumes held at the end, those
\* reused from a failed freeze included.
THEOREM SnapshotsAreFinal == Spec => []SnapshotIsFinal
<1>1. IInv => SnapshotIsFinal
  <2> SUFFICES ASSUME IInv, freeze = "complete", Orderly
               PROVE  point = content
    BY DEF SnapshotIsFinal, Freeze!SnapshotIsFinal, Orderly
  <2>1. \A v \in Vols : point[v] # Freeze!None
    BY DEF IInv, FreezeInv, TakenHasPoint, Snapped, Drained, Quiesced
  <2>2. \A v \in Vols : point[v] = content[v]
    BY <2>1 DEF IInv, FreezeInv, PointsAreFinal
  <2>3. QED
    BY <2>2 DEF IInv, FreezeInv, Freeze!TypeOK
<1>2. QED
  BY <1>1, Invariance, PTL

\* A frozen cluster is dead: its control plane is silent, and no node that has a
\* providerID is up, but for what the log or a failed listing says.
THEOREM FrozenClusterIsDead == Spec => []FrozenIsDead
<1>1. IInv => FrozenIsDead
  BY DEF IInv, FreezeInv, OffIsOff, SilentBehind, Seen, FrozenIsDead, Freeze!FrozenIsDead
<1>2. QED
  BY <1>1, Invariance, PTL

=============================================================================
