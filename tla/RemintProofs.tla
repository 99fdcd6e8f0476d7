----------------------------- MODULE RemintProofs -----------------------------
(* The surgery of remint_machinenames.py, for any Machines and any number of  *)
(* tries: no child is ever left to a Machine that is gone, a first run that   *)
(* succeeds is exact, and the tool keeps the contract that the claim relies   *)
(* on (RemintContract).                                                       *)
EXTENDS Remint, TLAPS

-----------------------------------------------------------------------------
(* The inductive invariant, part by part.                                   *)

\* A run that has got past the creation has its replacement, until the end.
ReplacementExists ==
  \A i \in Runs, s \in Slots :
    at[i][s] \in {"made", "hit", "deleted", "done"} => <<s, i>> \in objs

\* A child that a run has dealt with does not belong to the original any more; one that
\* is about to be patched has not been dealt with.
HandledHasMoved ==
  \A i \in Runs, s \in Slots :
    /\ \A k \in Kids : handled[i][s] >= k => owner[<<s, k>>] # Template
    /\ at[i][s] = "hit" => handled[i][s] < 2

\* What has not been started has done nothing: runs, Machines and children know only of
\* the runs that were.
OnlyStarted ==
  /\ \A i \in Runs : i > cur => pc[i] = "off"
  /\ \A o \in objs : o[2] <= cur
  /\ \A s \in Slots, k \in Kids : owner[<<s, k>>] <= cur

\* Up to the end of the first run's list the tree is the template's, and then that is
\* what the run has listed.
FirstSeesTemplate ==
  /\ cur = 0 \/ (cur = 1 /\ pc[1] \in {"off", "list"}) => objs = Slots \X {Template}
  /\ cur = 1 /\ pc[1] = "surgery" => list[1] = Slots \X {Template}

\* A run that says ok has left no template name, and the first one nothing but its own.
OkIsRenamed ==
  /\ \A i \in Runs : pc[i] = "ok" => Stale(objs) = {}
  /\ cur = 1 /\ pc[1] = "ok" => objs = Slots \X {1}

\* run_tool reports the run that it started last, and waits only before it reports.
ReportsTheLast ==
  /\ result = "ok" => cur > 0 /\ pc[cur] = "ok"
  /\ waiting => cur > 0 /\ result = "running"

IInv == /\ TypeOK
        /\ ReplacementExists /\ HandledHasMoved /\ OnlyStarted
        /\ FirstSeesTemplate /\ OkIsRenamed /\ ReportsTheLast
        /\ ChildrenOwned

-----------------------------------------------------------------------------
(* Types.                                                                   *)

\* The number of runs is a number, and a run is not the template.
LEMMA RunNumbers ==
  /\ Last \in Nat /\ Last > 0 /\ 1 \in Runs
  /\ Runs \subseteq 0..Last /\ 0 \in 0..Last
  /\ \A i \in Runs : i \in Nat /\ i > 0 /\ i # Template
BY RunsAssumption DEF Last, Runs, Template

\* The initial values have their types.
LEMMA TypeInit == Init => TypeOK
<1> SUFFICES ASSUME Init PROVE TypeOK
  OBVIOUS
<1> USE RunNumbers DEF Init, Template
<1>1. objs \subseteq Objects
  BY DEF Objects
<1>2. owner \in [Slots \X Kids -> 0..Last] /\ cur \in 0..Last
  OBVIOUS
<1>3. pc \in [Runs -> {"off", "list", "surgery", "ok", "bad", "killed"}]
  OBVIOUS
<1>4. list \in [Runs -> SUBSET Objects]
  OBVIOUS
<1>5. at \in [Runs -> [Slots -> {"todo", "made", "hit", "deleted", "done", "error"}]]
  OBVIOUS
<1>6. handled \in [Runs -> [Slots -> 0..2]]
  OBVIOUS
<1>7. QED
  BY <1>1, <1>2, <1>3, <1>4, <1>5, <1>6 DEF TypeOK

\* Every step of a run, and of run_tool, keeps the types.
LEMMA TypeStep ==
  ASSUME TypeOK, HandledHasMoved, [Next]_vars
  PROVE  TypeOK'
<1> USE RunNumbers DEF TypeOK, cluster, tool, driver
<1>1. CASE StartRun
  <2>1. cur + 1 \in Runs /\ cur + 1 \in 0..Last
    BY <1>1 DEF StartRun, Runs
  <2>2. QED
    BY <1>1, <2>1 DEF StartRun
<1>2. CASE Lose \/ Returns \/ GiveUp
  BY <1>2 DEF Lose, Returns, GiveUp
<1>3. CASE TimesOut
  <2>1. list' \in [Runs -> SUBSET Objects]
    BY <1>3 DEF TimesOut, Forget
  <2>2. at' \in [Runs -> [Slots -> {"todo", "made", "hit", "deleted", "done", "error"}]]
    <3>1. [t \in Slots |-> "todo"]
            \in [Slots -> {"todo", "made", "hit", "deleted", "done", "error"}]
      OBVIOUS
    <3>2. QED
      BY <1>3, <3>1 DEF TimesOut, Forget
  <2>3. handled' \in [Runs -> [Slots -> 0..2]]
    <3>1. [t \in Slots |-> 0] \in [Slots -> 0..2]
      OBVIOUS
    <3>2. QED
      BY <1>3, <3>1 DEF TimesOut, Forget
  <2>4. QED
    BY <1>3, <2>1, <2>2, <2>3 DEF TimesOut
<1>4. ASSUME NEW i \in Runs, ListMachines(i) \/ ListFails(i)
      PROVE  TypeOK'
  BY <1>4 DEF ListMachines, ListFails
<1>5. ASSUME NEW i \in Runs, EndRun(i)
      PROVE  TypeOK'
  BY <1>5 DEF EndRun, Forget
<1>6. ASSUME NEW i \in Runs, NEW s \in Slots, Surgery(i, s)
      PROVE  TypeOK'
  <2> USE DEF GoTo, Busy
  <2>1. <<s, i>> \in Objects
    BY DEF Objects
  <2>2. CASE Create(i, s) \/ CreateFails(i, s)
    BY <2>1, <2>2 DEF Create, CreateFails
  <2>3. CASE ReadChild(i, s)
    <3>1. handled' \in [Runs -> [Slots -> 0..2]]
      BY <2>3 DEF ReadChild
    <3>2. QED
      BY <2>3, <3>1 DEF ReadChild
  <2>4. CASE PatchChild(i, s)
    <3>1. handled[i][s] \in 0..2 /\ handled[i] \in [Slots -> 0..2]
      OBVIOUS
    <3>2. handled[i][s] < 2
      BY <2>4 DEF PatchChild, HandledHasMoved
    <3>3. handled' \in [Runs -> [Slots -> 0..2]]
      BY <2>4, <3>1, <3>2 DEF PatchChild
    <3>4. owner' \in [Slots \X Kids -> 0..Last]
      BY <2>4 DEF PatchChild
    <3>5. at' \in [Runs -> [Slots -> {"todo", "made", "hit", "deleted", "done", "error"}]]
      BY <2>4 DEF PatchChild
    <3>6. QED
      BY <2>4, <3>3, <3>4, <3>5 DEF PatchChild
  <2>5. CASE ChildFails(i, s) \/ DeleteOld(i, s) \/ CheckGone(i, s)
    BY <2>5 DEF ChildFails, DeleteOld, CheckGone
  <2>6. QED
    BY <1>6, <2>2, <2>3, <2>4, <2>5 DEF Surgery
<1>7. CASE UNCHANGED vars
  BY <1>7 DEF vars
<1>8. QED
  BY <1>1, <1>2, <1>3, <1>4, <1>5, <1>6, <1>7 DEF Next

-----------------------------------------------------------------------------
(* The invariant.                                                           *)

\* The template's tree satisfies it.
LEMMA InvInit == Init => IInv
<1> SUFFICES ASSUME Init PROVE IInv
  OBVIOUS
<1> USE RunNumbers DEF Init, Template
<1>1. TypeOK
  BY TypeInit
<1>2. ReplacementExists /\ HandledHasMoved /\ OnlyStarted
  BY DEF ReplacementExists, HandledHasMoved, OnlyStarted, Kids
<1>3. FirstSeesTemplate /\ OkIsRenamed /\ ReportsTheLast
  BY DEF FirstSeesTemplate, OkIsRenamed, ReportsTheLast
<1>4. ChildrenOwned
  BY DEF ChildrenOwned
<1>5. QED
  BY <1>1, <1>2, <1>3, <1>4 DEF IInv

\* The steps of run_tool leave the tree alone.
LEMMA DriverStep ==
  ASSUME IInv, StartRun \/ Lose \/ TimesOut \/ Returns \/ GiveUp
  PROVE  IInv'
<1> USE RunNumbers DEF cluster, tool, driver
<1>1. TypeOK'
  BY TypeStep DEF IInv, Next
<1>2. UNCHANGED cluster
  BY DEF StartRun, Lose, TimesOut, Returns, GiveUp
<1>3. ChildrenOwned'
  BY <1>2 DEF IInv, ChildrenOwned
<1>4. CASE StartRun
  <2>1. cur' = cur + 1 /\ cur + 1 \in Runs /\ pc' = [pc EXCEPT ![cur + 1] = "list"]
    BY <1>4 DEF StartRun, IInv, TypeOK, Runs
  <2>2. ReplacementExists' /\ HandledHasMoved'
    BY <1>2, <1>4 DEF IInv, StartRun, ReplacementExists, HandledHasMoved
  <2>3. OnlyStarted'
    BY <1>2, <2>1 DEF IInv, TypeOK, OnlyStarted, Objects, Kids
  <2>4. FirstSeesTemplate'
    BY <1>2, <2>1 DEF IInv, TypeOK, FirstSeesTemplate
  <2>5. OkIsRenamed'
    BY <1>2, <2>1 DEF IInv, TypeOK, OkIsRenamed, Stale
  <2>6. ReportsTheLast'
    BY <1>4, <2>1 DEF IInv, TypeOK, StartRun, ReportsTheLast
  <2>7. QED
    BY <1>1, <1>3, <2>2, <2>3, <2>4, <2>5, <2>6 DEF IInv
<1>5. CASE Lose \/ Returns \/ GiveUp
  BY <1>1, <1>2, <1>3, <1>5 DEF IInv, TypeOK, Lose, Returns, GiveUp, ReplacementExists,
     HandledHasMoved, OnlyStarted, FirstSeesTemplate, OkIsRenamed, ReportsTheLast, Stale
<1>6. CASE TimesOut
  BY <1>1, <1>2, <1>3, <1>6 DEF IInv, TypeOK, TimesOut, Forget, ReplacementExists,
     HandledHasMoved, OnlyStarted, FirstSeesTemplate, OkIsRenamed, ReportsTheLast, Stale, Kids
<1>7. QED
  BY <1>4, <1>5, <1>6
\* The list, its failure and the end of a run leave the tree alone.
LEMMA ToolStep ==
  ASSUME IInv, NEW i \in Runs, ListMachines(i) \/ ListFails(i) \/ EndRun(i)
  PROVE  IInv'
<1> USE RunNumbers DEF cluster, tool, driver
<1>1. TypeOK'
  BY TypeStep DEF IInv, Next
<1>2. UNCHANGED <<cluster, driver>>
  BY DEF ListMachines, ListFails, EndRun
<1>3. ChildrenOwned'
  BY <1>2 DEF IInv, ChildrenOwned
<1>4. pc[i] \in {"list", "surgery"} /\ i <= cur /\ \A j \in Runs \ {i} : pc'[j] = pc[j]
  BY DEF ListMachines, ListFails, EndRun, IInv, TypeOK, OnlyStarted
<1>5. ReplacementExists' /\ HandledHasMoved'
  <2>1. CASE ListMachines(i) \/ ListFails(i)
    BY <1>2, <2>1 DEF IInv, ListMachines, ListFails, ReplacementExists, HandledHasMoved
  <2>2. CASE EndRun(i)
    BY <1>2, <2>2 DEF IInv, TypeOK, EndRun, Forget, ReplacementExists, HandledHasMoved, Kids
  <2>3. QED
    BY <2>1, <2>2
<1>6. OnlyStarted'
  BY <1>2, <1>4 DEF IInv, TypeOK, OnlyStarted, ListMachines, ListFails, EndRun
<1>7. ReportsTheLast'
  <2>1. cur > 0 => cur \in Runs
    BY DEF IInv, TypeOK, Runs
  <2>2. result = "ok" => cur # i
    BY <1>4 DEF IInv, ReportsTheLast
  <2>3. QED
    BY <1>2, <1>4, <2>1, <2>2 DEF IInv, ReportsTheLast
<1>8. FirstSeesTemplate'
  BY <1>2, <1>4 DEF IInv, TypeOK, FirstSeesTemplate, ListMachines, ListFails, EndRun, Forget
<1>9. OkIsRenamed'
  <2>1. \A j \in Runs : pc'[j] = "ok" => Stale(objs') = {}
    BY <1>2 DEF IInv, TypeOK, OkIsRenamed, ListMachines, ListFails, EndRun, Verifies
  <2>2. ASSUME cur' = 1, pc'[1] = "ok"
        PROVE  objs' = Slots \X {1}
    <3>1. i = 1 /\ cur = 1
      BY <1>2, <1>4, <2>2
    <3>2. CASE ListMachines(i)
      <4>1. objs = Slots \X {Template}
        BY <3>1, <3>2 DEF IInv, FirstSeesTemplate, ListMachines
      <4>2. Stale(objs) = {}
        BY <3>1, <3>2, <2>2 DEF IInv, TypeOK, ListMachines
      <4>3. \A s \in Slots : <<s, Template>> \in Stale(objs)
        BY <4>1 DEF Stale
      <4>4. QED
        BY <1>2, <4>1, <4>2, <4>3
    <3>3. CASE ListFails(i)
      BY <3>1, <3>3, <2>2 DEF IInv, TypeOK, ListFails
    <3>4. CASE EndRun(i)
      <4>1. /\ \A s \in ToRename(1) : at[1][s] = "done"
            /\ Stale(objs) = {}
        BY <3>1, <3>4, <2>2 DEF IInv, TypeOK, EndRun, Verifies
      <4>2. ToRename(1) = Slots
        BY <3>1, <3>4 DEF IInv, FirstSeesTemplate, EndRun, ToRename, Template
      <4>3. \A s \in Slots : <<s, 1>> \in objs
        BY <4>1, <4>2 DEF IInv, ReplacementExists
      <4>4. \A o \in objs : o[1] \in Slots /\ o[2] = 1 /\ o = <<o[1], o[2]>>
        BY <3>1, <4>1 DEF IInv, TypeOK, Objects, OnlyStarted, Stale, Template
      <4>5. QED
        BY <1>2, <4>3, <4>4
    <3>5. QED
      BY <3>2, <3>3, <3>4
  <2>3. QED
    BY <2>1, <2>2 DEF OkIsRenamed
<1>10. QED
  BY <1>1, <1>3, <1>5, <1>6, <1>7, <1>8, <1>9 DEF IInv

\* What a step of the surgery may do: it makes a Machine of its own, moves a child from
\* the original to its own, or deletes an original that has no child left.
Makes(i, s) == owner' = owner /\ objs' = objs \cup {<<s, i>>}
Moves(i, s) ==
  \E k \in Kids : /\ owner' = [owner EXCEPT ![<<s, k>>] = i] /\ <<s, i>> \in objs
                  /\ objs' = objs
Deletes(s) ==
  /\ owner' = owner /\ objs' = objs \ {<<s, Template>>}
  /\ \A k \in Kids : owner[<<s, k>>] # Template
Effect(i, s) ==
  /\ UNCHANGED <<pc, list, driver>> /\ pc[i] = "surgery" /\ s \in ToRename(i)
  /\ Makes(i, s) \/ Moves(i, s) \/ Deletes(s) \/ UNCHANGED cluster

LEMMA SurgeryEffect ==
  ASSUME IInv, NEW i \in Runs, NEW s \in Slots, Surgery(i, s)
  PROVE  Effect(i, s)
<1> USE RunNumbers DEF driver, Busy
<1>1. UNCHANGED <<pc, list, driver>> /\ pc[i] = "surgery" /\ s \in ToRename(i)
  BY DEF Surgery, Create, CreateFails, ReadChild, PatchChild, ChildFails, DeleteOld, CheckGone
<1>2. CASE Create(i, s) \/ CreateFails(i, s)
  BY <1>1, <1>2 DEF Create, CreateFails, Effect, Makes, cluster
<1>3. CASE ReadChild(i, s) \/ ChildFails(i, s) \/ CheckGone(i, s)
  BY <1>1, <1>3 DEF ReadChild, ChildFails, CheckGone, Effect, cluster
<1>4. CASE PatchChild(i, s)
  <2>1. handled[i][s] + 1 \in Kids
    <3>1. handled[i][s] \in 0..2
      BY DEF IInv, TypeOK
    <3>2. handled[i][s] < 2
      BY <1>4 DEF PatchChild, IInv, HandledHasMoved
    <3>3. QED
      BY <3>1, <3>2 DEF Kids
  <2>2. <<s, i>> \in objs
    BY <1>4 DEF PatchChild, IInv, ReplacementExists
  <2>3. QED
    BY <1>1, <1>4, <2>1, <2>2 DEF PatchChild, Child, Effect, Moves
<1>5. CASE DeleteOld(i, s)
  <2>1. \A k \in Kids : owner[<<s, k>>] # Template
    <3>1. handled[i][s] = 2
      BY <1>5 DEF DeleteOld
    <3>2. \A k \in Kids : 2 >= k
      BY DEF Kids
    <3>3. QED
      BY <3>1, <3>2 DEF IInv, HandledHasMoved
  <2>2. QED
    BY <1>1, <1>5, <2>1 DEF DeleteOld, Effect, Deletes, cluster
<1>6. QED
  BY <1>2, <1>3, <1>4, <1>5 DEF Surgery

\* A surgery step keeps what its run, and the others, know of the tree.
LEMMA SurgeryKnows ==
  ASSUME IInv, NEW i \in Runs, NEW s \in Slots, Surgery(i, s)
  PROVE  ReplacementExists' /\ HandledHasMoved'
<1> USE RunNumbers DEF Busy, GoTo
<1>0. Effect(i, s) /\ owner \in [Slots \X Kids -> 0..Last]
  BY SurgeryEffect DEF IInv, TypeOK
<1>1. \A j \in Runs, t \in Slots : <<t, j>> \in objs => <<t, j>> \in objs'
  BY <1>0 DEF Effect, Makes, Moves, Deletes, cluster
<1>2. \A t \in Slots, k \in Kids :
        owner[<<t, k>>] # Template => owner'[<<t, k>>] # Template
  BY <1>0 DEF Effect, Makes, Moves, Deletes, cluster
<1>3. CASE Create(i, s)
  BY <1>1, <1>2, <1>3 DEF IInv, TypeOK, Create, ReplacementExists, HandledHasMoved
<1>4. CASE CreateFails(i, s)
  BY <1>1, <1>2, <1>4 DEF IInv, TypeOK, CreateFails, ReplacementExists, HandledHasMoved
<1>5. CASE ReadChild(i, s)
  <2>1. ReplacementExists'
    BY <1>1, <1>5 DEF IInv, TypeOK, ReadChild, ReplacementExists
  <2>2. CASE owner[Child(i, s)] = Template
    BY <1>2, <1>5, <2>1, <2>2 DEF IInv, TypeOK, ReadChild, HandledHasMoved
  <2>3. CASE owner[Child(i, s)] # Template
    <3>1. /\ UNCHANGED <<owner, at>> /\ at[i][s] = "made"
          /\ handled' = [handled EXCEPT ![i] = [handled[i] EXCEPT ![s] = handled[i][s] + 1]]
      BY <1>5, <2>3 DEF ReadChild
    <3>2. \A k \in Kids : handled[i][s] + 1 >= k => owner[<<s, k>>] # Template
      <4>1. handled[i][s] \in 0..2
        BY DEF IInv, TypeOK
      <4>2. QED
        <5> SUFFICES ASSUME NEW k \in Kids, handled[i][s] + 1 >= k
                     PROVE  owner[<<s, k>>] # Template
          OBVIOUS
        <5>1. CASE handled[i][s] >= k
          BY <5>1 DEF IInv, HandledHasMoved
        <5>2. CASE handled[i][s] + 1 = k
          BY <2>3, <5>2 DEF Child
        <5>3. QED
          BY <4>1, <5>1, <5>2 DEF Kids
    <3>3. QED
      BY <2>1, <3>1, <3>2 DEF IInv, TypeOK, HandledHasMoved
  <2>4. QED
    BY <2>2, <2>3
<1>6. CASE PatchChild(i, s)
  <2>1. ReplacementExists'
    BY <1>1, <1>6 DEF IInv, TypeOK, PatchChild, ReplacementExists
  <2>2. /\ owner'[<<s, handled[i][s] + 1>>] = i /\ at' = [at EXCEPT ![i][s] = "made"]
        /\ handled' = [handled EXCEPT ![i] = [handled[i] EXCEPT ![s] = handled[i][s] + 1]]
    <3>1. handled[i][s] \in 0..2 /\ handled[i][s] < 2
      BY <1>6 DEF IInv, TypeOK, HandledHasMoved, PatchChild
    <3>2. Child(i, s) \in Slots \X Kids
      BY <3>1 DEF Child, Kids
    <3>3. QED
      BY <1>6, <3>2 DEF PatchChild, Child, IInv, TypeOK
  <2>3. \A k \in Kids : handled[i][s] + 1 >= k => owner'[<<s, k>>] # Template
    <3>1. handled[i][s] \in 0..2
      BY DEF IInv, TypeOK
    <3>2. QED
      <4> SUFFICES ASSUME NEW k \in Kids, handled[i][s] + 1 >= k
                   PROVE  owner'[<<s, k>>] # Template
        OBVIOUS
      <4>1. CASE handled[i][s] >= k
        BY <1>2, <4>1 DEF IInv, HandledHasMoved
      <4>2. CASE handled[i][s] + 1 = k
        BY <2>2, <4>2
      <4>3. QED
        BY <3>1, <4>1, <4>2 DEF Kids
  <2>4. QED
    BY <1>2, <2>1, <2>2, <2>3 DEF IInv, TypeOK, HandledHasMoved
<1>7. CASE ChildFails(i, s)
  BY <1>1, <1>2, <1>7 DEF IInv, TypeOK, ChildFails, ReplacementExists, HandledHasMoved
<1>8. CASE DeleteOld(i, s)
  BY <1>1, <1>2, <1>8 DEF IInv, TypeOK, DeleteOld, ReplacementExists, HandledHasMoved
<1>9. CASE CheckGone(i, s)
  BY <1>1, <1>2, <1>9 DEF IInv, TypeOK, CheckGone, ReplacementExists, HandledHasMoved
<1>10. QED
  BY <1>3, <1>4, <1>5, <1>6, <1>7, <1>8, <1>9 DEF Surgery

\* The surgery keeps the invariant: it never leaves a child behind.
LEMMA SurgeryStep ==
  ASSUME IInv, NEW i \in Runs, NEW s \in Slots, Surgery(i, s)
  PROVE  IInv'
<1> USE RunNumbers DEF driver
<1>0. Effect(i, s)
  BY SurgeryEffect
<1>1. TypeOK'
  BY TypeStep DEF IInv, Next
<1>2. ReplacementExists' /\ HandledHasMoved'
  BY SurgeryKnows
<1>3. UNCHANGED <<pc, list, driver>> /\ pc[i] = "surgery" /\ i <= cur
  BY <1>0 DEF Effect, IInv, TypeOK, OnlyStarted
<1>4. OnlyStarted'
  <2>1. /\ \A o \in objs : o[2] <= cur
        /\ \A t \in Slots, k \in Kids : owner[<<t, k>>] <= cur
        /\ owner \in [Slots \X Kids -> 0..Last]
    BY DEF IInv, TypeOK, OnlyStarted
  <2>2. \A o \in objs' : o[2] <= cur
    <3>1. objs' \subseteq objs \cup {<<s, i>>}
      BY <1>0 DEF Effect, Makes, Moves, Deletes, cluster
    <3>2. QED
      BY <1>3, <2>1, <3>1
  <2>3. \A t \in Slots, k \in Kids : owner'[<<t, k>>] <= cur
    <3>1. owner' = owner \/ \E k \in Kids : owner' = [owner EXCEPT ![<<s, k>>] = i]
      BY <1>0 DEF Effect, Makes, Moves, Deletes, cluster
    <3>2. QED
      BY <1>3, <2>1, <3>1
  <2>4. QED
    BY <1>3, <2>2, <2>3 DEF IInv, OnlyStarted
<1>5. FirstSeesTemplate'
  BY <1>3 DEF IInv, TypeOK, FirstSeesTemplate
<1>6. OkIsRenamed'
  <2>1. Stale(objs) = {} => Stale(objs') = {}
    <3>1. objs' \subseteq objs \cup {<<s, i>>}
      BY <1>0 DEF Effect, Makes, Moves, Deletes, cluster
    <3>2. QED
      BY <3>1 DEF Stale
  <2>2. ~(cur = 1 /\ pc[1] = "ok")
    BY <1>3
  <2>3. QED
    BY <1>3, <2>1, <2>2 DEF IInv, OkIsRenamed
<1>7. ReportsTheLast'
  BY <1>3 DEF IInv, ReportsTheLast
<1>8. ChildrenOwned'
  <2> SUFFICES ASSUME NEW t \in Slots, NEW k \in Kids
               PROVE  <<t, owner'[<<t, k>>]>> \in objs'
    BY DEF ChildrenOwned
  <2>1. <<t, owner[<<t, k>>]>> \in objs
    BY DEF IInv, ChildrenOwned
  <2>2. CASE Makes(i, s) \/ UNCHANGED cluster
    BY <2>1, <2>2 DEF Makes, cluster
  <2>3. CASE Moves(i, s)
    <3>1. owner \in [Slots \X Kids -> 0..Last] /\ <<s, i>> \in objs /\ objs' = objs
      BY <2>3 DEF Moves, IInv, TypeOK
    <3>2. PICK j \in Kids : owner' = [owner EXCEPT ![<<s, j>>] = i]
      BY <2>3 DEF Moves
    <3>3. CASE <<t, k>> = <<s, j>>
      BY <3>1, <3>2, <3>3
    <3>4. CASE <<t, k>> # <<s, j>>
      BY <2>1, <3>1, <3>2, <3>4
    <3>5. QED
      BY <3>3, <3>4
  <2>4. CASE Deletes(s)
    BY <2>1, <2>4 DEF Deletes
  <2>5. QED
    BY <1>0, <2>2, <2>3, <2>4 DEF Effect
<1>9. QED
  BY <1>1, <1>2, <1>4, <1>5, <1>6, <1>7, <1>8 DEF IInv

\* The invariant holds of every use of the tool.
THEOREM Invariance == Spec => []IInv
<1>1. IInv /\ [Next]_vars => IInv'
  <2> SUFFICES ASSUME IInv, [Next]_vars PROVE IInv'
    OBVIOUS
  <2>1. CASE StartRun \/ Lose \/ TimesOut \/ Returns \/ GiveUp
    BY <2>1, DriverStep
  <2>2. ASSUME NEW i \in Runs, ListMachines(i) \/ ListFails(i) \/ EndRun(i)
        PROVE  IInv'
    BY <2>2, ToolStep
  <2>3. ASSUME NEW i \in Runs, NEW s \in Slots, Surgery(i, s)
        PROVE  IInv'
    BY <2>3, SurgeryStep
  <2>4. CASE UNCHANGED vars
    BY <2>4 DEF vars, IInv, TypeOK, ReplacementExists, HandledHasMoved, OnlyStarted,
       FirstSeesTemplate, OkIsRenamed, ReportsTheLast, ChildrenOwned, Stale
  <2>5. QED
    BY <2>1, <2>2, <2>3, <2>4 DEF Next
<1>2. QED
  BY <1>1, InvInit, PTL DEF Spec

-----------------------------------------------------------------------------
(* What the tool promises.                                                  *)

\* "Re-point children BEFORE deleting the old machine (GC cascade guard)": whichever runs
\* overlap, and wherever each breaks off, every child belongs to a Machine that is there.
THEOREM NoOrphans == Spec => []ChildrenOwned
<1>1. IInv => ChildrenOwned
  BY DEF IInv
<1>2. QED
  BY <1>1, Invariance, PTL

\* A success of the first run is exact: one claim-named Machine for each of the
\* template's, with both of its children.
THEOREM FirstIsExact == Spec => []FirstRunIsExact
<1>1. IInv => FirstRunIsExact
  <2> SUFFICES ASSUME IInv, result = "ok", cur = 1
               PROVE  /\ objs = Slots \X {1}
                      /\ \A s \in Slots, k \in Kids : owner[<<s, k>>] = 1
    BY DEF FirstRunIsExact
  <2>1. objs = Slots \X {1}
    BY DEF IInv, OkIsRenamed, ReportsTheLast
  <2>2. QED
    BY <2>1 DEF IInv, ChildrenOwned
<1>2. QED
  BY <1>1, Invariance, PTL

\* The Machines whose template-named object is gone.
Renamed == {s \in Slots : <<s, Template>> \notin objs}

\* run_tool and the tool implement what the claim window takes them for: names of the
\* template only disappear, one by one, also behind run_tool's back, and success is
\* reported when none is left.
THEOREM KeepsItsContract == Spec => KeepsContract
<1> USE RunNumbers DEF Template
<1>1. Init => Contract!Init
  BY DEF Init, Contract!Init
<1>2. IInv /\ [Next]_vars => [Contract!Next]_<<Renamed, result>>
  <2> SUFFICES ASSUME IInv, [Next]_vars
               PROVE  Contract!Next \/ UNCHANGED <<Renamed, result>>
    BY DEF Contract!Next, Renamed
  <2>1. CASE StartRun \/ Lose \/ TimesOut
    BY <2>1 DEF StartRun, Lose, TimesOut, cluster, Renamed
  <2>2. CASE Returns
    <3>1. UNCHANGED objs /\ result = "running"
      BY <2>2 DEF Returns, cluster, IInv, ReportsTheLast
    <3>2. CASE pc[cur] = "ok"
      <4>1. Stale(objs) = {}
        BY <2>2, <3>2 DEF IInv, TypeOK, OkIsRenamed, ReportsTheLast, Returns, Runs
      <4>2. Renamed = Slots
        BY <4>1 DEF Stale, Renamed
      <4>3. QED
        BY <2>2, <3>1, <3>2, <4>2 DEF Returns, Renamed, Contract!Next, Contract!Succeed
    <3>3. CASE pc[cur] # "ok"
      BY <2>2, <3>1, <3>3 DEF Returns, Renamed
    <3>4. QED
      BY <3>2, <3>3
  <2>3. CASE GiveUp
    BY <2>3 DEF GiveUp, cluster, Contract!Next, Contract!Fail
  <2>4. ASSUME NEW i \in Runs, ListMachines(i) \/ ListFails(i) \/ EndRun(i)
        PROVE  UNCHANGED <<Renamed, result>>
    BY <2>4 DEF ListMachines, ListFails, EndRun, cluster, driver, Renamed
  <2>5. ASSUME NEW i \in Runs, NEW s \in Slots, Surgery(i, s)
        PROVE  Contract!Next \/ UNCHANGED <<Renamed, result>>
    <3>1. Effect(i, s)
      BY <2>5, SurgeryEffect
    <3>2. UNCHANGED result
      BY <3>1 DEF Effect, driver
    <3>3. CASE Makes(i, s) \/ Moves(i, s) \/ UNCHANGED cluster
      <4>1. UNCHANGED Renamed
        BY <3>3 DEF Makes, Moves, cluster, Renamed
      <4>2. QED
        BY <3>2, <4>1
    <3>4. CASE Deletes(s)
      <4>1. Renamed' = Renamed \cup {s}
        BY <3>4 DEF Deletes, Renamed
      <4>2. CASE s \in Renamed
        BY <3>2, <4>1, <4>2
      <4>3. CASE s \in Slots \ Renamed
        BY <3>2, <4>1, <4>3 DEF Contract!Next, Contract!Replace, Renamed
      <4>4. QED
        BY <4>2, <4>3
    <3>5. QED
      BY <3>1, <3>3, <3>4 DEF Effect
  <2>6. CASE UNCHANGED vars
    BY <2>6 DEF vars, Renamed
  <2>7. QED
    BY <2>1, <2>2, <2>3, <2>4, <2>5, <2>6 DEF Next
<1>3. QED
  BY <1>1, <1>2, Invariance, PTL DEF Spec, KeepsContract, Contract!Spec, Renamed
=============================================================================
