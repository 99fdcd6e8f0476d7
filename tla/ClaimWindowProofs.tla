-------------------------- MODULE ClaimWindowProofs --------------------------
(* The claim window (claim.py, sections 3d to 4) for any number of Machines:  *)
(* unless a join ran out of time no VM of the clone gets a name of the        *)
(* template's, the must-tools come before what relies on them, and no rewrite *)
(* of the secrets is undone.                                                  *)
EXTENDS ClaimWindow, TLAPS, FiniteSetTheorems

-----------------------------------------------------------------------------
(* The inductive invariant, part by part.                                   *)

\* A tool that has failed is on record.
FailedIsRecorded == \A t \in Tools : tool[t] = "failed" => t \in failures

\* Group A is started first, group B behind the gate; neither is started twice.
StartedInOrder ==
  /\ main = "groupA" => \A t \in GroupA : tool[t] = "idle"
  /\ main \in {"groupA", "joinA", "gate"} =>
       /\ \A t \in GroupB : tool[t] = "idle"
       /\ rename.at = "off" /\ paused
  /\ main # "groupA" => \A t \in GroupA : tool[t] # "idle"
  /\ main \in {"joinB", "hooks", "boot", "booted"} => \A t \in GroupB : tool[t] # "idle"

\* Unless a join was cut off by its limit, a group has ended when it has been joined.
JoinedHasEnded ==
  ~late =>
    /\ main \notin {"groupA", "joinA"} => \A t \in GroupA : tool[t] # "running"
    /\ main \in {"hooks", "boot", "booted"} => \A t \in GroupB : tool[t] # "running"

\* Behind the gate, group A has succeeded.
GateHasChecked ==
  ~late => /\ main \in {"joinB", "hooks", "boot", "booted"} => \A t \in GroupA : tool[t] = "ok"
           /\ rename.at # "off" \/ ~paused => \A t \in GroupA : tool[t] = "ok"

\* The main thread boots with an empty record.
BootHasChecked == ~late /\ main = "booted" => failures = {}

\* The remint reports success with every Machine renamed, so behind the gate the rename
\* tool has only read names of the claim's.
OkIsComplete == tool["remint"] = "ok" => named = Slots
WantIsClaims == ~late /\ rename.at = "vms" => rename.left \subseteq rename.want

\* The tries of rebind follow each other; without a lost connection the first one has
\* failed before the second begins.
TriesInOrder ==
  /\ rebind[2].at # "off" => rebind[1].at # "off"
  /\ ~lost /\ rebind[2].at # "off" => rebind[1].at = "bad"

\* The load balancer's rewrite begins when rebind is over, and no try of it is left then.
LbComesAfter ==
  /\ tool["rebind"] \in {"idle", "running"} => lb.at = "off"
  /\ ~lost /\ lb.at # "off" => \A i \in Tries : rebind[i].at \notin {"begun", "read"}

\* What a writer has read is what the secrets still are.
SnapsAreFresh ==
  ~lost => /\ \A i \in Tries : rebind[i].at = "read" => rebind[i].snap = secret
           /\ lb.at = "read" => lb.snap = secret

IInv == /\ TypeOK /\ NoDuplicateNames /\ OkIsComplete /\ WantIsClaims
        /\ FailedIsRecorded /\ StartedInOrder /\ JoinedHasEnded
        /\ GateHasChecked /\ BootHasChecked
        /\ TriesInOrder /\ LbComesAfter /\ SnapsAreFresh

-----------------------------------------------------------------------------
(* The tries.                                                               *)

\* Counting two tries: the current one is the last that has begun.
LEMMA CountTries ==
  ASSUME NEW tries, tries[2].at # "off" => tries[1].at # "off"
  PROVE  /\ tries[1].at = "off" => Current(tries) = 0
         /\ tries[1].at # "off" /\ tries[2].at = "off" => Current(tries) = 1
         /\ tries[2].at # "off" => Current(tries) = 2
<1> DEFINE begun == {i \in Tries : tries[i].at # "off"}
<1>1. Tries = {1, 2}
  BY DEF Tries
<1>2. ASSUME tries[1].at = "off" PROVE Current(tries) = 0
  <2>1. begun = {}
    BY <1>1, <1>2
  <2>2. QED
    BY <2>1, FS_EmptySet DEF Current
<1>3. ASSUME tries[1].at # "off", tries[2].at = "off" PROVE Current(tries) = 1
  <2>1. begun = {1}
    BY <1>1, <1>3
  <2>2. QED
    BY <2>1, FS_Singleton DEF Current
<1>4. ASSUME tries[2].at # "off" PROVE Current(tries) = 2
  <2>1. begun = {1} \cup {2}
    BY <1>1, <1>4
  <2>2. IsFiniteSet({1}) /\ Cardinality({1}) = 1
    BY FS_Singleton
  <2>3. Cardinality({1} \cup {2}) = 1 + 1
    <3>1. 2 \notin {1}
      OBVIOUS
    <3>2. QED
      BY <2>2, <3>1, FS_AddElement
  <2>4. QED
    BY <2>1, <2>3 DEF Current
<1>5. QED
  BY <1>2, <1>3, <1>4

-----------------------------------------------------------------------------
(* Types.                                                                   *)

ToolTypes == tool \in [Tools -> {"idle", "running", "ok", "failed"}] /\ failures \subseteq Tools
RenameType == [try : 0..2, at : {"off", "list", "vms"}, want : SUBSET Slots,
               left : SUBSET Slots, refused : BOOLEAN]
RebindType == [at : {"off", "begun", "read", "ok", "bad"}, snap : SUBSET Rewrites]
LbType == [at : {"off", "begun", "read", "ended"}, snap : SUBSET Rewrites]

\* A tool that ends keeps the types.
LEMMA ToolEnds ==
  ASSUME ToolTypes, NEW t \in Tools, ToolOk(t) \/ ToolFails(t)
  PROVE  ToolTypes'
BY DEF ToolTypes, ToolOk, ToolFails

\* So does a group that is started.
LEMMA ToolStarts ==
  ASSUME ToolTypes, NEW group, Starts(group), UNCHANGED failures
  PROVE  ToolTypes'
BY DEF ToolTypes, Starts

\* The steps of rename_vms_to_machines.py keep the type of what it knows.
LEMMA RenameTypes ==
  ASSUME rename \in RenameType, named \subseteq Slots,
         RenameLists \/ RenameReturns \/ \E s \in Slots : RenamesVm(s)
  PROVE  rename' \in RenameType
<1> USE DEF RenameType
<1>1. CASE RenameLists
  <2>1. PICK left \in SUBSET Slots :
          rename' = [rename EXCEPT !.at = "vms", !.want = named, !.left = left, !.refused = FALSE]
    BY <1>1 DEF RenameLists
  <2>2. QED
    BY <2>1
<1>2. CASE RenameReturns
  <2>1. rename' \in {RenameTry(2, "vms"), RenameTry(2, "list")}
    BY <1>2 DEF RenameReturns
  <2>2. RenameTry(2, "vms") \in RenameType /\ RenameTry(2, "list") \in RenameType
    BY DEF RenameTry
  <2>3. QED
    BY <2>1, <2>2
<1>3. ASSUME NEW s \in Slots, RenamesVm(s)
      PROVE  rename' \in RenameType
  <2>1. \/ rename' = [rename EXCEPT !.left = @ \ {s}]
        \/ rename' = [rename EXCEPT !.left = @ \ {s}, !.refused = TRUE]
    BY <1>3 DEF RenamesVm, TakesClaimName, TakesTemplateName
  <2>2. QED
    BY <2>1
<1>4. QED
  BY <1>1, <1>2, <1>3
\* So do the tries of rebind, one at a time.
LEMMA RebindTypes ==
  ASSUME rebind \in [Tries -> RebindType], secret \subseteq Rewrites, TriesInOrder,
         RebindTry \/ \E i \in Tries : RebindScript(i)
  PROVE  rebind' \in [Tries -> RebindType] /\ secret' \subseteq Rewrites
<1> USE DEF RebindType
<1>1. CASE RebindTry
  <2>1. Current(rebind) + 1 \in Tries
    BY <1>1, CountTries DEF RebindTry, Tries, TriesInOrder
  <2>2. PICK i \in Tries : rebind' = [rebind EXCEPT ![i] = [rebind[i] EXCEPT !.at = "begun"]]
    BY <1>1, <2>1 DEF RebindTry
  <2>3. [rebind[i] EXCEPT !.at = "begun"] \in RebindType
    BY <2>2
  <2>4. QED
    BY <1>1, <2>2, <2>3 DEF RebindTry
<1>2. ASSUME NEW i \in Tries, RebindScript(i)
      PROVE  rebind' \in [Tries -> RebindType] /\ secret' \subseteq Rewrites
  <2>1. PICK r \in RebindType : rebind' = [rebind EXCEPT ![i] = r]
    BY <1>2 DEF RebindScript
  <2>2. rebind[i].snap \subseteq Rewrites
    OBVIOUS
  <2>3. secret' \subseteq Rewrites
    BY <1>2, <2>2 DEF RebindScript, Rewrites
  <2>4. QED
    BY <2>1, <2>3
<1>3. QED
  BY <1>1, <1>2

\* And the load balancer's rewrite.
LEMMA LbTypes ==
  ASSUME lb \in LbType, secret \subseteq Rewrites, LbReads \/ LbPatches \/ LbFails
  PROVE  lb' \in LbType /\ secret' \subseteq Rewrites
BY DEF LbType, LbReads, LbPatches, LbFails, Rewrites

\* Every step of the main thread and of its threads keeps the types.
LEMMA TypeStep ==
  ASSUME TypeOK, TriesInOrder, [Next]_vars
  PROVE  TypeOK'
<1> DEFINE Rest == /\ main \in Ended \cup {"groupA", "joinA", "gate", "joinB", "hooks", "boot"}
                   /\ named \subseteq Slots /\ vm \in [Slots -> {"clone", "claim", "template"}]
                   /\ {paused, window, late, lost} \subseteq BOOLEAN
           Secrets == /\ secret \subseteq Rewrites /\ rebind \in [Tries -> RebindType]
                      /\ lb \in LbType
<1> HIDE DEF Rest, Secrets
<1>1. TypeOK <=> ToolTypes /\ rename \in RenameType /\ Secrets /\ Rest
  BY DEF TypeOK, ToolTypes, RenameType, RebindType, LbType, Rest, Secrets
<1>2. SUFFICES (ToolTypes /\ rename \in RenameType /\ Secrets /\ Rest)'
  BY DEF TypeOK, ToolTypes, RenameType, RebindType, LbType, Rest, Secrets
<1>3. ToolTypes /\ rename \in RenameType /\ Secrets /\ Rest
  BY <1>1
<1>4. CASE Main
  <2> USE DEF machines, secrets, flags
  <2>1. CASE StartA
    BY <1>3, <2>1, ToolStarts DEF StartA, Rest, Secrets
  <2>2. CASE Join(GroupA, "joinA", "gate") \/ Join(GroupB, "joinB", "hooks")
    BY <1>3, <2>2 DEF Join, AtWork, Rest, Secrets, ToolTypes
  <2>3. CASE Gate
    <3>1. ToolTypes'
      BY <1>3, <2>3, ToolStarts DEF Gate, ToolTypes
    <3>2. rename' \in RenameType
      <4>1. rename' \in {rename, RenameTry(1, "list")}
        BY <2>3 DEF Gate
      <4>2. RenameTry(1, "list") \in RenameType
        BY DEF RenameTry, RenameType
      <4>3. QED
        BY <1>3, <4>1, <4>2
    <3>3. QED
      BY <1>3, <2>3, <3>1, <3>2 DEF Gate, Rest, Secrets, Ended
  <2>4. CASE Hooks \/ Boot \/ Crash
    BY <1>3, <2>4 DEF Hooks, Boot, Crash, Rest, Secrets, ToolTypes, Ended
  <2>5. QED
    BY <1>4, <2>1, <2>2, <2>3, <2>4 DEF Main
<1>5. ASSUME NEW t \in Tools, PlainTool(t)
      PROVE  (ToolTypes /\ rename \in RenameType /\ Secrets /\ Rest)'
  BY <1>3, <1>5, ToolEnds DEF PlainTool, machines, secrets, flags, Rest, Secrets
<1>6. CASE Reminting
  <2>1. "remint" \in Tools
    BY DEF Tools
  <2>2. ToolTypes'
    BY <1>3, <1>6, <2>1, ToolEnds DEF Reminting, ToolTypes
  <2>3. QED
    BY <1>3, <1>6, <2>2 DEF Reminting, Contract!Replace, machines, secrets, flags, Rest, Secrets
<1>7. CASE RenameLists \/ RenameReturns
  <2>1. "rename" \in Tools
    BY DEF Tools
  <2>2. ToolTypes'
    BY <1>3, <1>7, <2>1, ToolEnds DEF RenameLists, RenameReturns, ToolTypes
  <2>3. rename' \in RenameType
    BY <1>3, <1>7, RenameTypes DEF Rest
  <2>4. QED
    BY <1>3, <1>7, <2>2, <2>3 DEF RenameLists, RenameReturns, secrets, flags, Rest, Secrets
<1>8. ASSUME NEW s \in Slots, RenamesVm(s)
      PROVE  (ToolTypes /\ rename \in RenameType /\ Secrets /\ Rest)'
  <2>1. rename' \in RenameType
    BY <1>3, <1>8, RenameTypes DEF Rest
  <2>2. vm' \in [Slots -> {"clone", "claim", "template"}]
    BY <1>3, <1>8 DEF RenamesVm, TakesClaimName, TakesTemplateName, Rest
  <2>3. QED
    BY <1>3, <1>8, <2>1, <2>2 DEF RenamesVm, secrets, flags, Rest, Secrets, ToolTypes
<1>9. CASE RebindTry \/ \E i \in Tries : RebindScript(i)
  <2>1. rebind' \in [Tries -> RebindType] /\ secret' \subseteq Rewrites
    BY <1>3, <1>9, RebindTypes DEF Secrets
  <2>2. UNCHANGED <<main, tool, failures, named, vm, rename, lb, paused, window, late>>
        /\ lost' \in BOOLEAN
    BY <1>3, <1>9 DEF RebindTry, RebindScript, machines, flags, Rest
  <2>3. QED
    BY <1>3, <2>1, <2>2 DEF Rest, Secrets, ToolTypes
<1>10. CASE RebindReturns
  <2>1. "rebind" \in Tools
    BY DEF Tools
  <2>2. ToolTypes'
    BY <1>3, <1>10, <2>1, ToolEnds DEF RebindReturns
  <2>3. lb' \in LbType
    BY <1>3, <1>10 DEF RebindReturns, Secrets, LbType
  <2>4. QED
    BY <1>3, <1>10, <2>2, <2>3 DEF RebindReturns, machines, flags, Rest, Secrets
<1>11. CASE LbReads \/ LbPatches \/ LbFails
  <2>1. lb' \in LbType /\ secret' \subseteq Rewrites
    BY <1>3, <1>11, LbTypes DEF Secrets
  <2>2. QED
    BY <1>3, <1>11, <2>1 DEF LbReads, LbPatches, LbFails, machines, flags, Rest, Secrets,
       ToolTypes
<1>12. CASE UNCHANGED vars
  BY <1>3, <1>12 DEF vars, machines, secrets, flags, Rest, Secrets, ToolTypes
<1>13. QED
  BY <1>4, <1>5, <1>6, <1>7, <1>8, <1>9, <1>10, <1>11, <1>12 DEF Next, Threads
-----------------------------------------------------------------------------
(* The order of the tools.                                                  *)

Order == /\ FailedIsRecorded /\ StartedInOrder /\ JoinedHasEnded
         /\ GateHasChecked /\ BootHasChecked

\* A thread changes the tools one by one: from running to ok, or to failed on record.
ToolsGoOn ==
  \/ UNCHANGED <<tool, failures>>
  \/ \E t \in Tools : /\ tool[t] = "running"
                     /\ \/ tool' = [tool EXCEPT ![t] = "ok"] /\ failures' = failures
                        \/ /\ tool' = [tool EXCEPT ![t] = "failed"]
                           /\ failures' = failures \cup {t}

\* What the threads leave alone, and what they may do to the tools.
LEMMA ThreadEffect ==
  ASSUME Threads
  PROVE  ToolsGoOn /\ UNCHANGED <<main, paused, late>>
<1> USE DEF ToolsGoOn, ToolOk, ToolFails, Tools, machines, secrets, flags
<1>1. ASSUME NEW t \in Tools, PlainTool(t)
      PROVE  ToolsGoOn /\ UNCHANGED <<main, paused, late>>
  BY <1>1 DEF PlainTool
<1>2. CASE Reminting
  BY <1>2 DEF Reminting
<1>3. CASE RenameLists \/ RenameReturns \/ \E s \in Slots : RenamesVm(s)
  BY <1>3 DEF RenameLists, RenameReturns, RenamesVm
<1>4. CASE RebindTry \/ RebindReturns \/ \E i \in Tries : RebindScript(i)
  BY <1>4 DEF RebindTry, RebindReturns, RebindScript
<1>5. CASE LbReads \/ LbPatches \/ LbFails
  BY <1>5 DEF LbReads, LbPatches, LbFails
<1>6. QED
  BY <1>1, <1>2, <1>3, <1>4, <1>5 DEF Threads

\* The rename tool's place is changed only by itself, and never back to before its start.
LEMMA RenameEffect ==
  ASSUME Threads, rename \in RenameType
  PROVE  /\ rename.at = "off" => rename' = rename
         /\ rename.at # "off" => rename'.at # "off"
<1> USE DEF RenameType, machines, secrets, flags
<1>1. CASE RenameLists
  <2>1. PICK left \in SUBSET Slots :
          rename' = [rename EXCEPT !.at = "vms", !.want = named, !.left = left, !.refused = FALSE]
    BY <1>1 DEF RenameLists
  <2>2. QED
    BY <1>1, <2>1 DEF RenameLists
<1>2. CASE RenameReturns
  BY <1>2 DEF RenameReturns, RenameTry
<1>3. ASSUME NEW s \in Slots, RenamesVm(s)
      PROVE  rename.at # "off" /\ rename'.at # "off"
  <2>1. \/ rename' = [rename EXCEPT !.left = @ \ {s}]
        \/ rename' = [rename EXCEPT !.left = @ \ {s}, !.refused = TRUE]
    BY <1>3 DEF RenamesVm, TakesClaimName, TakesTemplateName
  <2>2. QED
    BY <1>3, <2>1 DEF RenamesVm
<1>4. CASE UNCHANGED rename
  BY <1>4
<1>5. QED
  <2>1. Threads => \/ RenameLists \/ RenameReturns \/ (\E s \in Slots : RenamesVm(s))
                   \/ UNCHANGED rename
    BY DEF Threads, PlainTool, Reminting, RebindTry, RebindReturns, RebindScript,
       LbReads, LbPatches, LbFails
  <2>2. QED
    BY <1>1, <1>2, <1>3, <1>4, <2>1

\* The threads keep the order.
LEMMA OrderThreads ==
  ASSUME TypeOK, Order, Threads
  PROVE  Order'
<1> USE DEF Order, GroupA, GroupB, Tools
<1>1. ToolsGoOn /\ UNCHANGED <<main, paused, late>>
  BY ThreadEffect
<1>2. /\ rename.at = "off" => rename' = rename
      /\ rename.at # "off" => rename'.at # "off"
  BY RenameEffect DEF TypeOK, RenameType
<1>3. ToolTypes
  BY DEF TypeOK, ToolTypes
<1>4. FailedIsRecorded'
  BY <1>1, <1>3 DEF ToolsGoOn, FailedIsRecorded, ToolTypes
<1>5. \A t \in Tools : /\ tool[t] \in {"idle", "ok", "failed"} => tool'[t] = tool[t]
                       /\ tool[t] = "running" => tool'[t] # "idle"
  BY <1>1, <1>3 DEF ToolsGoOn, ToolTypes
<1>6. StartedInOrder'
  BY <1>1, <1>2, <1>3, <1>5 DEF StartedInOrder, ToolTypes
<1>7. JoinedHasEnded'
  BY <1>1, <1>3, <1>5 DEF JoinedHasEnded, ToolTypes
<1>8. GateHasChecked'
  BY <1>1, <1>2, <1>5 DEF GateHasChecked
<1>9. BootHasChecked'
  <2> SUFFICES ASSUME ~late, main = "booted" PROVE failures' = failures
    BY <1>1 DEF BootHasChecked
  <2>1. \A t \in Tools : tool[t] # "running"
    BY DEF JoinedHasEnded
  <2>2. QED
    BY <1>1, <2>1 DEF ToolsGoOn
<1>10. QED
  BY <1>4, <1>6, <1>7, <1>8, <1>9

\* The main thread keeps the order: its gate and its abort check read the record.
LEMMA OrderMain ==
  ASSUME TypeOK, Order, Main
  PROVE  Order'
<1> USE DEF Order, GroupA, GroupB, Tools, machines, secrets, flags
<1>1. ToolTypes
  BY DEF TypeOK, ToolTypes
<1>2. CASE StartA
  BY <1>1, <1>2 DEF StartA, Starts, ToolTypes, FailedIsRecorded, StartedInOrder, JoinedHasEnded,
     GateHasChecked, BootHasChecked
<1>3. CASE Join(GroupA, "joinA", "gate")
  BY <1>1, <1>3 DEF Join, AtWork, ToolTypes, FailedIsRecorded, StartedInOrder, JoinedHasEnded,
     GateHasChecked, BootHasChecked
<1>4. CASE Gate
  <2>1. CASE failures # {}
    BY <1>4, <2>1 DEF Gate, FailedIsRecorded, StartedInOrder, JoinedHasEnded,
       GateHasChecked, BootHasChecked
  <2>2. CASE failures = {}
    <3>1. ~late => \A t \in GroupA : tool[t] = "ok"
      BY <1>1, <1>4, <2>2 DEF Gate, ToolTypes, FailedIsRecorded, StartedInOrder, JoinedHasEnded
    <3>2. /\ tool' = [t \in Tools |-> IF t \in GroupB THEN "running" ELSE tool[t]]
          /\ main' = "joinB" /\ UNCHANGED <<failures, paused, late>>
      BY <1>4, <2>2 DEF Gate, Starts
    <3>3. \A t \in GroupA : tool'[t] = tool[t]
      BY <3>2
    <3>4. FailedIsRecorded' /\ BootHasChecked'
      BY <3>2 DEF FailedIsRecorded, BootHasChecked
    <3>5. StartedInOrder' /\ JoinedHasEnded' /\ GateHasChecked'
      BY <1>4, <3>1, <3>2, <3>3 DEF Gate, StartedInOrder, JoinedHasEnded, GateHasChecked
    <3>6. QED
      BY <3>4, <3>5
  <2>3. QED
    BY <2>1, <2>2
<1>5. CASE Join(GroupB, "joinB", "hooks")
  BY <1>1, <1>5 DEF Join, AtWork, ToolTypes, FailedIsRecorded, StartedInOrder, JoinedHasEnded,
     GateHasChecked, BootHasChecked
<1>6. CASE Hooks
  BY <1>6 DEF Hooks, FailedIsRecorded, StartedInOrder, JoinedHasEnded, GateHasChecked,
     BootHasChecked
<1>7. CASE Boot
  BY <1>7 DEF Boot, FailedIsRecorded, StartedInOrder, JoinedHasEnded, GateHasChecked,
     BootHasChecked
<1>8. CASE Crash
  BY <1>8 DEF Crash, FailedIsRecorded, StartedInOrder, JoinedHasEnded, GateHasChecked,
     BootHasChecked
<1>9. QED
  BY <1>2, <1>3, <1>4, <1>5, <1>6, <1>7, <1>8 DEF Main

-----------------------------------------------------------------------------
(* The secrets.                                                             *)

Writing == TriesInOrder /\ LbComesAfter /\ SnapsAreFresh

\* A step that touches neither writer and starts rebind only from its idle state.
LEMMA WritersRest ==
  ASSUME Writing, UNCHANGED <<secret, rebind, lb, lost>>,
         tool'["rebind"] \in {"idle", "running"} => tool["rebind"] \in {"idle", "running"}
  PROVE  Writing'
BY DEF Writing, TriesInOrder, LbComesAfter, SnapsAreFresh

\* A try of rebind begins: the one before it has failed, or its connection was lost.
LEMMA WritersTry ==
  ASSUME TypeOK, Writing, RebindTry
  PROVE  Writing'
<1> USE DEF Writing, Tries
<1>1. \/ /\ rebind[1].at = "off" /\ rebind[2].at = "off"
         /\ rebind' = [rebind EXCEPT ![1].at = "begun"] /\ lost' = lost
      \/ /\ rebind[1].at # "off" /\ rebind[2].at = "off"
         /\ rebind' = [rebind EXCEPT ![2].at = "begun"]
         /\ lost' = (lost \/ rebind[1].at # "bad")
  <2>1. /\ rebind[1].at = "off" => Current(rebind) = 0
        /\ rebind[1].at # "off" /\ rebind[2].at = "off" => Current(rebind) = 1
        /\ rebind[2].at # "off" => rebind[1].at # "off" /\ Current(rebind) = 2
    BY CountTries DEF TriesInOrder
  <2>2. CASE Current(rebind) = 0
    BY <2>1, <2>2 DEF RebindTry, TypeOK
  <2>3. CASE Current(rebind) = 1
    BY <2>1, <2>3 DEF RebindTry
  <2>4. Current(rebind) \in {0, 1}
    BY <2>1 DEF RebindTry
  <2>5. QED
    BY <2>2, <2>3, <2>4
<1>2. /\ lb.at = "off" /\ lb' = lb /\ secret' = secret /\ tool' = tool
      /\ tool["rebind"] = "running"
  BY DEF RebindTry, LbComesAfter
<1>3. rebind \in [Tries -> RebindType]
  BY DEF TypeOK, RebindType
<1>4. TriesInOrder'
  <2>1. \/ rebind'[1].at = "begun" /\ rebind'[2].at = "off"
        \/ rebind'[1] = rebind[1] /\ rebind[1].at # "off"
    BY <1>1, <1>3 DEF RebindType
  <2>2. ~lost' => rebind'[2].at = "off" \/ rebind'[1].at = "bad"
    <3>1. CASE rebind' = [rebind EXCEPT ![1].at = "begun"] /\ rebind[2].at = "off"
      BY <1>3, <3>1
    <3>2. CASE rebind' = [rebind EXCEPT ![2].at = "begun"] /\ lost' = (lost \/ rebind[1].at # "bad")
      <4>1. rebind'[1] = rebind[1]
        BY <1>3, <3>2
      <4>2. ~lost' => rebind[1].at = "bad"
        BY <3>2
      <4>3. QED
        BY <4>1, <4>2
    <3>3. QED
      BY <1>1, <3>1, <3>2
  <2>3. QED
    BY <2>1, <2>2 DEF TriesInOrder
<1>5. LbComesAfter'
  BY <1>2 DEF LbComesAfter
<1>6. SnapsAreFresh'
  BY <1>1, <1>2, <1>3 DEF SnapsAreFresh, RebindType
<1>7. QED
  BY <1>4, <1>5, <1>6

\* The script of a try reads, writes or fails: no other writer is at work then.
LEMMA WritersScript ==
  ASSUME TypeOK, Writing, NEW i \in Tries, RebindScript(i)
  PROVE  Writing' /\ (secret \subseteq secret' \/ lost)
<1> USE DEF Writing, Tries
<1>1. rebind \in [Tries -> RebindType] /\ rebind[i].at \in {"begun", "read"}
  BY DEF TypeOK, RebindType, RebindScript
<1>2. UNCHANGED <<tool, lb, lost>>
  BY DEF RebindScript, flags
<1>3. ~lost => /\ lb.at = "off"
               /\ \A j \in Tries \ {i} : rebind[j].at \notin {"begun", "read"}
  BY <1>1 DEF TriesInOrder, LbComesAfter, RebindType
<1>4. PICK r \in RebindType :
        /\ rebind' = [rebind EXCEPT ![i] = r] /\ r.at \in {"read", "ok", "bad"}
        /\ \/ r.at = "read" /\ r.snap = secret /\ secret' = secret
           \/ r.at = "ok" /\ rebind[i].at = "read" /\ secret' = rebind[i].snap \cup {"vip"}
           \/ r.at \in {"ok", "bad"} /\ secret' = secret
  BY <1>1 DEF RebindScript, RebindType, TypeOK
<1>5. rebind'[i] = r /\ \A j \in Tries \ {i} : rebind'[j] = rebind[j]
  BY <1>1, <1>4
<1>6. TriesInOrder'
  BY <1>1, <1>2, <1>4, <1>5 DEF TriesInOrder
<1>7. LbComesAfter'
  BY <1>2, <1>3 DEF LbComesAfter
<1>8. SnapsAreFresh'
  <2> SUFFICES ASSUME ~lost PROVE SnapsAreFresh'
    BY <1>2 DEF SnapsAreFresh
  <2>1. lb'.at = "off" /\ \A j \in Tries \ {i} : rebind'[j].at # "read"
    BY <1>2, <1>3, <1>5
  <2>2. rebind'[i].at = "read" => rebind'[i].snap = secret'
    BY <1>4, <1>5
  <2>3. QED
    BY <2>1, <2>2 DEF SnapsAreFresh
<1>9. secret \subseteq secret' \/ lost
  BY <1>4 DEF SnapsAreFresh
<1>10. QED
  BY <1>6, <1>7, <1>8, <1>9

\* rebind is over, and the load balancer's rewrite begins: no try is at work any more.
LEMMA WritersReturn ==
  ASSUME TypeOK, Writing, RebindReturns
  PROVE  Writing'
<1> USE DEF Writing, Tries
<1>1. /\ UNCHANGED <<secret, rebind, lost>> /\ lb' = [lb EXCEPT !.at = "begun"]
      /\ tool["rebind"] = "running" /\ tool'["rebind"] \in {"ok", "failed"}
  BY DEF RebindReturns, ToolOk, ToolFails, flags, TypeOK, Tools
<1>2. rebind[1].at # "off" /\ (rebind[2].at = "off" => rebind[1].at = "ok")
      /\ (rebind[2].at # "off" => rebind[2].at \in {"ok", "bad"})
  BY CountTries DEF RebindReturns, TriesInOrder
<1>3. ~lost => \A i \in Tries : rebind[i].at \notin {"begun", "read"}
  BY <1>2 DEF TriesInOrder
<1>4. lb'.at = "begun"
  BY <1>1 DEF TypeOK
<1>5. QED
  BY <1>1, <1>3, <1>4 DEF TriesInOrder, LbComesAfter, SnapsAreFresh

\* The load balancer's rewrite reads, patches or fails.
LEMMA WritersLb ==
  ASSUME TypeOK, Writing, LbReads \/ LbPatches \/ LbFails
  PROVE  Writing' /\ (secret \subseteq secret' \/ lost)
<1> USE DEF Writing
<1>1. UNCHANGED <<tool, rebind, lost>> /\ lb.at # "off"
  BY DEF LbReads, LbPatches, LbFails, flags
<1>2. ~lost => \A i \in Tries : rebind[i].at # "read"
  BY <1>1 DEF LbComesAfter
<1>3. TriesInOrder' /\ LbComesAfter'
  BY <1>1 DEF TriesInOrder, LbComesAfter
<1>4. SnapsAreFresh' /\ (secret \subseteq secret' \/ lost)
  BY <1>1, <1>2 DEF SnapsAreFresh, LbReads, LbPatches, LbFails
<1>5. QED
  BY <1>3, <1>4

-----------------------------------------------------------------------------
(* The theorems.                                                            *)

\* The steps in which a writer moves, and all the others.
LEMMA WritersStep ==
  ASSUME TypeOK, StartedInOrder, Writing, [Next]_vars
  PROVE  Writing' /\ (secret \subseteq secret' \/ lost)
<1>1. CASE \/ RebindTry \/ RebindReturns \/ LbReads \/ LbPatches \/ LbFails
           \/ \E i \in Tries : RebindScript(i)
  <2>1. RebindTry \/ RebindReturns => secret' = secret
    BY DEF RebindTry, RebindReturns
  <2>2. QED
    BY <1>1, <2>1, WritersTry, WritersScript, WritersReturn, WritersLb
<1>2. CASE \/ \E t \in Tools : PlainTool(t)
           \/ Reminting \/ RenameLists \/ RenameReturns \/ \E s \in Slots : RenamesVm(s)
  <2>1. UNCHANGED <<secret, rebind, lb, lost>>
    BY <1>2 DEF PlainTool, Reminting, RenameLists, RenameReturns, RenamesVm, secrets, flags
  <2>2. tool'["rebind"] \in {"idle", "running"} => tool["rebind"] \in {"idle", "running"}
    <3>1. Threads
      BY <1>2 DEF Threads
    <3>2. ToolsGoOn
      BY <3>1, ThreadEffect
    <3>3. QED
      BY <3>2 DEF ToolsGoOn, TypeOK, Tools
  <2>3. QED
    BY <2>1, <2>2, WritersRest
<1>3. CASE Main
  <2> USE DEF secrets, flags, machines
  <2>1. UNCHANGED <<secret, rebind, lb, lost>>
    BY <1>3 DEF Main, StartA, Join, Gate, Hooks, Boot, Crash
  <2>2. tool' = tool \/ Starts(GroupB) \/ StartA
    BY <1>3 DEF Main, Join, Gate, Hooks, Boot, Crash
  <2>3. StartA => tool["rebind"] = "idle"
    BY DEF StartA, StartedInOrder, GroupA
  <2>4. QED
    BY <2>1, <2>2, <2>3, WritersRest DEF Starts, GroupB, Tools
<1>4. CASE UNCHANGED vars
  BY <1>4, WritersRest DEF vars, secrets, flags
<1>5. QED
  BY <1>1, <1>2, <1>3, <1>4 DEF Next, Threads

\* The steps that name Machines and VMs, and all the others.
LEMMA NamingSteps ==
  ASSUME [Next]_vars
  PROVE  \/ Reminting \/ RenameLists \/ RenameReturns \/ Gate \/ \E s \in Slots : RenamesVm(s)
         \/ UNCHANGED machines
<1> USE DEF machines
<1>1. Main => Gate \/ UNCHANGED machines
  BY DEF Main, StartA, Join, Hooks, Boot, Crash
<1>2. Threads => \/ Reminting \/ RenameLists \/ RenameReturns \/ \E s \in Slots : RenamesVm(s)
                 \/ UNCHANGED machines
  BY DEF Threads, PlainTool, RebindTry, RebindReturns, RebindScript, LbReads, LbPatches, LbFails
<1>3. QED
  BY <1>1, <1>2 DEF Next, vars

\* What is late stays late.
LEMMA LateStays ==
  ASSUME [Next]_vars
  PROVE  late => late'
<1>1. Main => (late => late')
  BY DEF Main, StartA, Join, Gate, Hooks, Boot, Crash, flags
<1>2. QED
  BY <1>1, ThreadEffect DEF Next, vars, flags

\* The remint succeeds when every Machine has its claim name, and none loses it.
LEMMA RemintStep ==
  ASSUME TypeOK, StartedInOrder, OkIsComplete, [Next]_vars
  PROVE  OkIsComplete'
<1>1. named \subseteq named' /\ named' \subseteq Slots
  <2>1. Reminting => named \subseteq named' /\ named' \subseteq Slots
    BY DEF Reminting, Contract!Replace, machines, TypeOK
  <2>2. RenameLists \/ RenameReturns \/ Gate \/ (\E s \in Slots : RenamesVm(s))
        \/ UNCHANGED machines => named' = named
    BY DEF RenameLists, RenameReturns, Gate, RenamesVm, machines
  <2>3. QED
    BY <2>1, <2>2, NamingSteps DEF TypeOK
<1>2. tool'["remint"] = "ok" => tool["remint"] = "ok" \/ named = Slots
  <2> USE DEF Tools, GroupA, GroupB, TypeOK
  <2>1. Main => tool' = tool \/ Starts(GroupB) \/ StartA
    BY DEF Main, Join, Gate, Hooks, Boot, Crash
  <2>2. StartA \/ Starts(GroupB) => (tool'["remint"] = "ok" => tool["remint"] = "ok")
    BY DEF StartA, Starts
  <2>3. Reminting => (tool'["remint"] = "ok" => tool["remint"] = "ok" \/ named = Slots)
    BY DEF Reminting, ToolOk, ToolFails
  <2>4. ASSUME NEW t \in Tools \ {"remint"}, ToolOk(t) \/ ToolFails(t)
        PROVE  tool'["remint"] = tool["remint"]
    BY <2>4 DEF ToolOk, ToolFails
  <2>5. Threads => \/ Reminting \/ tool' = tool
                   \/ \E t \in Tools \ {"remint"} : ToolOk(t) \/ ToolFails(t)
    BY DEF Threads, PlainTool, RenameLists, RenameReturns, RenamesVm, RebindTry, RebindReturns,
       RebindScript, LbReads, LbPatches, LbFails
  <2>6. QED
    BY <2>1, <2>2, <2>3, <2>4, <2>5 DEF Next, vars
<1>3. QED
  BY <1>1, <1>2 DEF OkIsComplete

\* The rename tool reads names of the claim's only, and gives no others, unless a join
\* ran out of time.
LEMMA NamesStep ==
  ASSUME TypeOK, GateHasChecked, OkIsComplete, WantIsClaims, NoDuplicateNames, [Next]_vars
  PROVE  WantIsClaims' /\ NoDuplicateNames'
<1> SUFFICES ASSUME ~late
             PROVE  /\ rename'.at = "vms" => rename'.left \subseteq rename'.want
                    /\ \A s \in Slots : vm'[s] # "template"
  BY LateStays DEF WantIsClaims, NoDuplicateNames
<1>1. CASE RenameLists
  <2>1. named = Slots
    BY <1>1 DEF RenameLists, GateHasChecked, OkIsComplete, GroupA
  <2>2. PICK left \in SUBSET Slots :
          rename' = [rename EXCEPT !.at = "vms", !.want = named, !.left = left, !.refused = FALSE]
    BY <1>1 DEF RenameLists
  <2>3. rename'.left \subseteq rename'.want
    BY <2>1, <2>2 DEF TypeOK
  <2>4. QED
    BY <1>1, <2>3 DEF RenameLists, NoDuplicateNames
<1>2. CASE RenameReturns \/ Gate
  <2>1. rename' = rename \/ rename'.left = {}
    BY <1>2 DEF RenameReturns, Gate, RenameTry
  <2>2. QED
    BY <1>2, <2>1 DEF RenameReturns, Gate, WantIsClaims, NoDuplicateNames
<1>3. ASSUME NEW s \in Slots, RenamesVm(s)
      PROVE  /\ rename'.left \subseteq rename'.want
             /\ \A t \in Slots : vm'[t] # "template"
  <2>1. TakesClaimName(s) /\ rename.left \subseteq rename.want
    BY <1>3 DEF RenamesVm, WantIsClaims
  <2>2. rename'.left \subseteq rename'.want
    BY <2>1 DEF TakesClaimName, TypeOK
  <2>3. PICK name \in {vm[s], "claim"} : vm' = [vm EXCEPT ![s] = name]
    BY <2>1 DEF TakesClaimName
  <2>4. QED
    BY <2>2, <2>3 DEF NoDuplicateNames, TypeOK
<1>4. CASE Reminting \/ UNCHANGED machines
  BY <1>4 DEF Reminting, machines, WantIsClaims, NoDuplicateNames
<1>5. QED
  BY <1>1, <1>2, <1>3, <1>4, NamingSteps

\* The window opens with nothing started, nothing renamed and nothing read.
LEMMA WindowOpens ==
  ASSUME Init
  PROVE  IInv
<1> USE DEF Init
<1>1. TypeOK
  <2>1. rename \in [try : 0..2, at : {"off", "list", "vms"}, want : SUBSET Slots,
                    left : SUBSET Slots, refused : BOOLEAN]
    <3>1. 0 \in 0..2
      OBVIOUS
    <3>2. QED
      BY <3>1 DEF RenameTry
  <2>2. QED
    BY <2>1 DEF TypeOK, Ended, Rewrites
<1>2. FailedIsRecorded /\ StartedInOrder /\ JoinedHasEnded /\ GateHasChecked /\ BootHasChecked
  BY DEF FailedIsRecorded, StartedInOrder, JoinedHasEnded, GateHasChecked, BootHasChecked,
     GroupA, GroupB, Tools, RenameTry
<1>3. TriesInOrder /\ LbComesAfter /\ SnapsAreFresh
  BY DEF TriesInOrder, LbComesAfter, SnapsAreFresh, Tries
<1>4. QED
  BY <1>1, <1>2, <1>3 DEF IInv, NoDuplicateNames, OkIsComplete, WantIsClaims, Tools, RenameTry

\* Every step of the window keeps the invariant.
LEMMA WindowStep ==
  ASSUME IInv, [Next]_vars
  PROVE  IInv'
<1>1. TypeOK /\ NoDuplicateNames /\ OkIsComplete /\ WantIsClaims /\ Order /\ Writing
  BY DEF IInv, Order, Writing
<1>2. TypeOK' /\ OkIsComplete' /\ WantIsClaims' /\ NoDuplicateNames' /\ Writing'
  BY <1>1, TypeStep, RemintStep, NamesStep, WritersStep DEF Order, Writing
<1>3. Order'
  <2>1. CASE UNCHANGED vars
    BY <1>1, <2>1 DEF vars, machines, flags, Order, FailedIsRecorded, StartedInOrder,
       JoinedHasEnded, GateHasChecked, BootHasChecked
  <2>2. QED
    BY <1>1, <2>1, OrderThreads, OrderMain DEF Next
<1>4. QED
  BY <1>2, <1>3 DEF IInv, Order, Writing

\* The invariant holds in every state of every claim.
THEOREM Invariance == Spec => []IInv
<1>1. Init => IInv
  BY WindowOpens
<1>2. IInv /\ [Next]_vars => IInv'
  BY WindowStep
<1>3. QED
  BY <1>1, <1>2, PTL DEF Spec

\* Unless a join ran out of time, no VM of the clone ever has the name of a VM of the
\* template, however short the list is that the rename tool's guard goes by.
THEOREM NamesStayApart == Spec => []NoDuplicateNames
<1>1. IInv => NoDuplicateNames
  BY DEF IInv
<1>2. QED
  BY <1>1, Invariance, PTL

\* Unless a join ran out of time, the VMs are renamed and the Cluster is unpaused after
\* the remint has succeeded, and what boots has had every must-tool succeed.
THEOREM ToolsComeFirst == Spec => []MustToolsFirst
<1>1. IInv => MustToolsFirst
  <2> SUFFICES ASSUME IInv, ~late PROVE MustToolsFirst
    BY DEF MustToolsFirst
  <2>1. rename.at # "off" \/ ~paused => tool["remint"] = "ok"
    BY DEF IInv, GateHasChecked, GroupA
  <2>2. ASSUME main = "booted", NEW t \in Tools PROVE tool[t] = "ok"
    <3>1. tool[t] # "failed"
      BY <2>2 DEF IInv, FailedIsRecorded, BootHasChecked
    <3>2. tool[t] # "running" /\ tool[t] # "idle"
      BY <2>2 DEF IInv, StartedInOrder, JoinedHasEnded, Tools, GroupA, GroupB
    <3>3. QED
      BY <3>1, <3>2 DEF IInv, TypeOK
  <2>3. QED
    BY <2>1, <2>2 DEF MustToolsFirst
<1>2. QED
  BY <1>1, Invariance, PTL

\* As long as no connection to a tool at work is lost, a rewrite of the secrets is never
\* undone by the other writer.
THEOREM RewritesAreKept == Spec => RewritesStick
<1>1. IInv /\ [Next]_vars => [secret \subseteq secret' \/ lost]_vars
  BY WritersStep DEF IInv, Writing
<1>2. QED
  BY <1>1, Invariance, PTL DEF Spec, RewritesStick
=============================================================================
