-------------------------------- MODULE Remint --------------------------------
(***************************************************************************)
(* instant-cluster/remint_machinenames.py, as run_tool and ssh (claim.py)  *)
(* run it.  The tool replaces every template-named CAPI Machine by a copy  *)
(* with a fresh claim name: it makes the copy, points the Machine's two    *)
(* children at it, and deletes the original.  The Machines are worked on   *)
(* side by side, any API call may fail for good, and a failed run of the   *)
(* tool is followed by another one.  On the seed node a run whose          *)
(* connection is lost goes on by itself, next to the one started after it. *)
(***************************************************************************)
EXTENDS Naturals, FiniteSets

CONSTANTS
  Slots,        \* the template's Machines
  SeedRuns,     \* bound: runs of the tool on the seed (2 attempts, 4 ssh tries each)
  LaptopRuns    \* bound: runs from the laptop (2 in the code)

ASSUME RunsAssumption == SeedRuns \in Nat /\ LaptopRuns \in Nat /\ SeedRuns + LaptopRuns > 0

Last == SeedRuns + LaptopRuns
Runs == 1..Last
Template == 0
Kids == 1..2      \* the kubeadmconfig, then the nutanixmachine

\* A Machine object is <<s, i>>: the replacement of s that run i made, or the
\* template's own object when i is Template.
VARIABLES
  objs,     \* the Machine objects in the window's apiserver
  owner,    \* the object each child of s belongs to
  pc,       \* per run: off, list, surgery, ok, bad or killed
  list,     \* per run: the Machines it read when it began
  at,       \* per run and Machine: how far its surgery is
  handled,  \* per run and Machine: children dealt with
  cur,      \* the run run_tool started last
  waiting,  \* run_tool is still connected to it
  result    \* what run_tool concluded

vars == <<objs, owner, pc, list, at, handled, cur, waiting, result>>
cluster == <<objs, owner>>
tool == <<pc, list, at, handled>>
driver == <<cur, waiting, result>>

Objects == Slots \X (0..Last)

TypeOK ==
  /\ objs \subseteq Objects
  /\ owner \in [Slots \X Kids -> 0..Last]
  /\ pc \in [Runs -> {"off", "list", "surgery", "ok", "bad", "killed"}]
  /\ list \in [Runs -> SUBSET Objects]
  /\ at \in [Runs -> [Slots -> {"todo", "made", "hit", "deleted", "done", "error"}]]
  /\ handled \in [Runs -> [Slots -> 0..2]]
  /\ cur \in 0..Last /\ waiting \in BOOLEAN
  /\ result \in {"running", "ok", "failed"}

Init ==
  /\ objs = Slots \X {Template}
  /\ owner = [k \in Slots \X Kids |-> Template]
  /\ pc = [i \in Runs |-> "off"]
  /\ list = [i \in Runs |-> {}]
  /\ at = [i \in Runs |-> [s \in Slots |-> "todo"]]
  /\ handled = [i \in Runs |-> [s \in Slots |-> 0]]
  /\ cur = 0 /\ waiting = FALSE /\ result = "running"

-----------------------------------------------------------------------------
(* One run of the tool.                                                     *)

Stale(os) == {o \in os : o[2] = Template}
ToRename(i) == {s \in Slots : <<s, Template>> \in list[i]}

\* The list of Machines; a tree that is renamed already needs nothing, and a list
\* or a paused guard that cannot be read ends the run.
ListMachines(i) ==
  /\ pc[i] = "list"
  /\ IF Stale(objs) = {}
       THEN pc' = [pc EXCEPT ![i] = "ok"] /\ UNCHANGED list
       ELSE pc' = [pc EXCEPT ![i] = "surgery"] /\ list' = [list EXCEPT ![i] = objs]
  /\ UNCHANGED <<objs, owner, at, handled, driver>>

ListFails(i) ==
  /\ pc[i] = "list"
  /\ pc' = [pc EXCEPT ![i] = "bad"]
  /\ UNCHANGED <<objs, owner, list, at, handled, driver>>

Busy(i, s, where) == pc[i] = "surgery" /\ s \in ToRename(i) /\ at[i][s] = where

GoTo(i, s, where) == at' = [at EXCEPT ![i][s] = where]

Create(i, s) ==
  /\ Busy(i, s, "todo")
  /\ objs' = objs \cup {<<s, i>>}
  /\ GoTo(i, s, "made")
  /\ UNCHANGED <<owner, pc, list, handled, driver>>

\* Mutant: the children are looked at before the replacement has its uid.
CreateFails_GoesOn(i, s) ==
  /\ Busy(i, s, "todo")
  /\ GoTo(i, s, "made")
  /\ UNCHANGED <<objs, owner, pc, list, handled, driver>>
\* The apply fails, or it is done and the new object's uid cannot be read.
CreateFails(i, s) ==
  /\ Busy(i, s, "todo")
  /\ objs' \in {objs, objs \cup {<<s, i>>}}
  /\ GoTo(i, s, "error")
  /\ UNCHANGED <<owner, pc, list, handled, driver>>

Child(i, s) == <<s, handled[i][s] + 1>>

\* Read the next child: one that belongs to the original is to be patched, one
\* that does not is left alone.
ReadChild(i, s) ==
  /\ Busy(i, s, "made") /\ handled[i][s] < 2
  /\ IF owner[Child(i, s)] = Template
       THEN GoTo(i, s, "hit") /\ UNCHANGED handled
       ELSE handled' = [handled EXCEPT ![i][s] = @ + 1] /\ UNCHANGED at
  /\ UNCHANGED <<objs, owner, pc, list, driver>>

PatchChild(i, s) ==
  /\ Busy(i, s, "hit")
  /\ owner' = [owner EXCEPT ![Child(i, s)] = i]
  /\ handled' = [handled EXCEPT ![i][s] = @ + 1]
  /\ GoTo(i, s, "made")
  /\ UNCHANGED <<objs, pc, list, driver>>

\* Neither the read nor the patch may fail: the original is then kept.
ChildFails(i, s) ==
  /\ Busy(i, s, "hit") \/ (Busy(i, s, "made") /\ handled[i][s] < 2)
  /\ GoTo(i, s, "error")
  /\ UNCHANGED <<objs, owner, pc, list, handled, driver>>

\* Mutant of DeleteOld: without waiting for the second child.
DeleteOld_Early(i, s) ==
  /\ Busy(i, s, "made") /\ handled[i][s] > 0
  /\ objs' \in {objs, objs \ {<<s, Template>>}}
  /\ GoTo(i, s, "deleted")
  /\ UNCHANGED <<owner, pc, list, handled, driver>>
\* delete and the finalizer patch; neither status is read.
DeleteOld(i, s) ==
  /\ Busy(i, s, "made") /\ handled[i][s] = 2
  /\ objs' \in {objs, objs \ {<<s, Template>>}}
  /\ GoTo(i, s, "deleted")
  /\ UNCHANGED <<owner, pc, list, handled, driver>>

\* A get that fails counts as gone, whatever made it fail.
CheckGone(i, s) ==
  /\ Busy(i, s, "deleted")
  /\ \E where \in {"done"} \cup (IF <<s, Template>> \in objs THEN {"error"} ELSE {}) :
       GoTo(i, s, where)
  /\ UNCHANGED <<objs, owner, pc, list, handled, driver>>

\* What a run knows goes with it.
Forget(i) ==
  /\ list' = [list EXCEPT ![i] = {}]
  /\ at' = [at EXCEPT ![i] = [s \in Slots |-> "todo"]]
  /\ handled' = [handled EXCEPT ![i] = [s \in Slots |-> 0]]

\* Mutant of Verifies: that no Machine was lost is taken to be enough.
Verifies_Enough(i) == Cardinality(objs) >= Cardinality(list[i])
\* The verification: as many Machines as at the start, none with a template name.
Verifies(i) == Cardinality(objs) = Cardinality(list[i]) /\ Stale(objs) = {}

EndRun(i) ==
  /\ pc[i] = "surgery"
  /\ \A s \in ToRename(i) : at[i][s] \in {"done", "error"}
  /\ pc' = [pc EXCEPT ![i] =
              IF (\A s \in ToRename(i) : at[i][s] = "done") /\ Verifies(i)
                THEN "ok" ELSE "bad"]
  /\ Forget(i)
  /\ UNCHANGED <<cluster, driver>>

-----------------------------------------------------------------------------
(* run_tool, with ssh's own tries.                                          *)

StartRun ==
  /\ result = "running" /\ ~waiting /\ cur < Last
  /\ cur' = cur + 1 /\ waiting' = TRUE
  /\ pc' = [pc EXCEPT ![cur + 1] = "list"]
  /\ UNCHANGED <<objs, owner, list, at, handled, result>>

\* The connection ends or times out: on the seed the run goes on by itself; from
\* the laptop the time-out kills it.
Lose ==
  /\ waiting /\ cur <= SeedRuns
  /\ waiting' = FALSE
  /\ UNCHANGED <<cluster, tool, cur, result>>

TimesOut ==
  /\ waiting /\ cur > SeedRuns /\ pc[cur] \in {"list", "surgery"}
  /\ waiting' = FALSE
  /\ pc' = [pc EXCEPT ![cur] = "killed"]
  /\ Forget(cur)
  /\ UNCHANGED <<cluster, cur, result>>

\* Mutant of Returns: the exit status is not looked at.
Returns_AnyStatus ==
  /\ waiting /\ pc[cur] \in {"ok", "bad"}
  /\ waiting' = FALSE
  /\ result' = "ok"
  /\ UNCHANGED <<cluster, tool, cur>>
Returns ==
  /\ waiting /\ pc[cur] \in {"ok", "bad"}
  /\ waiting' = FALSE
  /\ result' = IF pc[cur] = "ok" THEN "ok" ELSE result
  /\ UNCHANGED <<cluster, tool, cur>>

GiveUp ==
  /\ result = "running" /\ ~waiting /\ cur = Last
  /\ result' = "failed"
  /\ UNCHANGED <<cluster, tool, cur, waiting>>

Surgery(i, s) ==
  \/ Create(i, s) \/ CreateFails(i, s)
  \/ ReadChild(i, s) \/ PatchChild(i, s) \/ ChildFails(i, s)
  \/ DeleteOld(i, s) \/ CheckGone(i, s)

Next ==
  \/ StartRun \/ Lose \/ TimesOut \/ Returns \/ GiveUp
  \/ \E i \in Runs : ListMachines(i) \/ ListFails(i) \/ EndRun(i)
  \/ \E i \in Runs, s \in Slots : Surgery(i, s)

Spec == Init /\ [][Next]_vars

-----------------------------------------------------------------------------
(* Properties.                                                              *)

\* "Re-point children BEFORE deleting the old machine (GC cascade guard)": no
\* child ever belongs to a Machine that is gone, whichever runs overlap and
\* wherever each of them breaks off.
ChildrenOwned == \A s \in Slots, k \in Kids : <<s, owner[<<s, k>>]>> \in objs

\* A success on the first run is exact: one claim-named Machine for each of the
\* template's, with both of its children.
FirstRunIsExact ==
  result = "ok" /\ cur = 1 =>
    /\ objs = Slots \X {1}
    /\ \A s \in Slots, k \in Kids : owner[<<s, k>>] = 1

\* The tool keeps its contract with the claim: template names only disappear, and
\* success means that none is left.
Contract == INSTANCE RemintContract
              WITH named <- {s \in Slots : <<s, Template>> \notin objs}
KeepsContract == Contract!Spec

\* "all of ours are idempotent": a success leaves one Machine for each of the
\* template's, whatever runs came before.
OneMachineEach ==
  result = "ok" => \A s \in Slots : Cardinality({o \in objs : o[1] = s}) = 1
=============================================================================
