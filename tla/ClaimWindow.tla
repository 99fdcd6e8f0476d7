----------------------------- MODULE ClaimWindow -----------------------------
(***************************************************************************)
(* The claim window (instant-cluster/claim.py, sections 3d to 4): the      *)
(* cloned nodes serve the template's objects through an apiserver of their *)
(* own, while tools in threads rewrite the template's identity into the    *)
(* claim's, and then everything is booted.  The main thread waits for its  *)
(* threads with time limits and goes on without the ones that are late; a  *)
(* command on the seed node whose connection is lost is run again while    *)
(* the lost one may still be at work.                                      *)
(***************************************************************************)
EXTENDS Naturals, FiniteSets

CONSTANTS
  Slots    \* the template's CAPI Machines, and the clone's VMs with them

Tools == {"rebind", "refresh", "remint", "kubeadm", "rename"}
GroupA == {"rebind", "refresh", "remint"}
GroupB == {"kubeadm", "rename"}
Rewrites == {"vip", "lb"}
Tries == 1..2      \* bound: the tries of one ssh command

VARIABLES
  main,      \* where the main thread is, or how it ended
  tool,      \* per must-tool: idle, running, ok or failed
  failures,  \* _tool_failures
  named,     \* Machines that have their claim name
  vm,        \* the name each clone VM has: clone, claim or template
  rename,    \* rename_vms_to_machines: attempt, where, Machine names read, VMs left, refused
  secret,    \* which of the two rewrites the shared secrets carry
  rebind,    \* rebind_incluster_vip on the seed, per try: where, and the secrets as read
  lb,        \* secret_lb_rewrite: where, and the secrets as read
  paused,    \* the Cluster is paused
  window,    \* the window apiserver serves
  late,      \* a join's time limit has passed with a thread still at work
  lost       \* the connection to a running command was lost

vars == <<main, tool, failures, named, vm, rename, secret, rebind, lb, paused, window,
          late, lost>>
machines == <<named, vm, rename>>
secrets == <<secret, rebind, lb>>
flags == <<paused, window, late, lost>>

Ended == {"booted", "exit9", "exit10", "crashed"}

TypeOK ==
  /\ main \in Ended \cup {"groupA", "joinA", "gate", "joinB", "hooks", "boot"}
  /\ tool \in [Tools -> {"idle", "running", "ok", "failed"}]
  /\ failures \subseteq Tools /\ named \subseteq Slots
  /\ vm \in [Slots -> {"clone", "claim", "template"}]
  /\ rename \in [try : 0..2, at : {"off", "list", "vms"}, want : SUBSET Slots,
                 left : SUBSET Slots, refused : BOOLEAN]
  /\ secret \subseteq Rewrites
  /\ rebind \in [Tries -> [at : {"off", "begun", "read", "ok", "bad"}, snap : SUBSET Rewrites]]
  /\ lb \in [at : {"off", "begun", "read", "ended"}, snap : SUBSET Rewrites]
  /\ paused \in BOOLEAN /\ window \in BOOLEAN
  /\ late \in BOOLEAN /\ lost \in BOOLEAN

RenameTry(n, where) == [try |-> n, at |-> where, want |-> {}, left |-> {}, refused |-> FALSE]

\* The window apiserver serves the template's objects; ConversionBypass has what
\* happens to the CRDs at the same time.
Init ==
  /\ main = "groupA"
  /\ tool = [t \in Tools |-> "idle"] /\ failures = {}
  /\ named = {} /\ vm = [s \in Slots |-> "clone"]
  /\ rename = RenameTry(0, "off")
  /\ secret = {}
  /\ rebind = [i \in Tries |-> [at |-> "off", snap |-> {}]]
  /\ lb = [at |-> "off", snap |-> {}]
  /\ paused = TRUE /\ window = TRUE
  /\ late = FALSE /\ lost = FALSE

\* The try a command is at.
Current(tries) == Cardinality({i \in Tries : tries[i].at # "off"})

-----------------------------------------------------------------------------
(* The must-tools, in their threads.                                        *)

\* run_tool ends: only the last failure of a tool is put on record.
ToolOk(t) == tool[t] = "running" /\ tool' = [tool EXCEPT ![t] = "ok"] /\ UNCHANGED failures
ToolFails(t) ==
  /\ tool[t] = "running"
  /\ tool' = [tool EXCEPT ![t] = "failed"] /\ failures' = failures \cup {t}

\* refresh-creds.py and remint_kubeadmconfig.py.
PlainTool(t) ==
  /\ t \in {"refresh", "kubeadm"}
  /\ (window /\ ToolOk(t)) \/ ToolFails(t)
  /\ UNCHANGED <<main, machines, secrets, flags>>

\* remint_machinenames.py, by its contract: a Machine renamed, or the tool's end.
Contract == INSTANCE RemintContract WITH result <- tool["remint"]
Reminting ==
  \/ /\ tool["remint"] # "idle" /\ window
     /\ UNCHANGED <<main, tool, failures, vm, rename, secrets, flags>>
     /\ Contract!Replace
  \/ /\ window /\ named = Slots /\ ToolOk("remint")
     /\ UNCHANGED <<main, machines, secrets, flags>>
  \/ /\ ToolFails("remint")
     /\ UNCHANGED <<main, machines, secrets, flags>>

\* rename_vms_to_machines.py: the Machine names, then the VMs side by side.  A list
\* that cannot be read renames nothing; a VM task that fails is not an error.
RenameLists ==
  /\ tool["rename"] = "running" /\ rename.at = "list"
  /\ \E left \in (IF window THEN {Slots, {}} ELSE {{}}) :
       rename' = [rename EXCEPT !.at = "vms", !.want = named, !.left = left, !.refused = FALSE]
  /\ UNCHANGED <<main, tool, failures, named, vm, secrets, flags>>

\* A Machine that still has its template name: the name belongs to a VM of the template
\* and is refused, unless the list, of 500 VMs at most, does not show its owner.
TakesTemplateName(s) ==
  \/ /\ vm[s] # "template" /\ UNCHANGED vm
     /\ rename' = [rename EXCEPT !.left = @ \ {s}, !.refused = TRUE]
  \/ /\ \E name \in {vm[s], "template"} : vm' = [vm EXCEPT ![s] = name]
     /\ rename' = [rename EXCEPT !.left = @ \ {s}]
\* A VM that is not listed, or whose task fails, keeps its name, and that is no error.
TakesClaimName(s) ==
  /\ \E name \in {vm[s], "claim"} : vm' = [vm EXCEPT ![s] = name]
  /\ rename' = [rename EXCEPT !.left = @ \ {s}]
RenamesVm(s) ==
  /\ rename.at = "vms" /\ s \in rename.left
  /\ IF s \in rename.want THEN TakesClaimName(s) ELSE TakesTemplateName(s)
  /\ UNCHANGED <<main, tool, failures, named, secrets, flags>>

\* The tool is run twice at most; a time-out counts as a failure.
RenameReturns ==
  /\ tool["rename"] = "running" /\ rename.at = "vms"
  /\ \/ rename.left = {} /\ ~rename.refused /\ ToolOk("rename") /\ rename' = RenameTry(2, "vms")
     \/ rename.try = 1 /\ rename' = RenameTry(2, "list") /\ UNCHANGED <<tool, failures>>
     \/ rename.try = 2 /\ ToolFails("rename") /\ rename' = RenameTry(2, "vms")
  /\ UNCHANGED <<main, named, vm, secrets, flags>>

-----------------------------------------------------------------------------
(* The two writers of the secrets: rebind, and after it in the same thread  *)
(* the load balancer's.  Both write back what they have read.               *)

RebindTry ==
  /\ tool["rebind"] = "running" /\ Current(rebind) < 2
  /\ rebind' = [rebind EXCEPT ![Current(rebind) + 1].at = "begun"]
  /\ lost' = (lost \/ (Current(rebind) > 0 /\ rebind[Current(rebind)].at # "bad"))
  /\ UNCHANGED <<main, tool, failures, machines, secret, lb, paused, window, late>>

\* A list that cannot be read is skipped, and what it would have held is no failure.
RebindScript(i) ==
  /\ \/ /\ rebind[i].at = "begun" /\ window
        /\ rebind' = [rebind EXCEPT ![i] = [at |-> "read", snap |-> secret]]
        /\ UNCHANGED secret
     \/ /\ rebind[i].at = "read" /\ window
        /\ secret' = rebind[i].snap \cup {"vip"}
        /\ rebind' = [rebind EXCEPT ![i] = [at |-> "ok", snap |-> {}]]
     \/ /\ rebind[i].at = "begun"
        /\ rebind' = [rebind EXCEPT ![i] = [at |-> "ok", snap |-> {}]]
        /\ UNCHANGED secret
     \/ /\ rebind[i].at \in {"begun", "read"}
        /\ rebind' = [rebind EXCEPT ![i] = [at |-> "bad", snap |-> {}]]
        /\ UNCHANGED secret
  /\ UNCHANGED <<main, tool, failures, machines, lb, flags>>

\* run_tool for rebind is over; the rewrite that is chained to it runs in any case.
RebindReturns ==
  /\ tool["rebind"] = "running" /\ Current(rebind) > 0
  /\ \/ rebind[Current(rebind)].at = "ok" /\ ToolOk("rebind")
     \/ rebind[2].at = "bad" /\ ToolFails("rebind")
  /\ lb' = [lb EXCEPT !.at = "begun"]
  /\ UNCHANGED <<main, machines, secret, rebind, flags>>

LbReads ==
  /\ lb.at = "begun" /\ window
  /\ lb' = [at |-> "read", snap |-> secret]
  /\ UNCHANGED <<main, tool, failures, machines, secret, rebind, flags>>
LbPatches ==
  /\ lb.at = "read" /\ window
  /\ secret' = lb.snap \cup {"lb"}
  /\ lb' = [at |-> "ended", snap |-> {}]
  /\ UNCHANGED <<main, tool, failures, machines, rebind, flags>>
\* A list or a patch that fails is not reported; without the window none is left.
LbFails ==
  /\ lb.at \in {"begun", "read"}
  /\ lb' = [at |-> "ended", snap |-> {}]
  /\ UNCHANGED <<main, tool, failures, machines, secret, rebind, flags>>

-----------------------------------------------------------------------------
(* The main thread.                                                         *)

Starts(group) == tool' = [t \in Tools |-> IF t \in group THEN "running" ELSE tool[t]]

\* Mutant of StartA: the two secret writers start together.
StartA_Unchained ==
  /\ main = "groupA" /\ Starts(GroupA) /\ main' = "joinA" /\ lb' = [lb EXCEPT !.at = "begun"]
  /\ UNCHANGED <<failures, machines, secret, rebind, flags>>
StartA ==
  /\ main = "groupA" /\ Starts(GroupA) /\ main' = "joinA"
  /\ UNCHANGED <<failures, machines, secrets, flags>>

AtWork(group) == (\E t \in group : tool[t] = "running") \/ ("rebind" \in group /\ lb.at # "ended")

\* Each join waits 360 (300) seconds, then the main thread goes on.
Join(group, here, next) ==
  /\ main = here /\ main' = next
  /\ late' = (late \/ AtWork(group))
  /\ UNCHANGED <<tool, failures, machines, secrets, paused, window, lost>>

\* Mutant of Gate: the record is looked at only before the boot.
Gate_Open ==
  /\ main = "gate"
  /\ Starts(GroupB) /\ main' = "joinB" /\ rename' = RenameTry(1, "list")
  /\ UNCHANGED <<failures, named, vm, secrets, flags>>
\* The ordering gate.
Gate ==
  /\ main = "gate"
  /\ IF failures # {}
       THEN main' = "exit9" /\ UNCHANGED <<tool, rename>>
       ELSE /\ Starts(GroupB) /\ main' = "joinB"
            /\ rename' = RenameTry(1, "list")
  /\ UNCHANGED <<failures, named, vm, secrets, flags>>

\* Hook clear and unpause, whose failures are warnings.
Hooks ==
  /\ main = "hooks" /\ main' = "boot"
  /\ paused' \in BOOLEAN
  /\ UNCHANGED <<tool, failures, machines, secrets, window, late, lost>>

\* Mutant of Boot: without the abort check.
Boot_Unchecked ==
  /\ main = "boot" /\ main' = "booted" /\ window' = FALSE
  /\ UNCHANGED <<tool, failures, machines, secrets, paused, late, lost>>
\* The abort check, the close of the window, the kubelets.
Boot ==
  /\ main = "boot"
  /\ IF failures # {} THEN main' = "exit10" /\ UNCHANGED window
                      ELSE main' = "booted" /\ window' = FALSE
  /\ UNCHANGED <<tool, failures, machines, secrets, paused, late, lost>>

\* A kubectl call of the main thread that times out on the seed is not caught.
Crash ==
  /\ main \in {"gate", "hooks"} /\ main' = "crashed"
  /\ UNCHANGED <<tool, failures, machines, secrets, flags>>

Main ==
  \/ StartA \/ Join(GroupA, "joinA", "gate") \/ Gate \/ Join(GroupB, "joinB", "hooks")
  \/ Hooks \/ Boot \/ Crash

Threads ==
  \/ \E t \in Tools : PlainTool(t)
  \/ Reminting
  \/ RenameLists \/ RenameReturns \/ \E s \in Slots : RenamesVm(s)
  \/ RebindTry \/ RebindReturns \/ LbReads \/ LbPatches \/ LbFails
  \/ \E i \in Tries : RebindScript(i)

Next == Main \/ Threads

Spec == Init /\ [][Next]_vars

-----------------------------------------------------------------------------
(* Properties.                                                              *)

\* "Renaming now would name this clone's VMs after the TEMPLATE's machines": the gate
\* alone prevents it, however short the list of the names in use is; what passes the gate
\* while the remint is still at work (late) is left to the guard.
NoDuplicateNames == ~late => \A s \in Slots : vm[s] # "template"

\* "Never rename onto a name another VM already owns": it takes a late remint and a list
\* that is too short, but it happens.
NamesAreDistinct == \A s \in Slots : vm[s] # "template"

\* "every in-cluster copy of the old VIP becomes a live landmine": what boots has the
\* rewrite of rebind_incluster_vip.py, a must-tool.  It does not hold.
BootedIsRebound == main = "booted" /\ ~late /\ ~lost => "vip" \in secret

\* "That is only correct AFTER remint_machinenames has re-minted those Machines": the
\* VMs are renamed, and the Cluster unpaused, after the remint has succeeded; and what
\* boots has had every must-tool succeed; unless a join ran out of time.
MustToolsFirst ==
  ~late => /\ rename.at # "off" \/ ~paused => tool["remint"] = "ok"
           /\ main = "booted" => \A t \in Tools : tool[t] = "ok"

\* A rewrite of the secrets is never undone by the other writer, as long as no
\* connection to a tool at work is lost.
RewritesStick == [][secret \subseteq secret' \/ lost]_vars
=============================================================================
