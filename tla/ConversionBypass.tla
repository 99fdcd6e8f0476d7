-------------------------- MODULE ConversionBypass --------------------------
(***************************************************************************)
(* The conversion webhooks of the CRDs in the claim window                 *)
(* (instant-cluster/claim.py, section 3c-bis): no webhook answers there,   *)
(* so the CRDs that have one are bypassed first, by a script on the seed   *)
(* node or from the laptop, and put back by a thread that overlaps the     *)
(* last part of the window.  A script on the seed whose connection is lost *)
(* is run again while the lost one may still be at work.  What the tools   *)
(* do to the main thread is in ClaimWindow; here it may end at each of     *)
(* the places where ClaimWindow ends it.                                   *)
(***************************************************************************)
EXTENDS Naturals, FiniteSets

CONSTANTS
  Crds,      \* the CRDs whose conversion is a webhook in the template
  MaxTries   \* bound: the tries of one ssh command, 4 in the code

Tries == 1..MaxTries

VARIABLES
  main,      \* where the main thread is, or how it ended
  crd,       \* per CRD: Webhook or None
  script,    \* the script on the seed, per try: how far it is
  listed,    \* per try: the CRDs it found to bypass
  saved,     \* /tmp/conv-saved.json on the seed
  local,     \* _conv_saved of the laptop, without its marker
  onseed,    \* the marker: the bypass was done on the seed
  restore,   \* _conv_thread: idle, running, ended, or died of an exception
  window,    \* the window apiserver serves
  warned,    \* the log says that CRDs may still be bypassed
  lost       \* the connection to a script at work was lost

vars == <<main, crd, script, listed, saved, local, onseed, restore, window, warned, lost>>

Aborted == {"exit9", "exit10", "crashed"}
Modes == {"Webhook", "None"}

TypeOK ==
  /\ main \in {"bypass", "laptop", "window", "joinRestore", "boot", "booted"} \cup Aborted
  /\ crd \in [Crds -> Modes]
  /\ script \in [Tries -> {"off", "begun", "listed", "patched", "ok", "bad"}]
  /\ listed \in [Tries -> SUBSET Crds]
  /\ saved \subseteq Crds /\ local \subseteq Crds /\ onseed \in BOOLEAN
  /\ restore \in {"idle", "running", "ended", "died"}
  /\ window \in BOOLEAN /\ warned \in BOOLEAN /\ lost \in BOOLEAN

\* kubectl is on the seed's image, or the laptop does the bypass.
Init ==
  /\ main \in {"bypass", "laptop"}
  /\ crd = [c \in Crds |-> "Webhook"]
  /\ script = [i \in Tries |-> "off"] /\ listed = [i \in Tries |-> {}]
  /\ saved = {} /\ local = {} /\ onseed = FALSE
  /\ restore = "idle" /\ window = TRUE /\ warned = FALSE /\ lost = FALSE

Bypassed == {c \in Crds : crd[c] = "None"}
Set(cs, mode) == crd' = [c \in Crds |-> IF c \in cs THEN mode ELSE crd[c]]

\* The try that ssh waits for; an earlier one is on its own.
IsLast(i) == script[i] # "off" /\ \A j \in Tries : j > i => script[j] = "off"

-----------------------------------------------------------------------------
(* The bypass.                                                              *)

\* ssh starts the script, and starts it again when the connection to it is lost.
Try(i) ==
  /\ main = "bypass" /\ script[i] = "off"
  /\ \A j \in Tries : j < i => script[j] \notin {"off", "bad"}
  /\ script' = [script EXCEPT ![i] = "begun"]
  /\ lost' = (i > 1)
  /\ UNCHANGED <<main, crd, listed, saved, local, onseed, restore, window, warned>>

ListFails(i) ==
  /\ script[i] = "begun"
  /\ script' = [script EXCEPT ![i] = "bad"]
  /\ UNCHANGED <<main, crd, listed, saved, local, onseed, restore, window, warned, lost>>

List(i) ==
  /\ script[i] = "begun" /\ window
  /\ listed' = [listed EXCEPT ![i] = Crds \ Bypassed]
  /\ script' = [script EXCEPT ![i] = "listed"]
  /\ UNCHANGED <<main, crd, saved, local, onseed, restore, window, warned, lost>>

\* One patch for each of them; a patch that fails is only not counted.
Patch(i) ==
  /\ script[i] = "listed" /\ window
  /\ \E done \in SUBSET listed[i] : Set(done, "None")
  /\ script' = [script EXCEPT ![i] = "patched"]
  /\ UNCHANGED <<main, listed, saved, local, onseed, restore, window, warned, lost>>

\* The list is written to the seed's disk last of all.
Save(i) ==
  /\ script[i] = "patched"
  /\ saved' = listed[i]
  /\ listed' = [listed EXCEPT ![i] = {}]
  /\ script' = [script EXCEPT ![i] = "ok"]
  /\ UNCHANGED <<main, crd, local, onseed, restore, window, warned, lost>>

\* Mutant of Returns: the marker is forgotten.
Returns_Unmarked(i) ==
  /\ main = "bypass" /\ IsLast(i) /\ script[i] \in {"ok", "bad"}
  /\ main' = IF script[i] = "ok" THEN "window" ELSE "laptop"
  /\ UNCHANGED <<crd, script, listed, saved, local, onseed, restore, window, warned, lost>>
\* _bypass_dispatch: a script that failed is followed by the laptop's own bypass.
Returns(i) ==
  /\ main = "bypass" /\ IsLast(i) /\ script[i] \in {"ok", "bad"}
  /\ onseed' = (script[i] = "ok")
  /\ main' = IF script[i] = "ok" THEN "window" ELSE "laptop"
  /\ UNCHANGED <<crd, script, listed, saved, local, restore, window, warned, lost>>

\* After the last try without an answer, likewise.
GivesUp ==
  /\ main = "bypass" /\ \A i \in Tries : script[i] # "off"
  /\ main' = "laptop" /\ lost' = TRUE
  /\ UNCHANGED <<crd, script, listed, saved, local, onseed, restore, window, warned>>

\* kx of the laptop goes over ssh to the seed if its image has kubectl: the laptop is then
\* at work because the script has failed.  Such a call may run out of time, which nobody
\* catches.
OverSsh == \E i \in Tries : script[i] # "off"

\* conversion_bypass: the list may fail, and so may each patch.
BypassLaptop ==
  /\ main = "laptop" /\ main' = "window"
  /\ \/ local' = Crds \ Bypassed /\ \E done \in SUBSET (Crds \ Bypassed) : Set(done, "None")
     \/ UNCHANGED <<local, crd>>
  /\ UNCHANGED <<script, listed, saved, onseed, restore, window, warned, lost>>

BypassDies ==
  /\ main = "laptop" /\ OverSsh /\ main' = "crashed"
  /\ \E done \in SUBSET (Crds \ Bypassed) : Set(done, "None")
  /\ UNCHANGED <<script, listed, saved, local, onseed, restore, window, warned, lost>>

-----------------------------------------------------------------------------
(* The restore.                                                             *)

\* The tools are done and the hooks cleared; the restore begins in its thread.
StartRestore ==
  /\ main = "window" /\ main' = "joinRestore" /\ restore' = "running"
  /\ UNCHANGED <<crd, script, listed, saved, local, onseed, window, warned, lost>>

\* The ordering gate, or a kubectl call of the main thread that is not caught.
EndsEarly ==
  /\ main = "window" /\ main' \in {"exit9", "crashed"}
  /\ UNCHANGED <<crd, script, listed, saved, local, onseed, restore, window, warned, lost>>

\* Mutant of Restores: what cannot be put back is not logged.
Restores_Silent ==
  /\ restore = "running" /\ restore' = "ended"
  /\ \E left \in SUBSET (saved \cup local) : Set((saved \cup local) \ left, "Webhook")
  /\ UNCHANGED <<main, script, listed, saved, local, onseed, window, warned, lost>>
\* _restore_dispatch, _restore_one: each CRD is tried three times, and what is left
\* is logged.
Restores ==
  /\ restore = "running" /\ restore' = "ended"
  /\ LET mine == IF onseed THEN saved ELSE local IN
     \E left \in (IF window THEN SUBSET mine ELSE {mine}) :
       /\ Set(mine \ left, "Webhook")
       /\ warned' = (warned \/ left # {})
  /\ UNCHANGED <<main, script, listed, saved, local, onseed, window, lost>>

\* conversion_restore over ssh: a call that runs out of time ends the thread, and what it
\* has left is not logged.
RestoreDies ==
  /\ restore = "running" /\ ~onseed /\ OverSsh /\ local # {} /\ restore' = "died"
  /\ \E back \in (IF window THEN SUBSET local ELSE {{}}) : Set(back, "Webhook")
  /\ UNCHANGED <<main, script, listed, saved, local, onseed, window, warned, lost>>

\* Mutant of JoinRestore: the main thread does not wait.
JoinRestore_Never ==
  /\ main = "joinRestore" /\ main' = "boot"
  /\ UNCHANGED <<crd, script, listed, saved, local, onseed, restore, window, warned, lost>>
\* 300 seconds, then a warning; a thread that has died is not at work.
JoinRestore ==
  /\ main = "joinRestore" /\ main' = "boot"
  /\ warned' = (warned \/ restore = "running")
  /\ UNCHANGED <<crd, script, listed, saved, local, onseed, restore, window, lost>>

\* The abort check, or the close of the window and the boot.
Boot ==
  /\ main = "boot"
  /\ \/ main' = "exit10" /\ UNCHANGED window
     \/ main' = "booted" /\ window' = FALSE
  /\ UNCHANGED <<crd, script, listed, saved, local, onseed, restore, warned, lost>>

Script(i) == ListFails(i) \/ List(i) \/ Patch(i) \/ Save(i)

Next ==
  \/ \E i \in Tries : Try(i) \/ Script(i) \/ Returns(i)
  \/ GivesUp \/ BypassLaptop \/ BypassDies \/ StartRestore \/ EndsEarly
  \/ Restores \/ RestoreDies \/ JoinRestore \/ Boot

Spec == Init /\ [][Next]_vars

-----------------------------------------------------------------------------
(* Properties.                                                              *)

\* What is booted, or given up at the last check, has the template's webhooks back,
\* or the log says that it may not.  It takes two failures for a silent boot: a script whose
\* connection was lost while it was at work, or a script that has failed and a restore by
\* the laptop that has died after it.
RestoredOrWarned ==
  main \in {"booted", "exit10"} =>
    Bypassed = {} \/ warned \/ lost \/ (script[1] = "bad" /\ restore = "died")

\* "Restored verbatim before the window closes": the same without the exceptions.
BootIsVerbatim == main = "booted" => Bypassed = {} \/ warned

\* "A failed claim still never leaves the template's CRDs bypassed": a claim that
\* has ended before the boot has put them back.
AbortRestores == main \in Aborted => Bypassed = {} \/ warned
=============================================================================
