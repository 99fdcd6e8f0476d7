----------------------------- MODULE ClaimSettle -----------------------------
(***************************************************************************)
(* The booted claim settles.  Three programs work on it side by side:      *)
(* post_boc.sh's storage part in the background, the rest of post_boc.sh   *)
(* with git_hydrate.py at its end, and gates.py, which claim_cluster runs  *)
(* at most twice.  All three suspend and resume objects of flux, with      *)
(* kubectl patches whose failure nobody looks at, while flux itself goes   *)
(* on applying what is not suspended.                                      *)
(***************************************************************************)
EXTENDS Naturals

CONSTANTS
  Pinning    \* there is a gitpin file and more than one node: post_boc pins the git pod

\* What flux may find suspended: the GitRepository management, the kustomizations
\* that git_hydrate suspends (KUSTS), and the kustomization git-operator.
Objects == {"source", "platform", "gitop"}

VARIABLES
  suspended, \* the objects with spec.suspend
  unsure,    \* those whose resume has failed or was cut off
  repo,      \* kommander.git on the volume: template, claim, broken or half
  artifact,  \* what the source has fetched: whole or half
  applied,   \* what the platform kustomizations have applied, likewise
  script,    \* hydrate_repo's script in the git pod: off, begun, wiped
  sts,       \* StatefulSet git-operator-git: scaled up, pinned by a nodeSelector, and about
             \* to be written by a reconcile that has begun
  pod,       \* git-operator-git-0: never placed yet, none, or its node: pin or other
  serving,   \* its volume is mounted and it runs
  storage,   \* where the storage part is; what it read of the pod's state
  post,      \* where the rest of post_boc is
  gates,     \* gates.py: attempt, where it is, the object it has suspended
  odd        \* what went wrong: refused, loose, overtaken, cut

vars == <<suspended, unsure, repo, artifact, applied, script, sts, pod, serving,
          storage, post, gates, odd>>
flux == <<suspended, unsure>>
git == <<repo, artifact, applied, script>>
gitpod == <<sts, pod, serving>>

Contents == {"template", "claim", "broken", "half"}
Nodes == {"pin", "other"}

TypeOK ==
  /\ suspended \subseteq Objects /\ unsure \subseteq Objects
  /\ repo \in Contents /\ {artifact, applied} \subseteq {"whole", "half"}
  /\ script \in {"off", "begun", "wiped"}
  /\ sts \in [up : BOOLEAN, pinned : BOOLEAN, begun : BOOLEAN]
  /\ pod \in Nodes \cup {"never", "none"}
  /\ serving \in BOOLEAN
  /\ storage \in [at : {"suspend", "select", "scale", "place", "resume", "bounce", "delete",
                        "ended"}, node : BOOLEAN]
  /\ post \in {"verify", "mount", "source", "platform", "build", "resume", "resumeAll", "ended"}
  /\ gates \in [try : 1..2, at : {"pods", "kusts", "capi", "passed", "failed"},
                held : Objects \cup {"none"}]
  /\ odd \subseteq {"refused", "loose", "overtaken", "cut"}

\* The window held the StatefulSet at 0; git-at-rest may have rewritten the repository,
\* and the restore may have broken it.
Init ==
  /\ suspended = {} /\ unsure = {}
  /\ repo \in Contents \ {"half"} /\ artifact = "whole" /\ applied = "whole"
  /\ script = "off"
  /\ sts = [up |-> FALSE, pinned |-> FALSE, begun |-> FALSE] /\ pod = "never" /\ serving = FALSE
  /\ storage = [at |-> IF Pinning THEN "suspend" ELSE "scale", node |-> FALSE]
  /\ post = "verify"
  /\ gates = [try |-> 1, at |-> "pods", held |-> "none"]
  /\ odd = {}

\* The patches, done or refused.  Who suspends an object is the one to resume it.
Suspended(o) == suspended' = suspended \cup {o} /\ unsure' = unsure \ {o}
Resumes(o) ==
  \/ suspended' = suspended \ {o} /\ unsure' = unsure \ {o}
  \/ unsure' = unsure \cup ({o} \cap suspended) /\ UNCHANGED suspended

\* A pod that goes away takes the script in it along.
PodGone ==
  /\ pod' = (IF pod = "never" THEN "never" ELSE "none")
  /\ serving' = FALSE /\ script' = "off"

-----------------------------------------------------------------------------
(* Flux and Kubernetes.                                                     *)

Fetch ==
  /\ "source" \notin suspended /\ serving /\ repo # "broken"
  /\ artifact' = IF repo = "half" THEN "half" ELSE "whole"
  /\ UNCHANGED <<flux, repo, applied, script, gitpod, storage, post, gates, odd>>

Apply ==
  /\ "platform" \notin suspended
  /\ applied' = artifact
  /\ UNCHANGED <<flux, repo, artifact, script, gitpod, storage, post, gates, odd>>

\* A reconcile of git-operator begins, which looks at the suspend only here.
Begins ==
  /\ "gitop" \notin suspended /\ ~sts.begun
  /\ sts' = [sts EXCEPT !.begun = TRUE]
  /\ UNCHANGED <<flux, git, pod, serving, storage, post, gates, odd>>

\* It writes the StatefulSet, which flux owns: the nodeSelector is taken out again, and the
\* StatefulSet recreates the pod.  A suspend since its beginning does not stop it.
Reverts ==
  /\ sts.begun
  /\ sts' = [sts EXCEPT !.begun = FALSE, !.pinned = FALSE]
  /\ IF sts.pinned THEN PodGone ELSE UNCHANGED <<script, pod, serving>>
  /\ odd' = odd \cup (IF sts.pinned /\ "gitop" \in suspended THEN {"overtaken"} ELSE {})
  /\ UNCHANGED <<flux, repo, artifact, applied, storage, post, gates>>

Place ==
  /\ sts.up /\ pod \notin Nodes
  /\ pod' \in (IF sts.pinned THEN {"pin"} ELSE Nodes)
  /\ UNCHANGED <<flux, git, sts, serving, storage, post, gates, odd>>

Mounts ==
  /\ pod \in Nodes /\ ~serving /\ serving' = TRUE
  /\ UNCHANGED <<flux, git, sts, pod, storage, post, gates, odd>>

-----------------------------------------------------------------------------
(* The storage part.                                                        *)

\* Mutant of Suspend: the nodeSelector is patched with flux at work.
Suspend_Bare ==
  /\ storage.at = "suspend" /\ storage' = [storage EXCEPT !.at = "select"]
  /\ UNCHANGED <<flux, git, gitpod, post, gates, odd>>
\* After the CSI controller's restart: LEVER-A's suspend.
Suspend ==
  /\ storage.at = "suspend" /\ storage' = [storage EXCEPT !.at = "select"]
  /\ \/ Suspended("gitop") /\ UNCHANGED odd
     \/ odd' = odd \cup {"loose"} /\ UNCHANGED flux
  /\ UNCHANGED <<git, gitpod, post, gates>>

\* Its nodeSelector; no pod exists yet.
Select ==
  /\ storage.at = "select" /\ storage' = [storage EXCEPT !.at = "scale"]
  /\ \/ sts' = [sts EXCEPT !.pinned = TRUE] /\ UNCHANGED odd
     \/ odd' = odd \cup {"loose"} /\ UNCHANGED sts
  /\ UNCHANGED <<flux, git, pod, serving, post, gates>>

Scale ==
  /\ storage.at = "scale"
  /\ storage' = [storage EXCEPT !.at = IF Pinning THEN "place" ELSE "bounce"]
  /\ \E up \in BOOLEAN : sts' = [sts EXCEPT !.up = up]
  /\ UNCHANGED <<flux, git, pod, serving, post, gates, odd>>

\* Waits until the pod has a node, or for two minutes.
Placed ==
  /\ storage.at = "place"
  /\ storage' = [at |-> "resume", node |-> pod = "pin"]
  /\ odd' = odd \cup (IF pod \in Nodes THEN {} ELSE {"loose"})
  /\ UNCHANGED <<flux, git, gitpod, post, gates>>

\* "Always resume, even if placement timed out."
Resume ==
  /\ storage.at = "resume" /\ storage' = [storage EXCEPT !.at = "bounce"]
  /\ Resumes("gitop")
  /\ UNCHANGED <<git, gitpod, post, gates, odd>>

\* The pod's state is read, and then the pod is deleted if it was not Running, and not
\* on its node.
Bounce ==
  /\ \/ /\ storage.at = "bounce"
        /\ storage' = [storage EXCEPT !.at =
             IF storage.node \/ serving THEN "ended" ELSE "delete"]
        /\ UNCHANGED <<script, gitpod>>
     \/ /\ storage.at = "delete" /\ storage' = [storage EXCEPT !.at = "ended"]
        /\ PodGone /\ UNCHANGED sts
  /\ UNCHANGED <<flux, repo, artifact, applied, post, gates, odd>>

Storage == Suspend \/ Select \/ Scale \/ Placed \/ Resume \/ Bounce

-----------------------------------------------------------------------------
(* The rest of post_boc.                                                    *)

\* git-verify: after ten minutes at most; a repository that cannot be cloned counts
\* as one that is right.
Verify ==
  /\ post = "verify" /\ post' = "mount"
  /\ \/ serving /\ repo = "template" /\ repo' = "claim"
     \/ UNCHANGED repo
  /\ UNCHANGED <<flux, artifact, applied, script, gitpod, storage, gates, odd>>

-----------------------------------------------------------------------------
(* git_hydrate.py.                                                          *)

\* The mount gate, the bundle, and the pre-check: a repository that is right is left
\* alone, and flux resumed.  The pre-check may fail too.
Mounted ==
  /\ post = "mount"
  /\ \/ post' = "ended"
     \/ serving /\ repo = "claim" /\ post' = "resume"
     \/ serving /\ post' = "source"
  /\ UNCHANGED <<flux, git, gitpod, storage, gates, odd>>

\* Mutant of SuspendSource: only the kustomizations are suspended.
SuspendSource_Not ==
  /\ post = "source" /\ post' = "platform"
  /\ UNCHANGED <<flux, git, gitpod, storage, gates, odd>>
SuspendSource ==
  /\ post = "source" /\ post' = "platform"
  /\ \/ Suspended("source") /\ UNCHANGED odd
     \/ odd' = odd \cup {"refused"} /\ UNCHANGED flux
  /\ UNCHANGED <<git, gitpod, storage, gates>>

\* Then the kustomizations, and the script in the pod.
SuspendPlatform ==
  /\ post = "platform" /\ post' = "build"
  /\ Suspended("platform") \/ UNCHANGED flux
  /\ script' = IF serving THEN "begun" ELSE "off"
  /\ UNCHANGED <<repo, artifact, applied, gitpod, storage, gates, odd>>

\* hydrate_repo: the bundle is cloned, which may fail; then the repository is emptied,
\* and filled again.
Wipe ==
  /\ script = "begun"
  /\ \/ script' = "wiped" /\ repo' = "half"
     \/ script' = "off" /\ UNCHANGED repo
  /\ UNCHANGED <<flux, artifact, applied, gitpod, storage, post, gates, odd>>
Fill ==
  /\ script = "wiped" /\ script' = "off" /\ repo' \in {"claim", "broken"}
  /\ UNCHANGED <<flux, artifact, applied, gitpod, storage, post, gates, odd>>

\* Mutant of Rebuilt: what is not clean ends the program, without the finally.
Rebuilt_NoFinally ==
  /\ post = "build"
  /\ \/ script = "off" /\ repo = "claim" /\ post' = "resume" /\ UNCHANGED odd
     \/ script = "off" /\ repo # "half" /\ post' = "ended" /\ UNCHANGED odd
     \/ (script # "off" \/ repo = "half") /\ post' = "ended" /\ odd' = odd \cup {"cut"}
  /\ UNCHANGED <<flux, git, gitpod, storage, gates>>
\* The exec returns, with the script at its end or cut off from it.
Rebuilt ==
  /\ post = "build" /\ post' = "resume"
  /\ \/ script = "off" /\ repo # "half" /\ UNCHANGED odd
     \/ (script # "off" \/ repo = "half") /\ odd' = odd \cup {"cut"}
  /\ UNCHANGED <<flux, git, gitpod, storage, gates>>

\* resume_flux, in the finally.
ResumeFlux ==
  /\ \/ post = "resume" /\ post' = "resumeAll" /\ Resumes("source")
     \/ post = "resumeAll" /\ post' = "ended" /\ Resumes("platform")
  /\ UNCHANGED <<git, gitpod, storage, gates, odd>>

Post ==
  \/ Verify \/ Mounted \/ SuspendSource \/ SuspendPlatform
  \/ Rebuilt \/ ResumeFlux

-----------------------------------------------------------------------------
(* gates.py, and claim_cluster around it.                                   *)

\* The stale-status self-heal: a kustomization that is not ready is suspended, and
\* four seconds later resumed.
Heal(o) ==
  /\ gates.at = "kusts" /\ gates.held = "none" /\ o # "source"
  /\ gates' = [gates EXCEPT !.held = o]
  /\ Suspended(o) \/ UNCHANGED flux
  /\ UNCHANGED <<git, gitpod, storage, post, odd>>
\* Mutant of Healed: the program is over before the resume.
Healed_Not ==
  /\ gates.held # "none" /\ gates' = [gates EXCEPT !.held = "none"]
  /\ odd' = odd \cup (IF gates.held = "gitop" THEN {"loose"} ELSE {})
  /\ UNCHANGED <<flux, git, gitpod, storage, post>>
Healed ==
  /\ gates.held # "none" /\ gates' = [gates EXCEPT !.held = "none"]
  /\ Resumes(gates.held)
  /\ odd' = odd \cup (IF gates.held = "gitop" THEN {"loose"} ELSE {})
  /\ UNCHANGED <<git, gitpod, storage, post>>

\* Both gates go on when their rounds are used up; the last one is FATAL.
GateEnds ==
  /\ gates.held = "none"
  /\ \/ gates.at = "pods" /\ gates' = [gates EXCEPT !.at = "kusts"]
     \/ gates.at = "kusts" /\ gates' = [gates EXCEPT !.at = "capi"]
     \/ gates.at = "capi" /\ \E end \in {"passed", "failed"} : gates' = [gates EXCEPT !.at = end]
  /\ UNCHANGED <<flux, git, gitpod, storage, post, odd>>

\* The attempt has taken 1200 seconds, and is killed.
Killed ==
  /\ gates.at \in {"pods", "kusts", "capi"}
  /\ gates' = [gates EXCEPT !.at = "failed", !.held = "none"]
  /\ unsure' = unsure \cup ({gates.held} \cap suspended)
  /\ UNCHANGED <<suspended, git, gitpod, storage, post, odd>>

Again ==
  /\ gates.at = "failed" /\ gates.try = 1
  /\ gates' = [try |-> 2, at |-> "pods", held |-> "none"]
  /\ UNCHANGED <<flux, git, gitpod, storage, post, odd>>

Gates == (\E o \in Objects : Heal(o)) \/ Healed \/ GateEnds \/ Killed \/ Again

Next ==
  \/ Storage \/ Post \/ Wipe \/ Fill \/ Gates
  \/ Fetch \/ Apply \/ Begins \/ Reverts \/ Place \/ Mounts

Spec == Init /\ [][Next]_vars

-----------------------------------------------------------------------------
(* Properties.                                                              *)

\* "An empty or half-built repo reconciled with prune=true would delete the whole
\* platform": flux never applies one, whatever gates.py resumes meanwhile, unless the
\* patch that suspends the source was refused or the rebuild was cut off.
HalfBuiltNeverApplied == applied = "half" => odd \cap {"refused", "cut"} # {}

\* "Leaving flux suspended is the worst outcome": when the programs have ended, only
\* what a failed or cut off resume stands for is still suspended.
NothingLeftSuspended ==
  storage.at = "ended" /\ post = "ended" /\ gates.at \in {"passed", "failed"} =>
    suspended \subseteq unsure

\* The same without the exception: "resumed once the hydrated content is in place".
ResumedWhenInPlace == applied = "half" => "refused" \in odd

\* "A running pod is not rescheduled by a selector change".
PlacedStays == [][pod = "pin" /\ storage.at = "ended" => pod' = "pin"]_vars

\* "The nodeSelector only needs to survive until scheduling": with flux held off by a
\* suspend that was done.
SurvivesUntilPlaced ==
  [][Pinning /\ pod = "never" /\ pod' = "other" => "loose" \in odd]_vars
=============================================================================
