------------------------------- MODULE Overrides -------------------------------
(***************************************************************************)
(* Images of one's own in a claimed cluster                                *)
(* (instant-cluster/override_image.py).  Each run of the tool reads what   *)
(* is recorded in the cluster once, applies or reverts some components,    *)
(* and writes the record once, at its end.  A component is an image of a   *)
(* flux application, whose images share one ConfigMap; an image of a CAAPH *)
(* chart, whose images share one valuesTemplate; or a controller.  The     *)
(* ConfigMap of an application has a second writer, deploy_app             *)
(* (framework/steps.py), which keeps the application's own values there.   *)
(* No call is checked but those that only read.                            *)
(***************************************************************************)
EXTENDS Naturals

CONSTANTS
  Tools,     \* the processes that may run the tool
  FluxApp,   \* the images of one flux application
  Chart,     \* the images of one CAAPH chart
  Ctrls,     \* controllers
  Images,    \* images of one's own
  Orig,      \* what a component runs by itself
  MaxOps     \* bound: components applied or reverted, over all runs

ASSUME OrigAssumption == Orig \notin Images
ASSUME KindsAssumption ==
  FluxApp \cap Chart = {} /\ FluxApp \cap Ctrls = {} /\ Chart \cap Ctrls = {}
ASSUME MaxOpsAssumption == MaxOps \in Nat

Components == FluxApp \cup Chart \cup Ctrls
\* The namespaces whose ServiceAccounts get the pull secret.
Ns(k) == CASE k \in FluxApp -> "kommander" [] k \in Chart -> "kube-system" [] OTHER -> k

VARIABLES
  live,     \* per component: the image it has been given
  values,   \* the application's own values are in its ConfigMap
  operator, \* capi-operator is scaled up
  secrets,  \* the namespaces that have the pull secret
  record,   \* the ConfigMap speedstart-image-overrides: per component, its entry
  at,       \* per process: idle, apply, revert
  mem,      \* per process: st, the record it has read and goes on with
  option,   \* per process: --hold-operators, --pull-secret
  ops,      \* the components applied or reverted so far
  odd       \* refused, cut, unread, raced, again, crossed, deployed: what has happened

shared == <<live, values, operator, secrets>>
overrideVars == <<shared, record, at, mem, option, ops, odd>>

IsRecord(st) == /\ DOMAIN st \subseteq Components
                /\ \A k \in DOMAIN st : st[k].image \in Images

OverrideTypeOK ==
  /\ live \in [Components -> Images \cup {Orig}]
  /\ {values, operator} \subseteq BOOLEAN
  /\ IsRecord(record) /\ \A t \in Tools : IsRecord(mem[t])
  /\ at \in [Tools -> {"idle", "apply", "revert"}]
  /\ option \in [Tools -> SUBSET {"hold", "secret"}]
  /\ ops \in 0..MaxOps
  /\ odd \subseteq {"refused", "cut", "unread", "raced", "again", "crossed", "deployed"}

NoOverrides == [k \in {} |-> Orig]
Idle == \A t \in Tools : at[t] = "idle"

OverrideInit ==
  /\ live = [k \in Components |-> Orig] /\ values = FALSE /\ operator = TRUE /\ secrets = {}
  /\ record = NoOverrides
  /\ at = [t \in Tools |-> "idle"] /\ mem = [t \in Tools |-> NoOverrides]
  /\ option = [t \in Tools |-> {}] /\ ops = 0 /\ odd = {}

Odd(words) == odd' = odd \cup words
When(cond, word) == IF cond THEN {word} ELSE {}

-----------------------------------------------------------------------------
(* A run of the tool.                                                       *)

\* main: the record is loaded; one that cannot be read counts as empty.
Start(t) ==
  /\ at[t] = "idle" /\ ops < MaxOps
  /\ \E cmd \in {"apply", "revert"}, o \in SUBSET {"hold", "secret"} :
       /\ cmd = "revert" => o = {} /\ DOMAIN record # {}
       /\ at' = [at EXCEPT ![t] = cmd] /\ option' = [option EXCEPT ![t] = o]
  /\ \E unread \in BOOLEAN :
       /\ unread => DOMAIN record # {}
       /\ mem' = [mem EXCEPT ![t] = IF unread THEN NoOverrides ELSE record]
       /\ Odd(When(unread, "unread") \cup When(~Idle, "raced"))
  /\ UNCHANGED <<shared, record, ops>>

With(st, k, e) == [x \in DOMAIN st \cup {k} |-> IF x = k THEN e ELSE st[x]]
Without(st, k) == [x \in DOMAIN st \ {k} |-> st[x]]

\* The ConfigMap of the application, built of the entries of st alone.
Rebuilt(st) ==
  [k \in Components |->
     IF k \notin FluxApp THEN live[k] ELSE IF k \in DOMAIN st THEN st[k].image ELSE Orig]

\* What an entry keeps to go back to: the whole valuesTemplate, or the image.
Kept(k) == IF k \in Chart THEN Chart ELSE {k} \cap Ctrls

\* Mutant of Patched: the ConfigMap is written with this override alone.
Patched_Alone(st, k) ==
  IF k \in FluxApp THEN Rebuilt([x \in {k} |-> st[k]]) ELSE [live EXCEPT ![k] = st[k].image]
\* The patch of apply_one; st has the new entry.
Patched(st, k) == IF k \in FluxApp THEN Rebuilt(st) ELSE [live EXCEPT ![k] = st[k].image]

\* The calls a component takes; bound: at most one of them is refused.
Calls == {"image", "operator", "secret"}
Outcomes == {Calls} \cup {Calls \ {c} : c \in Calls}
Image(done, k, new) ==
  IF "image" \in done THEN live' = new /\ values' = (values /\ k \notin FluxApp)
                      ELSE UNCHANGED <<live, values>>

\* apply_one, whatever of it is refused; it stores the entry in either case.
Apply(t, k, i) ==
  LET e == [image |-> i, orig |-> [x \in Kept(k) |-> live[x]],
            held |-> k \in Ctrls /\ "hold" \in option[t], secret |-> "secret" \in option[t]]
      st == With(mem[t], k, e)
      again == When(k \in DOMAIN mem[t], "again")
  IN /\ at[t] = "apply" /\ ops < MaxOps /\ ops' = ops + 1 /\ mem' = [mem EXCEPT ![t] = st]
     /\ \E done \in Outcomes :
          /\ Image(done, k, Patched(st, k))
          /\ operator' = (operator /\ ~(e.held /\ "operator" \in done))
          /\ secrets' = secrets \cup (IF e.secret /\ "secret" \in done THEN {Ns(k)} ELSE {})
          /\ Odd(again \cup When(done # Calls, "refused"))
     /\ UNCHANGED <<record, at, option>>

\* The images an entry brings back.
Restored(st, k, e) ==
  IF k \in FluxApp THEN Rebuilt(st)
  ELSE [x \in Components |-> IF x \in DOMAIN e.orig THEN e.orig[x] ELSE live[x]]

\* Mutant of Frees: what was held stays held.
Frees_Not(e) == operator
Frees(e) == operator \/ e.held

\* Some other image of the chart was overridden later than this one.
Buried(st, k) == \E x \in DOMAIN st \cap Chart : k \in Chart /\ st[x].orig[k] # Orig

\* revert_one, whatever of it is refused; the entry is popped before.
Revert(t, k) ==
  LET e == mem[t][k]
      st == Without(mem[t], k)
  IN /\ at[t] = "revert" /\ k \in DOMAIN mem[t] /\ ops < MaxOps /\ ops' = ops + 1
     /\ mem' = [mem EXCEPT ![t] = st]
     /\ \E done \in Outcomes :
          /\ Image(done, k, Restored(st, k, e))
          /\ operator' = IF "operator" \in done THEN Frees(e) ELSE operator
          /\ secrets' = secrets \ (IF e.secret /\ "secret" \in done THEN {Ns(k)} ELSE {})
          /\ Odd(When(Buried(st, k), "crossed") \cup When(done # Calls, "refused"))
     /\ UNCHANGED <<record, at, option>>

ToolEnds(t) == at[t] # "idle" /\ at' = [at EXCEPT ![t] = "idle"]
           /\ mem' = [mem EXCEPT ![t] = NoOverrides] /\ option' = [option EXCEPT ![t] = {}]
\* state_save, once, at the end.
Save(t) ==
  /\ ToolEnds(t)
  /\ \/ record' = mem[t] /\ UNCHANGED odd
     \/ Odd({"refused"}) /\ UNCHANGED record
  /\ UNCHANGED <<shared, ops>>
Killed(t) == ToolEnds(t) /\ Odd({"cut"}) /\ UNCHANGED <<shared, record, ops>>

\* deploy_app with config_values writes the ConfigMap of the application.
DeployApp ==
  /\ ~values /\ values' = TRUE /\ live' = Rebuilt(NoOverrides)
  /\ Odd(When(live' # live, "deployed"))
  /\ UNCHANGED <<operator, secrets, record, at, mem, option, ops>>

OverrideNext ==
  \/ \E t \in Tools :
       \/ Start(t) \/ Save(t) \/ Killed(t)
       \/ \E k \in Components : Revert(t, k) \/ \E i \in Images : Apply(t, k, i)
  \/ DeployApp

OverrideSpec == OverrideInit /\ [][OverrideNext]_overrideVars

-----------------------------------------------------------------------------
(* Properties.                                                              *)

Clean(words) == Idle /\ odd \cap words = {}
Recorded(k) == IF k \in DOMAIN record THEN record[k].image ELSE Orig

\* Between the runs every component runs what the record says, siblings of an
\* application and what has been reverted included: unless a call was refused, a run was
\* killed, the record could not be read, two runs overlapped, the application was deployed
\* anew, the same component of a chart or a controller was overridden twice, or an image
\* of a chart was reverted under a later one.
RecordIsLive ==
  /\ Clean({"refused", "cut", "unread", "raced", "deployed"}) =>
       \A k \in FluxApp : live[k] = Recorded(k)
  /\ Clean({"refused", "cut", "unread", "raced", "again", "crossed"}) =>
       \A k \in Chart \cup Ctrls : live[k] = Recorded(k)

\* "Revert restores it": with nothing recorded, capi-operator is up again and no
\* ServiceAccount has the pull secret.
NothingLeftBehind ==
  Clean({"refused", "cut", "unread", "raced", "again"}) /\ DOMAIN record = {} =>
    operator /\ secrets = {}

\* "Exact restore (multi-image-safe)": the same of a chart's images, in whatever order
\* they are reverted.
RevertIsExact ==
  Clean({"refused", "cut", "unread", "raced", "again"}) /\ DOMAIN record = {} =>
    \A k \in Chart : live[k] = Orig

\* "A bulletproof hold": capi-operator is down as long as an override that holds it is
\* recorded.
HoldLasts ==
  Clean({"refused", "cut", "unread", "raced", "again"}) =>
    \A k \in DOMAIN record : record[k].held => ~operator

\* An override that needs the pull secret has it.
SecretLasts ==
  Clean({"refused", "cut", "unread", "raced", "again"}) =>
    \A k \in DOMAIN record : record[k].secret => Ns(k) \in secrets

\* What a run applies is added to the record, and no other run's entry is lost: "revert
\* with: override_image.py <kc> revert" reverts them all.  It does not hold.
EntriesAreKept ==
  [][\A t \in Tools : at[t] = "apply" /\ at'[t] = "idle" => DOMAIN record \subseteq DOMAIN record']_overrideVars

\* The values an application was deployed with stay.
ValuesStay == [][values => values']_overrideVars
=============================================================================
