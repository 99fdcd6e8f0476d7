------------------------------- MODULE NetPool -------------------------------
(***************************************************************************)
(* Static address allocation (framework/netpool.py) as the scenario runs   *)
(* of one machine use it: a lease file guarded by an flock, a ping probe,  *)
(* and leases that expire LEASE_TTL_S after they were written.             *)
(*                                                                         *)
(* A lease is kept as its owner and its age instead of its time stamp, and *)
(* the file as its readers see it: an entry that reaches the age TTL is    *)
(* dropped by the Tick that makes it so old.  One Tick is a fraction of    *)
(* the six-hour TTL, so a critical section, which lasts a few seconds,     *)
(* writes leases of age 0.                                                 *)
(***************************************************************************)
EXTENDS Integers, FiniteSets

CONSTANTS
  Run,        \* the processes: one scenario run each
  Pool,       \* addresses of E2E_VIP_POOL
  Fixed,      \* addresses frozen templates carry (their VIP and LB)
  Watched,    \* addresses whose announcements are followed (all of Addr, or a part)
  Silent,     \* addresses whose host ignores ICMP: they look free to a probe
  Owner,      \* owner names written into leases
  PoolName,   \* PoolName[r]: ctx.cluster(), the owner Context.addresses passes
  ClaimName,  \* ClaimName[r]: the clone's name, the owner claim_cluster passes
  Count,      \* addresses per cluster (2: VIP and load balancer)
  TTL,        \* LEASE_TTL_S, in ticks
  None        \* no owner, no run

Addr == Pool \cup Fixed

ASSUME TTLAssumption == TTL \in Nat \ {0}
ASSUME NamesAssumption == /\ PoolName \in [Run -> Owner]
                          /\ ClaimName \in [Run -> Owner]
                          /\ None \notin Owner
                          /\ None \notin Run

\* Different scenarios of one user, and the same scenario of different users, have
\* different names; two runs of one scenario by one user would share theirs, and
\* each would release the other's leases.
NamesDistinct ==
  \A r, s \in Run : r # s => {PoolName[r], ClaimName[r]} \cap {PoolName[s], ClaimName[s]} = {}
ASSUME NamesDistinctAssumption == NamesDistinct

VARIABLES
  lock,    \* the run holding the flock, or None
  holder,  \* lease file: holder[a] is the owner of a's young lease, or None
  age,     \* age[a]: age of a's lease
  pc,      \* where each run is
  mode,    \* how the run gets its cluster
  avoid,   \* the `reserved` argument, computed before the lock is taken
  want,    \* addresses chosen, not yet written
  got,     \* addresses the run believes it owns (ctx._addresses)
  gotAge,  \* time since the run was granted them
  built,   \* addresses that the run's clusters are configured with
  wire,    \* those of them that they announce on the network
  late,    \* those of wire that came up without a lease of the run
  wiped    \* TRUE once a crash has destroyed the lease file

fileVars == <<holder, age, wiped>>
runVars  == <<mode, avoid, want, got, gotAge>>
net      == <<built, wire, late>>
vars     == <<lock, holder, age, pc, mode, avoid, want, got, gotAge, net, wiped>>

Modes == {"create", "claim", "preserve"}
Places == {"start", "allocating", "holding", "probing", "checking", "leasing",
           "running", "releasing", "dropping", "finished", "dead"}
\* Inside `with _FileLock(path)`.
Critical == {"probing", "checking", "leasing", "dropping"}

TypeOK ==
  /\ lock \in Run \cup {None}
  /\ holder \in [Addr -> Owner \cup {None}]
  /\ age \in [Addr -> 0..(TTL - 1)]
  /\ pc \in [Run -> Places]
  /\ mode \in [Run -> Modes]
  /\ avoid \in [Run -> SUBSET Addr]
  /\ want \in [Run -> SUBSET Addr]
  /\ got \in [Run -> SUBSET Addr]
  /\ gotAge \in [Run -> 0..TTL]
  /\ built \in [Run -> SUBSET Addr]
  /\ wire \in [Run -> SUBSET Addr] /\ late \in [Run -> SUBSET Addr]
  /\ wiped \in BOOLEAN

-----------------------------------------------------------------------------
(* What a reader of the lease file sees, and what the network answers.      *)

\* _load_leases: entries younger than LEASE_TTL_S; an unreadable file is {}.
Leased(a) == holder[a] # None

\* allocate: the owner of the lease depends on who asked for it.
LeaseOwner(r) == IF mode[r] = "preserve" THEN ClaimName[r] ELSE PoolName[r]

\* finish_cluster releases ctx.cluster_name: the clone's name after a claim.
ClusterName(r) == IF mode[r] = "create" THEN PoolName[r] ELSE ClaimName[r]

\* Mutant of Answers: no probe.
Answers_Unprobed(a) == FALSE
\* _reachable: a live cluster answers unless its host ignores ICMP.
Answers(a) == a \notin Silent /\ \E s \in Run : a \in wire[s]

\* Mutant of Candidates: the lease file is not consulted.
Candidates_Leased(r) == Pool \ avoid[r]
\* candidates: the pool without reserved and without leased addresses.
Candidates(r) == {a \in Pool \ avoid[r] : ~Leased(a)}

-----------------------------------------------------------------------------
Init ==
  /\ lock = None
  /\ holder = [a \in Addr |-> None]
  /\ age = [a \in Addr |-> 0]
  /\ pc = [r \in Run |-> "start"]
  /\ mode = [r \in Run |-> "create"]
  /\ avoid = [r \in Run |-> {}]
  /\ want = [r \in Run |-> {}]
  /\ got = [r \in Run |-> {}]
  /\ gotAge = [r \in Run |-> 0]
  /\ built = [r \in Run |-> {}] /\ wire = [r \in Run |-> {}] /\ late = [r \in Run |-> {}]
  /\ wiped = FALSE

Goto(r, place) == pc' = [pc EXCEPT ![r] = place]

\* The process is over: what it kept in memory is gone.
Forget(r) ==
  /\ mode' = [mode EXCEPT ![r] = "create"]
  /\ avoid' = [avoid EXCEPT ![r] = {}]
  /\ want' = [want EXCEPT ![r] = {}]
  /\ got' = [got EXCEPT ![r] = {}]
  /\ gotAge' = [gotAge EXCEPT ![r] = 0]

\* Mutants: a shared flock; a lock file nobody removes for a killed process.
Acquire_Shared(r) == lock' = r
Unlock_Never(r) == lock' = lock
\* The flock: acquired when free, dropped on leaving the with block; a process
\* that ends drops the lock if it holds it.
Acquire(r) == lock = None /\ lock' = r
Drop(r) == lock' = None
Unlock(r) == lock' = IF lock = r THEN None ELSE lock

\* write_text truncates before it writes: a write that never completes leaves a
\* file that _load_leases reads as {}.
Wipe ==
  /\ holder' = [a \in Addr |-> None]
  /\ age' = [a \in Addr |-> 0]
  /\ wiped' = TRUE

\* Context.addresses -> allocate(pool, 2, reserved=R): everything before the
\* lock, i.e. the reserved set is a snapshot the run keeps while it waits.
BeginAllocate(r, R, m) ==
  /\ pc[r] = "start"
  /\ m \in {"create", "claim"}
  /\ mode' = [mode EXCEPT ![r] = m]
  /\ avoid' = [avoid EXCEPT ![r] = R]
  /\ IF Cardinality(Pool \ R) < Count      \* PoolExhausted before the lock
       THEN Goto(r, "running")
       ELSE Goto(r, "allocating")
  /\ UNCHANGED <<lock, fileVars, want, got, gotAge, net>>

AllocateLock(r) ==
  /\ pc[r] = "allocating"
  /\ Acquire(r)
  /\ Goto(r, "probing")
  /\ UNCHANGED <<fileVars, runVars, net>>

\* Any Count candidates that do not answer may be the first found after the
\* shuffle; write_text then truncates the file ("leasing").
Probe(r) ==
  /\ pc[r] = "probing"
  /\ \E W \in SUBSET {a \in Candidates(r) : ~Answers(a)} :
        /\ Cardinality(W) = Count
        /\ want' = [want EXCEPT ![r] = W]
  /\ avoid' = [avoid EXCEPT ![r] = {}]
  /\ Goto(r, "leasing")
  /\ UNCHANGED <<lock, fileVars, mode, got, gotAge, net>>

\* Too few candidates, or too few that are silent (a probe that breaks counts
\* as "in use", so the search may always fail): PoolExhausted leaves the block.
Exhausted(r) ==
  /\ pc[r] = "probing"
  /\ avoid' = [avoid EXCEPT ![r] = {}]
  /\ Drop(r)
  /\ Goto(r, "running")
  /\ UNCHANGED <<fileVars, mode, want, got, gotAge, net>>

\* claim_cluster with preserve_addresses -> hold([vip, lb], claim_name).
BeginHold(r, F) ==
  /\ pc[r] = "start"
  /\ mode' = [mode EXCEPT ![r] = "preserve"]
  /\ want' = [want EXCEPT ![r] = F]
  /\ Goto(r, "holding")
  /\ UNCHANGED <<lock, fileVars, avoid, got, gotAge, net>>

HoldLock(r) ==
  /\ pc[r] = "holding"
  /\ Acquire(r)
  /\ Goto(r, "checking")
  /\ UNCHANGED <<fileVars, runVars, net>>

\* Mutant of Taken: hold does not look at the owner.
Taken_Never(r) == FALSE
\* Held by somebody else: hold refuses with PoolExhausted.
Taken(r) == \E a \in want[r] : Leased(a) /\ holder[a] # ClaimName[r]

HoldCheck(r) ==
  /\ pc[r] = "checking"
  /\ IF Taken(r)
       THEN /\ Goto(r, "running")
            /\ Drop(r)
            /\ want' = [want EXCEPT ![r] = {}]
       ELSE /\ Goto(r, "leasing")
            /\ UNCHANGED <<lock, want>>
  /\ UNCHANGED <<fileVars, mode, avoid, got, gotAge, net>>

\* leases.update; write_text; leave the lock; return the addresses.
WriteLease(r) ==
  /\ pc[r] = "leasing"
  /\ holder' = [a \in Addr |-> IF a \in want[r] THEN LeaseOwner(r) ELSE holder[a]]
  /\ age' = [a \in Addr |-> IF a \in want[r] THEN 0 ELSE age[a]]
  /\ got' = [got EXCEPT ![r] = want[r]]
  /\ gotAge' = [gotAge EXCEPT ![r] = 0]
  /\ want' = [want EXCEPT ![r] = {}]
  /\ Drop(r)
  /\ Goto(r, "running")
  /\ UNCHANGED <<mode, avoid, net, wiped>>

\* The write fails (a full disk): allocate and hold raise, the lock is dropped.
WriteFails(r) ==
  /\ pc[r] = "leasing"
  /\ Wipe
  /\ want' = [want EXCEPT ![r] = {}]
  /\ Drop(r)
  /\ Goto(r, "running")
  /\ UNCHANGED <<mode, avoid, got, gotAge, net>>

-----------------------------------------------------------------------------
(* The run between getting its addresses and finish_cluster.                *)

\* The VMs are created with the addresses, of which Watched are followed.  What an earlier cluster of the run left
\* behind is swept first, or is not (the sweep goes by name, and a claim's VMs have
\* another name than a create's).
Build(r) ==
  /\ pc[r] = "running" /\ got[r] # {}
  /\ \E old \in {{}, built[r]} :
        /\ built' = [built EXCEPT ![r] = (got[r] \cap Watched) \cup old]
        /\ wire' = [wire EXCEPT ![r] = wire[r] \cap old]
        /\ late' = [late EXCEPT ![r] = late[r] \cap old]
  /\ UNCHANGED <<lock, fileVars, pc, runVars>>

\* A name of the run is in the lease of a.
LeasedTo(r, a) == holder[a] \in {PoolName[r], ClaimName[r]}

\* kube-vip or MetalLB announces one of them: under the lease of the run, or later.
\* finish_cluster releases first and keeps a cluster whose delivery or freeze failed, a
\* killed run's cluster goes on, and a node may come back after any time.
Announces(r) ==
  \E a \in built[r] \ wire[r] :
     /\ wire' = [wire EXCEPT ![r] = @ \cup {a}]
     /\ late' = IF LeasedTo(r, a) THEN late ELSE [late EXCEPT ![r] = @ \cup {a}]
     /\ UNCHANGED <<lock, fileVars, pc, runVars, built>>

\* The node or the speaker that announced it is down.
FallsSilent(r) ==
  \E a \in wire[r] :
     /\ wire' = [wire EXCEPT ![r] = @ \ {a}]
     /\ late' = [late EXCEPT ![r] = @ \ {a}]
     /\ UNCHANGED <<lock, fileVars, pc, runVars, built>>

\* The VMs go away: deleted by the run or swept later on.
GoDown(r) ==
  /\ built[r] # {}
  /\ built' = [built EXCEPT ![r] = {}]
  /\ wire' = [wire EXCEPT ![r] = {}]
  /\ late' = [late EXCEPT ![r] = {}]
  /\ UNCHANGED <<lock, fileVars, pc, runVars>>

\* finish_cluster: release(ctx.cluster_name) comes before anything is deleted.
BeginRelease(r) ==
  /\ pc[r] = "running"
  /\ Goto(r, "releasing")
  /\ UNCHANGED <<lock, fileVars, runVars, net>>

ReleaseLock(r) ==
  /\ pc[r] = "releasing"
  /\ Acquire(r)
  /\ Goto(r, "dropping")
  /\ UNCHANGED <<fileVars, runVars, net>>

\* keep = leases of other owners; write_text(keep).
Release(r) ==
  /\ pc[r] = "dropping"
  /\ holder' = [a \in Addr |-> IF holder[a] = ClusterName(r) THEN None ELSE holder[a]]
  /\ age' = [a \in Addr |-> IF holder'[a] = None THEN 0 ELSE age[a]]
  /\ Drop(r)
  /\ Forget(r)
  /\ Goto(r, "finished")
  /\ UNCHANGED <<net, wiped>>

\* An exception inside release is logged and swallowed: the leases stay, or the
\* file was already truncated for the write that failed.
ReleaseFails(r) ==
  /\ pc[r] \in {"releasing", "dropping"}
  /\ \/ UNCHANGED fileVars
     \/ pc[r] = "dropping" /\ Wipe
  /\ Unlock(r)
  /\ Forget(r)
  /\ Goto(r, "finished")
  /\ UNCHANGED net

-----------------------------------------------------------------------------
(* Crashes, restarts and time.                                              *)

\* The process is killed, possibly in the middle of write_text; the kernel drops
\* its flock.
Crash(r) ==
  /\ pc[r] \notin {"start", "finished", "dead"}
  /\ \/ UNCHANGED fileVars
     \/ pc[r] \in {"leasing", "dropping"} /\ Wipe
  /\ Unlock(r)
  /\ Forget(r)
  /\ Goto(r, "dead")
  /\ UNCHANGED net

\* The same scenario is started again: a new process, the same names.
Restart(r) ==
  /\ pc[r] \in {"finished", "dead"}
  /\ Goto(r, "start")
  /\ UNCHANGED <<lock, fileVars, runVars, net>>

\* Mutant of Expires: <= for <.
Expires_Late(a) == age[a] = TTL
Expires(a) == age[a] = TTL - 1

\* Mutant of Tick: a lease never grows old.
Tick_Ageless ==
  /\ gotAge' = [r \in Run |-> IF got[r] # {} /\ gotAge[r] < TTL THEN gotAge[r] + 1 ELSE gotAge[r]]
  /\ UNCHANGED <<lock, holder, age, pc, mode, avoid, want, got, net, wiped>>
\* An entry that reaches the TTL is no longer counted; without a lease or an
\* address there is no age to keep: it stays 0.
Tick ==
  /\ holder' = [a \in Addr |-> IF Expires(a) THEN None ELSE holder[a]]
  /\ age' = [a \in Addr |-> IF holder'[a] = None THEN 0 ELSE age[a] + 1]
  /\ gotAge' = [r \in Run |-> IF got[r] = {} THEN 0
                             ELSE IF gotAge[r] < TTL THEN gotAge[r] + 1 ELSE TTL]
  /\ UNCHANGED <<lock, pc, mode, avoid, want, got, net, wiped>>

\* The steps a run's own code takes inside a lock or waiting for it.
Locking(r) ==
  \/ AllocateLock(r) \/ Probe(r) \/ Exhausted(r)
  \/ HoldLock(r) \/ HoldCheck(r) \/ WriteLease(r) \/ WriteFails(r)
  \/ ReleaseLock(r) \/ Release(r) \/ ReleaseFails(r)

RunStep(r) ==
  \/ Locking(r)
  \/ Build(r) \/ Announces(r) \/ FallsSilent(r) \/ GoDown(r)
  \/ BeginRelease(r) \/ Crash(r) \/ Restart(r)

Next ==
  \/ Tick
  \/ \E r \in Run : \/ RunStep(r)
                    \/ \E m \in {"create", "claim"} : BeginAllocate(r, Fixed, m)
                    \/ BeginHold(r, Fixed)

Spec == Init /\ [][Next]_vars

\* A run inside the lock keeps running unless it is killed; time passes.
InsideLock(r) == lock = r /\ Locking(r)

FairSpec == Spec /\ WF_vars(Tick) /\ \A r \in Run : WF_vars(InsideLock(r))

-----------------------------------------------------------------------------
(* Properties.                                                              *)

\* The run's lease is still counted by every other run.
Fresh(r) == gotAge[r] < TTL

\* The flock serialises the allocators: whoever is between reading and
\* writing the lease file holds it, and nobody else does (_FileLock).
LockSerialises == \A r \in Run : pc[r] \in Critical <=> lock = r

\* Two runs never own the same address while both leases are young, whatever
\* path (allocate or hold) they took and whoever crashed, was restarted or
\* released in between, as long as no crash destroyed the lease file
\* (netpool.py: "a second run starting at the same moment cannot pick them").
LeaseExclusive ==
  ~wiped => \A r, s \in Run : r # s /\ Fresh(r) /\ Fresh(s) => got[r] \cap got[s] = {}

\* No two clusters announce the same pool address unless one of them came up without a
\* lease, although leases expire and finish_cluster drops them while the cluster is
\* there: whoever came up under a lease keeps the address to itself, since the
\* next allocator finds it leased or answering.
PoolWireExclusive ==
  ~wiped => \A r, s \in Run : r # s =>
              wire[r] \cap wire[s] \subseteq Fixed \cup Silent \cup late[r] \cup late[s]

\* "a stale cluster's address is never reused" (netpool.py:10).  It does not hold: a kept
\* cluster that has not come up yet has lost its lease and does not answer.
StaleIsNotReused ==
  ~wiped => \A r, s \in Run : r # s => wire[r] \cap wire[s] \subseteq Fixed \cup Silent

\* Only its owner's release, its expiry or a destroyed file ends a lease: a run
\* never takes over or removes the lease of another one.
LeaseStolen(a) ==
  /\ Leased(a) /\ holder'[a] # holder[a] /\ ~wiped'
  /\ ~(Expires(a) /\ holder'[a] = None)
  /\ \A r \in Run : ~(pc[r] = "dropping" /\ ClusterName(r) = holder[a])
LeasesAreNotStolen == [][\A a \in Addr : ~LeaseStolen(a)]_vars

\* What hold promises of a template's own addresses: "preserving addresses means
\* at most ONE clone at a time" (netpool.py:128-129).  It does not hold:
\* finish_cluster releases the lease before it deletes the clone, and hold does
\* not probe.
PreserveAlone ==
  \A r, s \in Run : r # s => wire[r] \cap wire[s] \cap Fixed = {}

\* Liveness: a lease on a pool address lapses, even when its run was killed
\* ("a dead run must not hold addresses for ever").
PoolLeaseLapses == \A a \in Pool \ Fixed : Leased(a) ~> ~Leased(a)

\* Liveness: nobody keeps the flock, not even a run that is killed inside it.
LockIsFreed == lock # None ~> lock = None
=============================================================================
