---------------------------- MODULE NetPoolProofs ----------------------------
(* Safety of the address leases for any number of runs, any pool and any TTL. *)
EXTENDS NetPool, TLAPS

-----------------------------------------------------------------------------
(* The inductive invariant, part by part.                                   *)

\* A run has addresses only between the allocation and finish_cluster.
GotWhileRunning ==
  \A r \in Run : got[r] # {} => pc[r] \in {"running", "releasing", "dropping"}

\* As long as a run counts on its lease, the file says so, and says that the
\* lease is no older than the run believes.
FileBacksRuns ==
  ~wiped => \A r \in Run : Fresh(r) =>
              \A a \in got[r] : holder[a] = LeaseOwner(r) /\ age[a] <= gotAge[r]

\* What a run is about to write is leased by nobody, or by itself.
WantIsUnleased ==
  \A r \in Run : pc[r] = "leasing" =>
     \A a \in want[r] : holder[a] \in {None, LeaseOwner(r)}

\* What a run is about to write belongs to no run that counts on its lease.
WantIsUnowned ==
  ~wiped => \A r, s \in Run : pc[r] = "leasing" /\ r # s /\ Fresh(s) => want[r] \cap got[s] = {}

\* A run that waits or checks for hold is in mode "preserve" and wants the
\* template's own addresses.
HoldIsPreserve ==
  \A r \in Run : pc[r] \in {"holding", "checking"} => mode[r] = "preserve" /\ want[r] = Fixed

\* No cluster of another run that came up under a lease announces a, which is neither a
\* template's own nor behind a host that ignores the probe.
Quiet(r, a) == a \in Addr \ (Fixed \cup Silent) => \A s \in Run \ {r} : a \notin wire[s] \ late[s]

\* That is so of what a run is about to write, which did not answer when it was probed, and
\* of what the file says is the run's.
WantIsSilent == ~wiped => \A r \in Run : pc[r] = "leasing" => \A a \in want[r] : Quiet(r, a)
LeaseIsSilent == ~wiped => \A r \in Run, a \in Addr : LeasedTo(r, a) => Quiet(r, a)

IInv == /\ TypeOK /\ LockSerialises
        /\ GotWhileRunning /\ FileBacksRuns
        /\ WantIsUnleased /\ WantIsUnowned /\ HoldIsPreserve
        /\ WantIsSilent /\ LeaseIsSilent /\ PoolWireExclusive

-----------------------------------------------------------------------------
(* Types.                                                                   *)

\* The names a run leases and releases under are owners, never None.
LEMMA NamesAreOwners ==
  ASSUME TypeOK, NEW r \in Run
  PROVE  LeaseOwner(r) \in Owner /\ ClusterName(r) \in Owner /\ None \notin Owner
BY NamesAssumption DEF LeaseOwner, ClusterName

\* What is built, and what of it is announced, are addresses.
NetTypes == /\ built \in [Run -> SUBSET Addr]
            /\ wire \in [Run -> SUBSET Addr] /\ late \in [Run -> SUBSET Addr]

\* The initial values have their types.
LEMMA TypeInit == Init => TypeOK
<1> SUFFICES ASSUME Init PROVE TypeOK
  OBVIOUS
<1>1. 0 \in 0..(TTL - 1) /\ 0 \in 0..TTL
  BY TTLAssumption
<1>2. lock \in Run \cup {None} /\ wiped \in BOOLEAN
  BY DEF Init
<1>3. holder \in [Addr -> Owner \cup {None}] /\ age \in [Addr -> 0..(TTL - 1)]
  BY <1>1 DEF Init
<1>4. pc \in [Run -> Places] /\ mode \in [Run -> Modes]
  BY DEF Init, Places, Modes
<1>5. avoid \in [Run -> SUBSET Addr] /\ want \in [Run -> SUBSET Addr]
  BY DEF Init
<1>6. got \in [Run -> SUBSET Addr] /\ NetTypes
  BY DEF Init, NetTypes
<1>7. gotAge \in [Run -> 0..TTL]
  BY <1>1 DEF Init
<1>8. QED
  BY <1>2, <1>3, <1>4, <1>5, <1>6, <1>7 DEF TypeOK, NetTypes

\* A torn write of the lease file (write_text) leaves it well typed: it reads as
\* no leases.
LEMMA WipeTypes ==
  Wipe => /\ holder' \in [Addr -> Owner \cup {None}]
          /\ age' \in [Addr -> 0..(TTL - 1)]
          /\ wiped' = TRUE
<1>1. 0 \in 0..(TTL - 1)
  BY TTLAssumption
<1>2. QED
  BY <1>1 DEF Wipe

\* Every step of allocate, hold, release and of the runs around them keeps the
\* types.
LEMMA TypeStep ==
  ASSUME TypeOK, [Next]_vars
  PROVE  TypeOK'
<1> USE TTLAssumption, NamesAssumption DEF TypeOK, NetTypes, Modes, Places, Acquire, Drop, Unlock, Goto, Forget, runVars, fileVars, net, Addr
<1>1. CASE UNCHANGED vars
  BY <1>1 DEF vars
<1>2. CASE Tick
  <2>1. \A a \in Addr : IF holder'[a] = None THEN 0 \in 0..(TTL - 1) ELSE age[a] + 1 \in 0..(TTL - 1)
    BY <1>2 DEF Tick, Expires
  <2>2. holder' \in [Addr -> Owner \cup {None}] /\ age' \in [Addr -> 0..(TTL - 1)]
    BY <1>2, <2>1 DEF Tick
  <2>3. gotAge' \in [Run -> 0..TTL]
    BY <1>2 DEF Tick
  <2>4. QED
    BY <1>2, <2>2, <2>3 DEF Tick
<1>3. ASSUME NEW r \in Run, NEW m \in {"create", "claim"}, BeginAllocate(r, Fixed, m)
      PROVE  TypeOK'
  BY <1>3 DEF BeginAllocate
<1>4. ASSUME NEW r \in Run, BeginHold(r, Fixed) PROVE TypeOK'
  BY <1>4 DEF BeginHold
<1>5. ASSUME NEW r \in Run, AllocateLock(r) PROVE TypeOK'
  BY <1>5 DEF AllocateLock
<1>6. ASSUME NEW r \in Run, Probe(r) PROVE TypeOK'
  <2>1. want' \in [Run -> SUBSET Addr]
    BY <1>6 DEF Probe, Candidates
  <2>2. QED
    BY <1>6, <2>1 DEF Probe
<1>7. ASSUME NEW r \in Run, Exhausted(r) PROVE TypeOK'
  BY <1>7 DEF Exhausted
<1>8. ASSUME NEW r \in Run, HoldLock(r) PROVE TypeOK'
  BY <1>8 DEF HoldLock
<1>9. ASSUME NEW r \in Run, HoldCheck(r) PROVE TypeOK'
  BY <1>9 DEF HoldCheck
<1>10. ASSUME NEW r \in Run, WriteLease(r) PROVE TypeOK'
  <2>1. holder' \in [Addr -> Owner \cup {None}] /\ age' \in [Addr -> 0..(TTL - 1)]
    BY <1>10, NamesAreOwners DEF WriteLease
  <2>2. got' \in [Run -> SUBSET Addr] /\ want' \in [Run -> SUBSET Addr]
    BY <1>10 DEF WriteLease
  <2>3. QED
    BY <1>10, <2>1, <2>2 DEF WriteLease
<1>11. ASSUME NEW r \in Run, WriteFails(r) PROVE TypeOK'
  BY <1>11, WipeTypes DEF WriteFails
<1>12. ASSUME NEW r \in Run, Build(r) \/ Announces(r) \/ FallsSilent(r) PROVE TypeOK'
  BY <1>12 DEF Build, Announces, FallsSilent, net
<1>13. ASSUME NEW r \in Run, GoDown(r) PROVE TypeOK'
  BY <1>13 DEF GoDown
<1>14. ASSUME NEW r \in Run, BeginRelease(r) PROVE TypeOK'
  BY <1>14 DEF BeginRelease
<1>15. ASSUME NEW r \in Run, ReleaseLock(r) PROVE TypeOK'
  BY <1>15 DEF ReleaseLock
<1>16. ASSUME NEW r \in Run, Release(r) PROVE TypeOK'
  BY <1>16 DEF Release
<1>17. ASSUME NEW r \in Run, ReleaseFails(r) PROVE TypeOK'
  <2>1. /\ holder' \in [Addr -> Owner \cup {None}]
        /\ age' \in [Addr -> 0..(TTL - 1)]
        /\ wiped' \in BOOLEAN
    BY <1>17, WipeTypes DEF ReleaseFails
  <2>2. lock' \in Run \cup {None} /\ pc' \in [Run -> Places] /\ NetTypes'
    BY <1>17 DEF ReleaseFails
  <2>3. mode' \in [Run -> Modes] /\ gotAge' \in [Run -> 0..TTL]
    BY <1>17 DEF ReleaseFails
  <2>4. avoid' \in [Run -> SUBSET Addr] /\ want' \in [Run -> SUBSET Addr] /\ got' \in [Run -> SUBSET Addr]
    BY <1>17 DEF ReleaseFails
  <2>5. QED
    BY <2>1, <2>2, <2>3, <2>4
<1>18. ASSUME NEW r \in Run, Crash(r) PROVE TypeOK'
  <2>1. /\ holder' \in [Addr -> Owner \cup {None}]
        /\ age' \in [Addr -> 0..(TTL - 1)]
        /\ wiped' \in BOOLEAN
    BY <1>18, WipeTypes DEF Crash
  <2>2. lock' \in Run \cup {None} /\ pc' \in [Run -> Places] /\ NetTypes'
    BY <1>18 DEF Crash
  <2>3. mode' \in [Run -> Modes] /\ gotAge' \in [Run -> 0..TTL]
    BY <1>18 DEF Crash
  <2>4. avoid' \in [Run -> SUBSET Addr] /\ want' \in [Run -> SUBSET Addr] /\ got' \in [Run -> SUBSET Addr]
    BY <1>18 DEF Crash
  <2>5. QED
    BY <2>1, <2>2, <2>3, <2>4
<1>19. ASSUME NEW r \in Run, Restart(r) PROVE TypeOK'
  BY <1>19 DEF Restart
<1>20. QED
  BY <1>1, <1>2, <1>3, <1>4, <1>5, <1>6, <1>7, <1>8, <1>9, <1>10, <1>11, <1>12, <1>13, <1>14, <1>15, <1>16, <1>17, <1>18, <1>19 DEF Next, RunStep, Locking

\* Every step keeps lock and critical sections in agreement: a run enters one only
\* through Acquire on a free flock, and leaves it only by dropping the flock.
LEMMA LockStep ==
  ASSUME TypeOK, LockSerialises, [Next]_vars
  PROVE  LockSerialises'
<1> USE NamesAssumption DEF TypeOK, LockSerialises, Critical, Acquire, Drop, Unlock, Goto, Forget, Wipe, runVars, fileVars, net, Addr
<1>1. CASE UNCHANGED vars
  BY <1>1 DEF vars
<1>2. CASE Tick
  BY <1>2 DEF Tick
<1>3. ASSUME NEW r \in Run, NEW m \in {"create", "claim"}, BeginAllocate(r, Fixed, m)
      PROVE  LockSerialises'
  BY <1>3 DEF BeginAllocate
<1>4. ASSUME NEW r \in Run, BeginHold(r, Fixed) PROVE LockSerialises'
  BY <1>4 DEF BeginHold
<1>5. ASSUME NEW r \in Run, AllocateLock(r) PROVE LockSerialises'
  BY <1>5 DEF AllocateLock
<1>6. ASSUME NEW r \in Run, Probe(r) PROVE LockSerialises'
  BY <1>6 DEF Probe
<1>7. ASSUME NEW r \in Run, Exhausted(r) PROVE LockSerialises'
  BY <1>7 DEF Exhausted
<1>8. ASSUME NEW r \in Run, HoldLock(r) PROVE LockSerialises'
  BY <1>8 DEF HoldLock
<1>9. ASSUME NEW r \in Run, HoldCheck(r) PROVE LockSerialises'
  BY <1>9 DEF HoldCheck
<1>10. ASSUME NEW r \in Run, WriteLease(r) PROVE LockSerialises'
  BY <1>10 DEF WriteLease
<1>11. ASSUME NEW r \in Run, WriteFails(r) PROVE LockSerialises'
  BY <1>11 DEF WriteFails
<1>12. ASSUME NEW r \in Run, Build(r) \/ Announces(r) \/ FallsSilent(r) PROVE LockSerialises'
  BY <1>12 DEF Build, Announces, FallsSilent, net
<1>13. ASSUME NEW r \in Run, GoDown(r) PROVE LockSerialises'
  BY <1>13 DEF GoDown
<1>14. ASSUME NEW r \in Run, BeginRelease(r) PROVE LockSerialises'
  BY <1>14 DEF BeginRelease
<1>15. ASSUME NEW r \in Run, ReleaseLock(r) PROVE LockSerialises'
  BY <1>15 DEF ReleaseLock
<1>16. ASSUME NEW r \in Run, Release(r) PROVE LockSerialises'
  BY <1>16 DEF Release
<1>17. ASSUME NEW r \in Run, ReleaseFails(r) PROVE LockSerialises'
  BY <1>17 DEF ReleaseFails
<1>18. ASSUME NEW r \in Run, Crash(r) PROVE LockSerialises'
  BY <1>18 DEF Crash
<1>19. ASSUME NEW r \in Run, Restart(r) PROVE LockSerialises'
  BY <1>19 DEF Restart
<1>20. QED
  BY <1>1, <1>2, <1>3, <1>4, <1>5, <1>6, <1>7, <1>8, <1>9, <1>10, <1>11, <1>12, <1>13, <1>14, <1>15, <1>16, <1>17, <1>18, <1>19 DEF Next, RunStep, Locking

\* A run gets addresses only from allocate or hold, and forgets them when its
\* release is over or when it is killed.
LEMMA GotStep ==
  ASSUME TypeOK, GotWhileRunning, [Next]_vars
  PROVE  GotWhileRunning'
<1> USE  DEF TypeOK, GotWhileRunning, Acquire, Drop, Unlock, Goto, Forget, Wipe, runVars, fileVars, net, Addr
<1>1. CASE UNCHANGED vars
  BY <1>1 DEF vars
<1>2. CASE Tick
  BY <1>2 DEF Tick
<1>3. ASSUME NEW r \in Run, NEW m \in {"create", "claim"}, BeginAllocate(r, Fixed, m)
      PROVE  GotWhileRunning'
  BY <1>3 DEF BeginAllocate
<1>4. ASSUME NEW r \in Run, BeginHold(r, Fixed) PROVE GotWhileRunning'
  BY <1>4 DEF BeginHold
<1>5. ASSUME NEW r \in Run, AllocateLock(r) PROVE GotWhileRunning'
  BY <1>5 DEF AllocateLock
<1>6. ASSUME NEW r \in Run, Probe(r) PROVE GotWhileRunning'
  BY <1>6 DEF Probe
<1>7. ASSUME NEW r \in Run, Exhausted(r) PROVE GotWhileRunning'
  BY <1>7 DEF Exhausted
<1>8. ASSUME NEW r \in Run, HoldLock(r) PROVE GotWhileRunning'
  BY <1>8 DEF HoldLock
<1>9. ASSUME NEW r \in Run, HoldCheck(r) PROVE GotWhileRunning'
  BY <1>9 DEF HoldCheck
<1>10. ASSUME NEW r \in Run, WriteLease(r) PROVE GotWhileRunning'
  BY <1>10 DEF WriteLease
<1>11. ASSUME NEW r \in Run, WriteFails(r) PROVE GotWhileRunning'
  BY <1>11 DEF WriteFails
<1>12. ASSUME NEW r \in Run, Build(r) \/ Announces(r) \/ FallsSilent(r) PROVE GotWhileRunning'
  BY <1>12 DEF Build, Announces, FallsSilent, net
<1>13. ASSUME NEW r \in Run, GoDown(r) PROVE GotWhileRunning'
  BY <1>13 DEF GoDown
<1>14. ASSUME NEW r \in Run, BeginRelease(r) PROVE GotWhileRunning'
  BY <1>14 DEF BeginRelease
<1>15. ASSUME NEW r \in Run, ReleaseLock(r) PROVE GotWhileRunning'
  BY <1>15 DEF ReleaseLock
<1>16. ASSUME NEW r \in Run, Release(r) PROVE GotWhileRunning'
  BY <1>16 DEF Release
<1>17. ASSUME NEW r \in Run, ReleaseFails(r) PROVE GotWhileRunning'
  BY <1>17 DEF ReleaseFails
<1>18. ASSUME NEW r \in Run, Crash(r) PROVE GotWhileRunning'
  BY <1>18 DEF Crash
<1>19. ASSUME NEW r \in Run, Restart(r) PROVE GotWhileRunning'
  BY <1>19 DEF Restart
<1>20. QED
  BY <1>1, <1>2, <1>3, <1>4, <1>5, <1>6, <1>7, <1>8, <1>9, <1>10, <1>11, <1>12, <1>13, <1>14, <1>15, <1>16, <1>17, <1>18, <1>19 DEF Next, RunStep, Locking

\* Only BeginHold leads to the two places of hold, and it sets mode and addresses.
LEMMA HoldStep ==
  ASSUME TypeOK, HoldIsPreserve, [Next]_vars
  PROVE  HoldIsPreserve'
<1> USE  DEF TypeOK, HoldIsPreserve, Acquire, Drop, Unlock, Goto, Forget, Wipe, runVars, fileVars, net, Addr
<1>1. CASE UNCHANGED vars
  BY <1>1 DEF vars
<1>2. CASE Tick
  BY <1>2 DEF Tick
<1>3. ASSUME NEW r \in Run, NEW m \in {"create", "claim"}, BeginAllocate(r, Fixed, m)
      PROVE  HoldIsPreserve'
  BY <1>3 DEF BeginAllocate
<1>4. ASSUME NEW r \in Run, BeginHold(r, Fixed) PROVE HoldIsPreserve'
  BY <1>4 DEF BeginHold
<1>5. ASSUME NEW r \in Run, AllocateLock(r) PROVE HoldIsPreserve'
  BY <1>5 DEF AllocateLock
<1>6. ASSUME NEW r \in Run, Probe(r) PROVE HoldIsPreserve'
  BY <1>6 DEF Probe
<1>7. ASSUME NEW r \in Run, Exhausted(r) PROVE HoldIsPreserve'
  BY <1>7 DEF Exhausted
<1>8. ASSUME NEW r \in Run, HoldLock(r) PROVE HoldIsPreserve'
  BY <1>8 DEF HoldLock
<1>9. ASSUME NEW r \in Run, HoldCheck(r) PROVE HoldIsPreserve'
  BY <1>9 DEF HoldCheck
<1>10. ASSUME NEW r \in Run, WriteLease(r) PROVE HoldIsPreserve'
  BY <1>10 DEF WriteLease
<1>11. ASSUME NEW r \in Run, WriteFails(r) PROVE HoldIsPreserve'
  BY <1>11 DEF WriteFails
<1>12. ASSUME NEW r \in Run, Build(r) \/ Announces(r) \/ FallsSilent(r) PROVE HoldIsPreserve'
  BY <1>12 DEF Build, Announces, FallsSilent, net
<1>13. ASSUME NEW r \in Run, GoDown(r) PROVE HoldIsPreserve'
  BY <1>13 DEF GoDown
<1>14. ASSUME NEW r \in Run, BeginRelease(r) PROVE HoldIsPreserve'
  BY <1>14 DEF BeginRelease
<1>15. ASSUME NEW r \in Run, ReleaseLock(r) PROVE HoldIsPreserve'
  BY <1>15 DEF ReleaseLock
<1>16. ASSUME NEW r \in Run, Release(r) PROVE HoldIsPreserve'
  BY <1>16 DEF Release
<1>17. ASSUME NEW r \in Run, ReleaseFails(r) PROVE HoldIsPreserve'
  BY <1>17 DEF ReleaseFails
<1>18. ASSUME NEW r \in Run, Crash(r) PROVE HoldIsPreserve'
  BY <1>18 DEF Crash
<1>19. ASSUME NEW r \in Run, Restart(r) PROVE HoldIsPreserve'
  BY <1>19 DEF Restart
<1>20. QED
  BY <1>1, <1>2, <1>3, <1>4, <1>5, <1>6, <1>7, <1>8, <1>9, <1>10, <1>11, <1>12, <1>13, <1>14, <1>15, <1>16, <1>17, <1>18, <1>19 DEF Next, RunStep, Locking

-----------------------------------------------------------------------------
(* The lease file and the runs agree.                                       *)

\* The names of different runs never coincide.
LEMMA OwnersDiffer ==
  ASSUME TypeOK, NEW r \in Run, NEW s \in Run, r # s
  PROVE  LeaseOwner(r) # LeaseOwner(s) /\ LeaseOwner(r) # ClusterName(s) /\ LeaseOwner(r) # ClaimName[s]
BY NamesDistinctAssumption DEF NamesDistinct, LeaseOwner, ClusterName

\* A lease a run counts on stays in the file: it is written by WriteLease, nobody
\* else may overwrite or release it, and file and run grow old together.
LEMMA FileStep ==
  ASSUME TypeOK, LockSerialises, GotWhileRunning, WantIsUnowned, FileBacksRuns, [Next]_vars
  PROVE  FileBacksRuns'
<1> USE TTLAssumption DEF TypeOK, FileBacksRuns, GotWhileRunning, Fresh, LeaseOwner, Acquire, Drop, Unlock, Goto, Forget, Wipe, runVars, fileVars, net
<1>1. CASE UNCHANGED vars
  BY <1>1 DEF vars
<1>2. CASE Tick
  <2>1. SUFFICES ASSUME ~wiped', NEW s \in Run, Fresh(s)', NEW a \in got'[s]
                PROVE  holder'[a] = LeaseOwner(s)' /\ age'[a] <= gotAge'[s]
    BY DEF FileBacksRuns
  <2>2. gotAge'[s] = gotAge[s] + 1 /\ Fresh(s) /\ a \in got[s] /\ a \in Addr /\ ~wiped
    BY <1>2, <2>1 DEF Tick
  <2>3. holder[a] = LeaseOwner(s) /\ age[a] <= gotAge[s]
    BY <2>2 DEF FileBacksRuns
  <2>4. ~Expires(a) /\ holder[a] # None
    BY <2>1, <2>2, <2>3, NamesAreOwners DEF Expires
  <2>5. QED
    BY <1>2, <2>2, <2>3, <2>4 DEF Tick
<1>3. ASSUME NEW r \in Run, NEW m \in {"create", "claim"}, BeginAllocate(r, Fixed, m)
      PROVE  FileBacksRuns'
  BY <1>3 DEF BeginAllocate
<1>4. ASSUME NEW r \in Run, BeginHold(r, Fixed) PROVE FileBacksRuns'
  BY <1>4 DEF BeginHold
<1>5. ASSUME NEW r \in Run, AllocateLock(r) PROVE FileBacksRuns'
  BY <1>5 DEF AllocateLock
<1>6. ASSUME NEW r \in Run, Probe(r) PROVE FileBacksRuns'
  BY <1>6 DEF Probe
<1>7. ASSUME NEW r \in Run, Exhausted(r) PROVE FileBacksRuns'
  BY <1>7 DEF Exhausted
<1>8. ASSUME NEW r \in Run, HoldLock(r) PROVE FileBacksRuns'
  BY <1>8 DEF HoldLock
<1>9. ASSUME NEW r \in Run, HoldCheck(r) PROVE FileBacksRuns'
  BY <1>9 DEF HoldCheck
<1>10. ASSUME NEW r \in Run, WriteLease(r) PROVE FileBacksRuns'
  <2>1. SUFFICES ASSUME ~wiped', NEW s \in Run, Fresh(s)', NEW a \in got'[s]
                PROVE  holder'[a] = LeaseOwner(s)' /\ age'[a] <= gotAge'[s]
    BY DEF FileBacksRuns
  <2>2. CASE s = r
    BY <1>10, <2>1, <2>2 DEF WriteLease
  <2>3. CASE s # r
    <3>1. Fresh(s) /\ a \in got[s] /\ a \in Addr /\ ~wiped
      BY <1>10, <2>1, <2>3 DEF WriteLease
    <3>2. a \notin want[r]
      BY <1>10, <2>3, <3>1 DEF WriteLease, WantIsUnowned
    <3>3. holder[a] = LeaseOwner(s) /\ age[a] <= gotAge[s]
      BY <3>1 DEF FileBacksRuns
    <3>4. QED
      BY <1>10, <2>3, <3>1, <3>2, <3>3 DEF WriteLease
  <2>4. QED
    BY <2>2, <2>3
<1>11. ASSUME NEW r \in Run, WriteFails(r) PROVE FileBacksRuns'
  BY <1>11 DEF WriteFails
<1>12. ASSUME NEW r \in Run, Build(r) \/ Announces(r) \/ FallsSilent(r) PROVE FileBacksRuns'
  BY <1>12 DEF Build, Announces, FallsSilent, net
<1>13. ASSUME NEW r \in Run, GoDown(r) PROVE FileBacksRuns'
  BY <1>13 DEF GoDown
<1>14. ASSUME NEW r \in Run, BeginRelease(r) PROVE FileBacksRuns'
  BY <1>14 DEF BeginRelease
<1>15. ASSUME NEW r \in Run, ReleaseLock(r) PROVE FileBacksRuns'
  BY <1>15 DEF ReleaseLock
<1>16. ASSUME NEW r \in Run, Release(r) PROVE FileBacksRuns'
  <2>1. SUFFICES ASSUME ~wiped', NEW s \in Run, Fresh(s)', NEW a \in got'[s]
                PROVE  holder'[a] = LeaseOwner(s)' /\ age'[a] <= gotAge'[s]
    BY DEF FileBacksRuns
  <2>2. s # r /\ Fresh(s) /\ a \in got[s] /\ a \in Addr /\ ~wiped
    BY <1>16, <2>1 DEF Release
  <2>3. holder[a] = LeaseOwner(s) /\ age[a] <= gotAge[s]
    BY <2>2 DEF FileBacksRuns
  <2>4. holder[a] # ClusterName(r) /\ holder[a] # None
    BY <2>2, <2>3, OwnersDiffer, NamesAreOwners
  <2>5. QED
    BY <1>16, <2>2, <2>3, <2>4 DEF Release
<1>17. ASSUME NEW r \in Run, ReleaseFails(r) PROVE FileBacksRuns'
  BY <1>17 DEF ReleaseFails
<1>18. ASSUME NEW r \in Run, Crash(r) PROVE FileBacksRuns'
  BY <1>18 DEF Crash
<1>19. ASSUME NEW r \in Run, Restart(r) PROVE FileBacksRuns'
  BY <1>19 DEF Restart
<1>20. QED
  BY <1>1, <1>2, <1>3, <1>4, <1>5, <1>6, <1>7, <1>8, <1>9, <1>10, <1>11, <1>12, <1>13, <1>14, <1>15, <1>16, <1>17, <1>18, <1>19 DEF Next, RunStep, Locking

\* What a run chose inside the lock nobody leases before the run writes it, because
\* every writer of the file needs the lock.
LEMMA UnleasedStep ==
  ASSUME TypeOK, LockSerialises, HoldIsPreserve, WantIsUnleased, [Next]_vars
  PROVE  WantIsUnleased'
<1> USE DEF TypeOK, LockSerialises, Critical, WantIsUnleased, LeaseOwner, Acquire, Drop, Unlock, Goto, Forget, Wipe, runVars, fileVars, net
<1>1. CASE UNCHANGED vars
  BY <1>1 DEF vars
<1>2. CASE Tick
  BY <1>2 DEF Tick
<1>3. ASSUME NEW r \in Run, NEW m \in {"create", "claim"}, BeginAllocate(r, Fixed, m)
      PROVE  WantIsUnleased'
  BY <1>3 DEF BeginAllocate
<1>4. ASSUME NEW r \in Run, BeginHold(r, Fixed) PROVE WantIsUnleased'
  BY <1>4 DEF BeginHold
<1>5. ASSUME NEW r \in Run, AllocateLock(r) PROVE WantIsUnleased'
  BY <1>5 DEF AllocateLock
<1>6. ASSUME NEW r \in Run, Probe(r) PROVE WantIsUnleased'
  <2>1. \A a \in want'[r] : holder[a] = None
    BY <1>6 DEF Probe, Candidates, Leased
  <2>2. QED
    BY <1>6, <2>1 DEF Probe
<1>7. ASSUME NEW r \in Run, Exhausted(r) PROVE WantIsUnleased'
  BY <1>7 DEF Exhausted
<1>8. ASSUME NEW r \in Run, HoldLock(r) PROVE WantIsUnleased'
  BY <1>8 DEF HoldLock
<1>9. ASSUME NEW r \in Run, HoldCheck(r) PROVE WantIsUnleased'
  <2>1. CASE Taken(r)
    BY <1>9, <2>1 DEF HoldCheck
  <2>2. CASE ~Taken(r)
    <3>1. mode[r] = "preserve" /\ \A a \in want[r] : holder[a] \in {None, ClaimName[r]}
      BY <1>9, <2>2 DEF HoldCheck, Taken, Leased, HoldIsPreserve
    <3>2. QED
      BY <1>9, <2>2, <3>1 DEF HoldCheck
  <2>3. QED
    BY <2>1, <2>2
<1>10. ASSUME NEW r \in Run, WriteLease(r) PROVE WantIsUnleased'
  BY <1>10 DEF WriteLease
<1>11. ASSUME NEW r \in Run, WriteFails(r) PROVE WantIsUnleased'
  BY <1>11 DEF WriteFails
<1>12. ASSUME NEW r \in Run, Build(r) \/ Announces(r) \/ FallsSilent(r) PROVE WantIsUnleased'
  BY <1>12 DEF Build, Announces, FallsSilent, net
<1>13. ASSUME NEW r \in Run, GoDown(r) PROVE WantIsUnleased'
  BY <1>13 DEF GoDown
<1>14. ASSUME NEW r \in Run, BeginRelease(r) PROVE WantIsUnleased'
  BY <1>14 DEF BeginRelease
<1>15. ASSUME NEW r \in Run, ReleaseLock(r) PROVE WantIsUnleased'
  BY <1>15 DEF ReleaseLock
<1>16. ASSUME NEW r \in Run, Release(r) PROVE WantIsUnleased'
  BY <1>16 DEF Release
<1>17. ASSUME NEW r \in Run, ReleaseFails(r) PROVE WantIsUnleased'
  BY <1>17 DEF ReleaseFails
<1>18. ASSUME NEW r \in Run, Crash(r) PROVE WantIsUnleased'
  BY <1>18 DEF Crash
<1>19. ASSUME NEW r \in Run, Restart(r) PROVE WantIsUnleased'
  BY <1>19 DEF Restart
<1>20. QED
  BY <1>1, <1>2, <1>3, <1>4, <1>5, <1>6, <1>7, <1>8, <1>9, <1>10, <1>11, <1>12, <1>13, <1>14, <1>15, <1>16, <1>17, <1>18, <1>19 DEF Next, RunStep, Locking

\* A candidate of allocate, or an address hold accepts, is owned by no run whose
\* lease is young, for such a lease would be in the file.
LEMMA UnownedStep ==
  ASSUME TypeOK, LockSerialises, GotWhileRunning, FileBacksRuns, WantIsUnowned, [Next]_vars
  PROVE  WantIsUnowned'
<1> USE DEF TypeOK, LockSerialises, Critical, WantIsUnowned, Fresh, Acquire, Drop, Unlock, Goto, Forget, Wipe, runVars, fileVars, net
<1>1. CASE UNCHANGED vars
  BY <1>1 DEF vars
<1>2. CASE Tick
  <2>1. SUFFICES ASSUME ~wiped', NEW r \in Run, NEW s \in Run,
                        pc'[r] = "leasing", r # s, Fresh(s)'
                PROVE  want'[r] \cap got'[s] = {}
    BY DEF WantIsUnowned
  <2>2. got[s] = {} \/ Fresh(s)
    BY <1>2, <2>1, TTLAssumption DEF Tick
  <2>3. QED
    BY <1>2, <2>1, <2>2 DEF Tick
<1>3. ASSUME NEW r \in Run, NEW m \in {"create", "claim"}, BeginAllocate(r, Fixed, m)
      PROVE  WantIsUnowned'
  BY <1>3 DEF BeginAllocate
<1>4. ASSUME NEW r \in Run, BeginHold(r, Fixed) PROVE WantIsUnowned'
  BY <1>4 DEF BeginHold
<1>5. ASSUME NEW r \in Run, AllocateLock(r) PROVE WantIsUnowned'
  BY <1>5 DEF AllocateLock
<1>6. ASSUME NEW r \in Run, Probe(r) PROVE WantIsUnowned'
  <2>1. \A a \in want'[r] : holder[a] = None
    BY <1>6 DEF Probe, Candidates, Leased
  <2>2. ~wiped => \A s \in Run : Fresh(s) => \A a \in got[s] : holder[a] # None
    BY NamesAreOwners DEF FileBacksRuns
  <2>3. QED
    BY <1>6, <2>1, <2>2 DEF Probe
<1>7. ASSUME NEW r \in Run, Exhausted(r) PROVE WantIsUnowned'
  BY <1>7 DEF Exhausted
<1>8. ASSUME NEW r \in Run, HoldLock(r) PROVE WantIsUnowned'
  BY <1>8 DEF HoldLock
<1>9. ASSUME NEW r \in Run, HoldCheck(r) PROVE WantIsUnowned'
  <2>1. CASE Taken(r)
    BY <1>9, <2>1 DEF HoldCheck
  <2>2. CASE ~Taken(r)
    <3>1. \A a \in want[r] : holder[a] \in {None, ClaimName[r]}
      BY <2>2 DEF Taken, Leased
    <3>2. ~wiped => \A s \in Run : r # s /\ Fresh(s) =>
                       \A a \in got[s] : holder[a] \notin {None, ClaimName[r]}
      BY <1>9, NamesAreOwners, OwnersDiffer DEF FileBacksRuns
    <3>3. QED
      BY <1>9, <2>2, <3>1, <3>2 DEF HoldCheck
  <2>3. QED
    BY <2>1, <2>2
<1>10. ASSUME NEW r \in Run, WriteLease(r) PROVE WantIsUnowned'
  BY <1>10 DEF WriteLease
<1>11. ASSUME NEW r \in Run, WriteFails(r) PROVE WantIsUnowned'
  BY <1>11 DEF WriteFails
<1>12. ASSUME NEW r \in Run, Build(r) \/ Announces(r) \/ FallsSilent(r) PROVE WantIsUnowned'
  BY <1>12 DEF Build, Announces, FallsSilent, net
<1>13. ASSUME NEW r \in Run, GoDown(r) PROVE WantIsUnowned'
  BY <1>13 DEF GoDown
<1>14. ASSUME NEW r \in Run, BeginRelease(r) PROVE WantIsUnowned'
  BY <1>14 DEF BeginRelease
<1>15. ASSUME NEW r \in Run, ReleaseLock(r) PROVE WantIsUnowned'
  BY <1>15 DEF ReleaseLock
<1>16. ASSUME NEW r \in Run, Release(r) PROVE WantIsUnowned'
  BY <1>16 DEF Release
<1>17. ASSUME NEW r \in Run, ReleaseFails(r) PROVE WantIsUnowned'
  BY <1>17 DEF ReleaseFails
<1>18. ASSUME NEW r \in Run, Crash(r) PROVE WantIsUnowned'
  BY <1>18 DEF Crash
<1>19. ASSUME NEW r \in Run, Restart(r) PROVE WantIsUnowned'
  BY <1>19 DEF Restart
<1>20. QED
  BY <1>1, <1>2, <1>3, <1>4, <1>5, <1>6, <1>7, <1>8, <1>9, <1>10, <1>11, <1>12, <1>13, <1>14, <1>15, <1>16, <1>17, <1>18, <1>19 DEF Next, RunStep, Locking

\* The file cannot name two owners of one address.
LEMMA Exclusive == TypeOK /\ FileBacksRuns => LeaseExclusive
BY OwnersDiffer DEF FileBacksRuns, LeaseExclusive, TypeOK

\* Taking VMs away, building them anew or losing a speaker makes nobody announce more.
LEMMA Quieter ==
  ASSUME TypeOK, NEW r \in Run, Build(r) \/ FallsSilent(r) \/ GoDown(r)
  PROVE  /\ \A s \in Run : wire'[s] \ late'[s] \subseteq wire[s] \ late[s] /\ wire'[s] \subseteq wire[s]
         /\ UNCHANGED <<lock, fileVars, pc, runVars>>
<1>1. CASE Build(r)
  BY <1>1 DEF Build, TypeOK
<1>2. CASE FallsSilent(r)
  BY <1>2 DEF FallsSilent, TypeOK
<1>3. CASE GoDown(r)
  BY <1>3 DEF GoDown, TypeOK
<1>4. QED
  BY <1>1, <1>2, <1>3

\* A cluster that comes up does so under a lease of its run, or late.
LEMMA ComesUp ==
  ASSUME TypeOK, NEW r \in Run, Announces(r)
  PROVE  /\ \A s \in Run, a \in Addr :
              a \in wire'[s] \ late'[s] => a \in wire[s] \ late[s] \/ (s = r /\ LeasedTo(r, a))
         /\ \A s \in Run : late[s] \subseteq late'[s] /\ wire'[s] \subseteq Addr
         /\ \A s \in Run, a \in Addr :
              a \in wire'[s] => a \in wire[s] \/ (s = r /\ (LeasedTo(r, a) \/ a \in late'[r]))
         /\ UNCHANGED <<lock, fileVars, pc, runVars>>
<1>1. PICK b \in built[r] \ wire[r] :
        /\ wire' = [wire EXCEPT ![r] = @ \cup {b}]
        /\ late' = IF LeasedTo(r, b) THEN late ELSE [late EXCEPT ![r] = @ \cup {b}]
        /\ UNCHANGED <<lock, fileVars, pc, runVars, built>>
  BY DEF Announces
<1>2. QED
  BY <1>1 DEF TypeOK

\* What did not answer the probe, nobody announces under a lease before the run has written
\* its own: the lock keeps every other lease away.
LEMMA WantSilentStep ==
  ASSUME TypeOK, LockSerialises, HoldIsPreserve, WantIsUnleased, WantIsSilent, [Next]_vars
  PROVE  WantIsSilent'
<1> USE DEF TypeOK, LockSerialises, Critical, WantIsSilent, Quiet, HoldIsPreserve, Acquire, Drop, Unlock, Goto, Forget, Wipe, runVars, fileVars, net
<1>1. CASE UNCHANGED vars
  BY <1>1 DEF vars
<1>2. CASE Tick
  BY <1>2 DEF Tick
<1>3. ASSUME NEW r \in Run, NEW m \in {"create", "claim"}, BeginAllocate(r, Fixed, m)
      PROVE  WantIsSilent'
  BY <1>3 DEF BeginAllocate
<1>4. ASSUME NEW r \in Run, BeginHold(r, Fixed) PROVE WantIsSilent'
  BY <1>4 DEF BeginHold
<1>5. ASSUME NEW r \in Run, AllocateLock(r) PROVE WantIsSilent'
  BY <1>5 DEF AllocateLock
<1>6. ASSUME NEW r \in Run, Probe(r) PROVE WantIsSilent'
  <2>1. \A s \in Run : want'[r] \cap wire[s] \subseteq Silent
    BY <1>6 DEF Probe, Answers
  <2>2. QED
    BY <1>6, <2>1 DEF Probe
<1>7. ASSUME NEW r \in Run, Exhausted(r) PROVE WantIsSilent'
  BY <1>7 DEF Exhausted
<1>8. ASSUME NEW r \in Run, HoldLock(r) PROVE WantIsSilent'
  BY <1>8 DEF HoldLock
<1>9. ASSUME NEW r \in Run, HoldCheck(r) PROVE WantIsSilent'
  BY <1>9 DEF HoldCheck
<1>10. ASSUME NEW r \in Run, WriteLease(r) PROVE WantIsSilent'
  BY <1>10 DEF WriteLease
<1>11. ASSUME NEW r \in Run, WriteFails(r) PROVE WantIsSilent'
  BY <1>11 DEF WriteFails
<1>12. ASSUME NEW r \in Run, Build(r) \/ FallsSilent(r) \/ GoDown(r) PROVE WantIsSilent'
  BY <1>12, Quieter
<1>13. ASSUME NEW r \in Run, Announces(r) PROVE WantIsSilent'
  <2>1. SUFFICES ASSUME ~wiped, NEW q \in Run, pc[q] = "leasing", NEW a \in want[q],
                        a \in Addr \ (Fixed \cup Silent), NEW s \in Run \ {q}, a \in wire'[s] \ late'[s]
                 PROVE  FALSE
    BY <1>13, ComesUp DEF WantIsSilent, Quiet
  <2>2. a \notin wire[s] \ late[s]
    BY <2>1
  <2>3. s = r /\ LeasedTo(s, a)
    BY <1>13, <2>1, <2>2, ComesUp
  <2>4. holder[a] \in {None, LeaseOwner(q)}
    BY <2>1 DEF WantIsUnleased
  <2>5. holder[a] \in Owner /\ holder[a] # None
    BY <2>1, <2>3, NamesAssumption DEF LeasedTo
  <2>6. holder[a] \in {PoolName[q], ClaimName[q]} /\ holder[a] \in {PoolName[s], ClaimName[s]}
    BY <2>3, <2>4, <2>5 DEF LeasedTo, LeaseOwner
  <2>7. QED
    BY <2>1, <2>6, NamesDistinctAssumption DEF NamesDistinct
<1>14. ASSUME NEW r \in Run, BeginRelease(r) PROVE WantIsSilent'
  BY <1>14 DEF BeginRelease
<1>15. ASSUME NEW r \in Run, ReleaseLock(r) PROVE WantIsSilent'
  BY <1>15 DEF ReleaseLock
<1>16. ASSUME NEW r \in Run, Release(r) PROVE WantIsSilent'
  BY <1>16 DEF Release
<1>17. ASSUME NEW r \in Run, ReleaseFails(r) PROVE WantIsSilent'
  BY <1>17 DEF ReleaseFails
<1>18. ASSUME NEW r \in Run, Crash(r) PROVE WantIsSilent'
  BY <1>18 DEF Crash
<1>19. ASSUME NEW r \in Run, Restart(r) PROVE WantIsSilent'
  BY <1>19 DEF Restart
<1>20. QED
  BY <1>1, <1>2, <1>3, <1>4, <1>5, <1>6, <1>7, <1>8, <1>9, <1>10, <1>11, <1>12, <1>13, <1>14, <1>15, <1>16, <1>17, <1>18, <1>19 DEF Next, RunStep, Locking

\* A lease is written for what was silent, and nobody else comes up under it.
LEMMA LeaseSilentStep ==
  ASSUME TypeOK, WantIsSilent, LeaseIsSilent, [Next]_vars
  PROVE  LeaseIsSilent'
<1> USE NamesAssumption DEF TypeOK, LeaseIsSilent, Quiet, LeasedTo, Acquire, Drop, Unlock, Goto, Forget, Wipe, runVars, fileVars, net
<1>1. CASE UNCHANGED vars
  BY <1>1 DEF vars
<1>2. CASE Tick
  BY <1>2 DEF Tick
<1>3. ASSUME NEW r \in Run, NEW m \in {"create", "claim"}, BeginAllocate(r, Fixed, m)
      PROVE  LeaseIsSilent'
  BY <1>3 DEF BeginAllocate
<1>4. ASSUME NEW r \in Run, BeginHold(r, Fixed) PROVE LeaseIsSilent'
  BY <1>4 DEF BeginHold
<1>5. ASSUME NEW r \in Run, AllocateLock(r) PROVE LeaseIsSilent'
  BY <1>5 DEF AllocateLock
<1>6. ASSUME NEW r \in Run, Probe(r) PROVE LeaseIsSilent'
  BY <1>6 DEF Probe
<1>7. ASSUME NEW r \in Run, Exhausted(r) PROVE LeaseIsSilent'
  BY <1>7 DEF Exhausted
<1>8. ASSUME NEW r \in Run, HoldLock(r) PROVE LeaseIsSilent'
  BY <1>8 DEF HoldLock
<1>9. ASSUME NEW r \in Run, HoldCheck(r) PROVE LeaseIsSilent'
  BY <1>9 DEF HoldCheck
<1>10. ASSUME NEW r \in Run, WriteLease(r) PROVE LeaseIsSilent'
  <2>1. SUFFICES ASSUME ~wiped, NEW q \in Run, NEW a \in Addr, LeasedTo(q, a)' PROVE Quiet(q, a)
    BY <1>10 DEF WriteLease
  <2>2. CASE a \in want[r]
    <3>1. holder'[a] = LeaseOwner(r)
      BY <1>10, <2>2 DEF WriteLease
    <3>2. q = r
      BY <2>1, <3>1, NamesDistinctAssumption DEF NamesDistinct, LeaseOwner
    <3>3. QED
      BY <1>10, <2>1, <2>2, <3>2 DEF WriteLease, WantIsSilent
  <2>3. CASE a \notin want[r]
    BY <1>10, <2>1, <2>3 DEF WriteLease
  <2>4. QED
    BY <2>2, <2>3
<1>11. ASSUME NEW r \in Run, WriteFails(r) PROVE LeaseIsSilent'
  BY <1>11 DEF WriteFails
<1>12. ASSUME NEW r \in Run, Build(r) \/ FallsSilent(r) \/ GoDown(r) PROVE LeaseIsSilent'
  BY <1>12, Quieter
<1>13. ASSUME NEW r \in Run, Announces(r) PROVE LeaseIsSilent'
  <2>1. SUFFICES ASSUME ~wiped, NEW q \in Run, NEW a \in Addr \ (Fixed \cup Silent), LeasedTo(q, a),
                        NEW s \in Run \ {q}, a \in wire'[s] \ late'[s]
                 PROVE  FALSE
    BY <1>13, ComesUp
  <2>2. s = r /\ LeasedTo(s, a)
    BY <1>13, <2>1, ComesUp
  <2>3. QED
    BY <2>1, <2>2, NamesDistinctAssumption DEF NamesDistinct
<1>14. ASSUME NEW r \in Run, BeginRelease(r) PROVE LeaseIsSilent'
  BY <1>14 DEF BeginRelease
<1>15. ASSUME NEW r \in Run, ReleaseLock(r) PROVE LeaseIsSilent'
  BY <1>15 DEF ReleaseLock
<1>16. ASSUME NEW r \in Run, Release(r) PROVE LeaseIsSilent'
  BY <1>16 DEF Release
<1>17. ASSUME NEW r \in Run, ReleaseFails(r) PROVE LeaseIsSilent'
  BY <1>17 DEF ReleaseFails
<1>18. ASSUME NEW r \in Run, Crash(r) PROVE LeaseIsSilent'
  BY <1>18 DEF Crash
<1>19. ASSUME NEW r \in Run, Restart(r) PROVE LeaseIsSilent'
  BY <1>19 DEF Restart
<1>20. QED
  BY <1>1, <1>2, <1>3, <1>4, <1>5, <1>6, <1>7, <1>8, <1>9, <1>10, <1>11, <1>12, <1>13, <1>14, <1>15, <1>16, <1>17, <1>18, <1>19 DEF Next, RunStep, Locking

\* Who comes up under a lease finds nobody there but who came up late.
LEMMA PoolWireStep ==
  ASSUME TypeOK, LeaseIsSilent, PoolWireExclusive, [Next]_vars
  PROVE  PoolWireExclusive'
<1> USE DEF TypeOK, PoolWireExclusive, Acquire, Drop, Unlock, Goto, Forget, Wipe, runVars, fileVars, net
<1>1. CASE UNCHANGED vars
  BY <1>1 DEF vars
<1>2. CASE Tick
  BY <1>2 DEF Tick
<1>3. ASSUME NEW r \in Run, NEW m \in {"create", "claim"}, BeginAllocate(r, Fixed, m)
      PROVE  PoolWireExclusive'
  BY <1>3 DEF BeginAllocate
<1>4. ASSUME NEW r \in Run, BeginHold(r, Fixed) PROVE PoolWireExclusive'
  BY <1>4 DEF BeginHold
<1>5. ASSUME NEW r \in Run, AllocateLock(r) PROVE PoolWireExclusive'
  BY <1>5 DEF AllocateLock
<1>6. ASSUME NEW r \in Run, Probe(r) PROVE PoolWireExclusive'
  BY <1>6 DEF Probe
<1>7. ASSUME NEW r \in Run, Exhausted(r) PROVE PoolWireExclusive'
  BY <1>7 DEF Exhausted
<1>8. ASSUME NEW r \in Run, HoldLock(r) PROVE PoolWireExclusive'
  BY <1>8 DEF HoldLock
<1>9. ASSUME NEW r \in Run, HoldCheck(r) PROVE PoolWireExclusive'
  BY <1>9 DEF HoldCheck
<1>10. ASSUME NEW r \in Run, WriteLease(r) PROVE PoolWireExclusive'
  BY <1>10 DEF WriteLease
<1>11. ASSUME NEW r \in Run, WriteFails(r) PROVE PoolWireExclusive'
  BY <1>11 DEF WriteFails
<1>12. ASSUME NEW r \in Run, Build(r) \/ FallsSilent(r) \/ GoDown(r) PROVE PoolWireExclusive'
  <2>1. SUFFICES ASSUME ~wiped, NEW q \in Run, NEW s \in Run, q # s, NEW a \in wire'[q] \cap wire'[s]
                 PROVE  a \in Fixed \cup Silent \cup late'[q] \cup late'[s]
    BY <1>12, Quieter
  <2>2. a \in wire[q] \cap wire[s] /\ (a \in late[q] => a \in late'[q]) /\ (a \in late[s] => a \in late'[s])
    BY <1>12, <2>1, Quieter
  <2>3. QED
    BY <2>1, <2>2
<1>13. ASSUME NEW r \in Run, Announces(r) PROVE PoolWireExclusive'
  <2>1. SUFFICES ASSUME ~wiped, NEW q \in Run, NEW s \in Run, q # s, NEW a \in wire'[q] \cap wire'[s],
                        a \notin Fixed \cup Silent, a \in Addr
                 PROVE  a \in late'[q] \cup late'[s]
    BY <1>13, ComesUp
  <2>2. \A t \in Run \ {r} : LeasedTo(r, a) => a \notin wire[t] \ late[t]
    BY <2>1 DEF LeaseIsSilent, Quiet
  <2>3. CASE q = r
    <3>1. a \in wire[s] /\ (a \in late[s] => a \in late'[s])
      BY <1>13, <2>1, <2>3, ComesUp
    <3>2. a \in wire[q] \/ LeasedTo(r, a) \/ a \in late'[q]
      BY <1>13, <2>1, <2>3, ComesUp
    <3>3. a \in wire[q] => a \in late[q] \cup late[s]
      BY <2>1, <3>1
    <3>4. late[q] \subseteq late'[q]
      BY <1>13, ComesUp
    <3>5. QED
      BY <2>1, <2>2, <2>3, <3>1, <3>2, <3>3, <3>4
  <2>4. CASE s = r
    <3>1. a \in wire[q] /\ (a \in late[q] => a \in late'[q])
      BY <1>13, <2>1, <2>4, ComesUp
    <3>2. a \in wire[s] \/ LeasedTo(r, a) \/ a \in late'[s]
      BY <1>13, <2>1, <2>4, ComesUp
    <3>3. a \in wire[s] => a \in late[q] \cup late[s]
      BY <2>1, <3>1
    <3>4. late[s] \subseteq late'[s]
      BY <1>13, ComesUp
    <3>5. QED
      BY <2>1, <2>2, <2>4, <3>1, <3>2, <3>3, <3>4
  <2>5. CASE q # r /\ s # r
    <3>1. a \in wire[q] \cap wire[s] /\ late[q] \subseteq late'[q] /\ late[s] \subseteq late'[s]
      BY <1>13, <2>1, <2>5, ComesUp
    <3>2. QED
      BY <2>1, <3>1
  <2>6. QED
    BY <2>3, <2>4, <2>5
<1>14. ASSUME NEW r \in Run, BeginRelease(r) PROVE PoolWireExclusive'
  BY <1>14 DEF BeginRelease
<1>15. ASSUME NEW r \in Run, ReleaseLock(r) PROVE PoolWireExclusive'
  BY <1>15 DEF ReleaseLock
<1>16. ASSUME NEW r \in Run, Release(r) PROVE PoolWireExclusive'
  BY <1>16 DEF Release
<1>17. ASSUME NEW r \in Run, ReleaseFails(r) PROVE PoolWireExclusive'
  BY <1>17 DEF ReleaseFails
<1>18. ASSUME NEW r \in Run, Crash(r) PROVE PoolWireExclusive'
  BY <1>18 DEF Crash
<1>19. ASSUME NEW r \in Run, Restart(r) PROVE PoolWireExclusive'
  BY <1>19 DEF Restart
<1>20. QED
  BY <1>1, <1>2, <1>3, <1>4, <1>5, <1>6, <1>7, <1>8, <1>9, <1>10, <1>11, <1>12, <1>13, <1>14, <1>15, <1>16, <1>17, <1>18, <1>19 DEF Next, RunStep, Locking

-----------------------------------------------------------------------------
(* The theorems.                                                            *)

\* The inductive invariant holds before any run has started.
LEMMA InitIInv == Init => IInv
<1> SUFFICES ASSUME Init PROVE IInv
  OBVIOUS
<1>1. TypeOK
  BY TypeInit
<1>2. LockSerialises
  BY NamesAssumption DEF Init, LockSerialises, Critical
<1>3. GotWhileRunning /\ FileBacksRuns /\ WantIsUnleased /\ WantIsUnowned /\ HoldIsPreserve
  BY DEF Init, GotWhileRunning, FileBacksRuns, WantIsUnleased, WantIsUnowned, HoldIsPreserve
<1>4. WantIsSilent /\ LeaseIsSilent /\ PoolWireExclusive
  BY DEF Init, WantIsSilent, LeaseIsSilent, Quiet, PoolWireExclusive
<1>5. QED
  BY <1>1, <1>2, <1>3, <1>4 DEF IInv

\* Every step keeps the inductive invariant, one lemma for each of its parts.
LEMMA StepIInv == IInv /\ [Next]_vars => IInv'
BY TypeStep, LockStep, GotStep, HoldStep, FileStep, UnleasedStep, UnownedStep,
   WantSilentStep, LeaseSilentStep, PoolWireStep DEF IInv

\* Lease file, flock, what the runs remember and what their clusters announce agree
\* in every reachable state of netpool.py and its callers, for any number of runs.
THEOREM InductiveInvariant == Spec => []IInv
<1>1. Init => IInv
  BY InitIInv
<1>2. IInv /\ [Next]_vars => IInv'
  BY StepIInv
<1>3. QED
  BY <1>1, <1>2, PTL DEF Spec

\* Every variable keeps its type: what the lease file and the runs of
\* netpool.py can contain.
THEOREM TypeCorrect == Spec => []TypeOK
<1>1. IInv => TypeOK
  BY DEF IInv
<1>2. QED
  BY <1>1, InductiveInvariant, PTL

\* The critical sections of allocate, hold and release exclude each other, for
\* any number of runs (_FileLock).
THEOREM LockSerialisesAlways == Spec => []LockSerialises
<1>1. IInv => LockSerialises
  BY DEF IInv
<1>2. QED
  BY <1>1, InductiveInvariant, PTL

\* Two runs that count on their leases never own a common address, for any
\* number of runs, pool and TTL (allocate and hold).
THEOREM LeaseExclusiveAlways == Spec => []LeaseExclusive
<1>1. IInv => LeaseExclusive
  BY Exclusive DEF IInv
<1>2. QED
  BY <1>1, InductiveInvariant, PTL

\* Clusters of different runs announce the same pool address only if one came up without a
\* lease: finish_cluster's early release and expiry take none from a cluster that is up
\* (allocate's probe).
THEOREM PoolWireExclusiveAlways == Spec => []PoolWireExclusive
<1>1. IInv => PoolWireExclusive
  BY DEF IInv
<1>2. QED
  BY <1>1, InductiveInvariant, PTL

\* One step never ends a young lease but by its owner's release or its expiry,
\* unless the write of the file is torn.
LEMMA NoTheft ==
  ASSUME IInv, [Next]_vars, NEW a \in Addr
  PROVE  ~LeaseStolen(a)
<1> USE DEF IInv, TypeOK, Wipe, fileVars
<1>1. SUFFICES ASSUME holder'[a] # holder[a], holder[a] # None, ~wiped'
               PROVE  \/ Expires(a) /\ holder'[a] = None
                      \/ \E r \in Run : pc[r] = "dropping" /\ ClusterName(r) = holder[a]
  BY DEF LeaseStolen, Leased
<1>2. CASE UNCHANGED vars
  BY <1>1, <1>2 DEF vars
<1>3. CASE Tick
  BY <1>1, <1>3 DEF Tick
<1>4. ASSUME NEW r \in Run, RunStep(r)
      PROVE  \E q \in Run : pc[q] = "dropping" /\ ClusterName(q) = holder[a]
  <2>1. CASE WriteLease(r)
    BY <1>1, <2>1 DEF WriteLease, WantIsUnleased
  <2>2. CASE Release(r)
    BY <1>1, <2>2 DEF Release
  <2>3. CASE WriteFails(r) \/ ReleaseFails(r) \/ Crash(r)
    BY <1>1, <2>3 DEF WriteFails, ReleaseFails, Crash
  <2>4. CASE AllocateLock(r) \/ Probe(r) \/ Exhausted(r) \/ HoldLock(r) \/ HoldCheck(r)
    BY <1>1, <2>4 DEF AllocateLock, Probe, Exhausted, HoldLock, HoldCheck
  <2>5. CASE Build(r) \/ Announces(r) \/ FallsSilent(r) \/ GoDown(r) \/ BeginRelease(r) \/ ReleaseLock(r) \/ Restart(r)
    BY <1>1, <2>5 DEF Build, Announces, FallsSilent, GoDown, BeginRelease, ReleaseLock, Restart
  <2>6. QED
    BY <1>4, <2>1, <2>2, <2>3, <2>4, <2>5 DEF RunStep, Locking
<1>5. ASSUME NEW r \in Run, NEW m \in {"create", "claim"},
             BeginAllocate(r, Fixed, m) \/ BeginHold(r, Fixed)
      PROVE  FALSE
  BY <1>1, <1>5 DEF BeginAllocate, BeginHold
<1>6. QED
  BY <1>2, <1>3, <1>4, <1>5 DEF Next

\* A lease ends by its owner's release, its expiry or a torn write, and in no
\* other way: allocate and hold never overwrite another run's lease.
THEOREM LeasesAreNotStolenAlways == Spec => LeasesAreNotStolen
<1>1. IInv /\ [Next]_vars => [\A a \in Addr : ~LeaseStolen(a)]_vars
  BY NoTheft
<1>2. QED
  BY <1>1, InductiveInvariant, PTL DEF Spec, LeasesAreNotStolen
=============================================================================
