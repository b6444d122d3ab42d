--------------------------- MODULE RunLockProofs ---------------------------
(***************************************************************************)
(* The experiment lock, for any number of commands.  Mutual exclusion is   *)
(* not inductive: that a replace cannot take a lock that is in use follows *)
(* from the resource version it carries, which is that of a stale lease,   *)
(* and from a command inside the lock owning a fresh one.  LockInvariant   *)
(* says both.                                                              *)
(***************************************************************************)
EXTENDS RunLock, TLAPS

LEMMA TypeStep == TypeOK /\ [Next]_vars => TypeOK'
<1> SUFFICES ASSUME TypeOK, [Next]_vars PROVE TypeOK'
  OBVIOUS
<1> USE WritesAssumption, NoneAssumption
<1>w. ASSUME NEW p \in Process, Write(p)
      PROVE /\ writes' \in Nat
            /\ lease' \in [holder : Process, version : Version', fresh : BOOLEAN]
            /\ Version \subseteq Version'
  BY <1>w DEF Write, TypeOK, Version
<1>u. ASSUME writes' = writes PROVE Version' = Version
  BY <1>u DEF Version
<1>1. ASSUME NEW p \in Process, AcquireRead(p) \/ Reread(p) PROVE TypeOK'
  BY <1>1, <1>u DEF AcquireRead, Reread, Examine, Goto, TypeOK
<1>2. ASSUME NEW p \in Process, Create(p) PROVE TypeOK'
  <2>1. CASE Write(p)
    BY <1>2, <2>1, <1>w DEF Create, Goto, TypeOK
  <2>2. CASE UNCHANGED <<lease, writes>>
    BY <1>2, <2>2, <1>u DEF Create, Goto, TypeOK
  <2> QED
    BY <1>2, <2>1, <2>2 DEF Create
<1>3. ASSUME NEW p \in Process, Replace(p) PROVE TypeOK'
  <2>1. CASE Write(p)
    BY <1>3, <2>1, <1>w DEF Replace, Goto, TypeOK
  <2>2. CASE UNCHANGED <<lease, writes>>
    BY <1>3, <2>2, <1>u DEF Replace, Goto, TypeOK
  <2> QED
    BY <1>3, <2>1, <2>2 DEF Replace
<1>4. ASSUME NEW p \in Process, RenewWrite(p) PROVE TypeOK'
  <2>1. CASE Write(p)
    BY <1>4, <2>1, <1>w DEF RenewWrite, TypeOK
  <2>2. CASE UNCHANGED <<lease, writes>>
    BY <1>4, <2>2, <1>u DEF RenewWrite, TypeOK
  <2> QED
    BY <1>4, <2>1, <2>2 DEF RenewWrite
<1>5. ASSUME NEW p \in Process, RenewRead(p) PROVE TypeOK'
  BY <1>5, <1>u DEF RenewRead, TypeOK
<1>6. ASSUME NEW p \in Process, ReleaseRead(p) \/ Delete(p) \/ ForceRead(p) PROVE TypeOK'
  BY <1>6, <1>u DEF ReleaseRead, Delete, ForceRead, Goto, TypeOK
<1>7. ASSUME NEW p \in Process, Crash(p) \/ ReuseIdentity(p) PROVE TypeOK'
  BY <1>7, <1>u DEF Crash, ReuseIdentity, Goto, TypeOK
<1>8. CASE Expire
  BY <1>8, <1>u DEF Expire, TypeOK
<1>9. CASE UNCHANGED vars
  BY <1>9, <1>u DEF vars, TypeOK
<1> QED
  BY <1>1, <1>2, <1>3, <1>4, <1>5, <1>6, <1>7, <1>8, <1>9 DEF Next, Step, Quiescent

\* The lease and what the commands read of it are well-typed: no resource version is
\* used that the API server has not handed out (runlock.py).
THEOREM Typing == Spec => []TypeOK
<1>1. Init => TypeOK
  BY DEF Init, TypeOK, Version
<1> QED
  BY <1>1, TypeStep, PTL DEF Spec

LEMMA NewVersion ==
  ASSUME TypeOK, NEW p \in Process, Write(p)
  PROVE  /\ lease' # None
         /\ lease'.holder = p /\ lease'.fresh /\ lease'.version = writes + 1
         /\ \A q \in Process : seen[q] # writes + 1 /\ renewing[q] # writes + 1
<1>1. lease' \in [holder : Process, version : Nat, fresh : BOOLEAN]
  BY DEF Write, TypeOK
<1>2. \A v \in Version \cup {None} : v # writes + 1
  BY NoneAssumption DEF TypeOK, Version
<1> QED
  BY <1>1, <1>2, NoneAssumption DEF Write, TypeOK

LEMMA VersionStep == TypeOK /\ VersionsTell /\ [Next]_vars => VersionsTell'
<1> SUFFICES ASSUME TypeOK, VersionsTell, [Next]_vars PROVE VersionsTell'
  OBVIOUS
<1> USE NoneAssumption
<1>1. ASSUME NEW p \in Process, AcquireRead(p) \/ Reread(p) PROVE VersionsTell'
  BY <1>1 DEF AcquireRead, Reread, Examine, Goto, TypeOK, VersionsTell, Matches
<1>2. ASSUME NEW p \in Process, Create(p) PROVE VersionsTell'
  <2>1. CASE Write(p)
    BY <1>2, <2>1, NewVersion DEF Create, Goto, TypeOK, VersionsTell, Matches
  <2>2. CASE UNCHANGED <<lease, writes>>
    BY <1>2, <2>2 DEF Create, Goto, TypeOK, VersionsTell, Matches
  <2> QED
    BY <1>2, <2>1, <2>2 DEF Create
<1>3. ASSUME NEW p \in Process, Replace(p) PROVE VersionsTell'
  <2>1. CASE Write(p)
    BY <1>3, <2>1, NewVersion DEF Replace, Goto, TypeOK, VersionsTell, Matches
  <2>2. CASE UNCHANGED <<lease, writes>>
    BY <1>3, <2>2 DEF Replace, Goto, TypeOK, VersionsTell, Matches
  <2> QED
    BY <1>3, <2>1, <2>2 DEF Replace
<1>4. ASSUME NEW p \in Process, RenewWrite(p) PROVE VersionsTell'
  <2>1. CASE Write(p)
    BY <1>4, <2>1, NewVersion DEF RenewWrite, TypeOK, VersionsTell, Matches
  <2>2. CASE UNCHANGED <<lease, writes>>
    BY <1>4, <2>2 DEF RenewWrite, TypeOK, VersionsTell, Matches
  <2> QED
    BY <1>4, <2>1, <2>2 DEF RenewWrite
<1>5. ASSUME NEW p \in Process, RenewRead(p) PROVE VersionsTell'
  BY <1>5 DEF RenewRead, TypeOK, VersionsTell, Matches
<1>6. ASSUME NEW p \in Process, ReleaseRead(p) \/ Delete(p) \/ ForceRead(p) PROVE VersionsTell'
  BY <1>6 DEF ReleaseRead, Delete, ForceRead, Goto, TypeOK, VersionsTell, Matches
<1>7. ASSUME NEW p \in Process, Crash(p) \/ ReuseIdentity(p) PROVE VersionsTell'
  BY <1>7 DEF Crash, ReuseIdentity, Goto, TypeOK, VersionsTell, Matches
<1>8. CASE Expire
  BY <1>8 DEF Expire, TypeOK, VersionsTell, Matches
<1>9. CASE UNCHANGED vars
  BY <1>9 DEF vars, VersionsTell, Matches
<1> QED
  BY <1>1, <1>2, <1>3, <1>4, <1>5, <1>6, <1>7, <1>8, <1>9 DEF Next, Step, Quiescent

LEMMA LockStep == TypeOK /\ LockInvariant /\ [Next]_vars => LockInvariant'
<1> SUFFICES ASSUME TypeOK, LockInvariant, [Next]_vars, mishap' = {}
             PROVE  LockInvariant'
  BY VersionStep DEF LockInvariant
<1>v. VersionsTell /\ VersionsTell'
  BY VersionStep DEF LockInvariant
<1> USE WritesAssumption, NoneAssumption
<1>m. mishap = {}
  BY DEF Next, Step, Quiescent, vars, AcquireRead, Reread, Examine, Create, Replace,
         RenewRead, RenewWrite, ReleaseRead, Delete, ForceRead, Crash, ReuseIdentity, Expire
<1>i. /\ \A p \in Process : Alive(p) => lease # None /\ lease.holder = p /\ lease.fresh
      /\ lease # None => pc[lease.holder] \in {"held", "delete", "done", "crashed"}
  BY <1>m DEF LockInvariant
<1>1. ASSUME NEW p \in Process, AcquireRead(p) \/ Reread(p) PROVE LockInvariant'
  BY <1>1, <1>v, <1>i DEF AcquireRead, Reread, Examine, Goto, TypeOK, LockInvariant, Alive
<1>2. ASSUME NEW p \in Process, Create(p) PROVE LockInvariant'
  <2>1. CASE Write(p)
    <3>1. lease = None
      BY <1>2, <2>1, NewVersion DEF Create, Write, TypeOK
    <3> QED
      BY <1>2, <2>1, <3>1, NewVersion, <1>v, <1>i DEF Create, Goto, TypeOK, LockInvariant, Alive
  <2>2. CASE Goto(p, "reread") /\ UNCHANGED <<lease, writes>>
    BY <1>2, <2>2, <1>v, <1>i DEF Create, Goto, TypeOK, LockInvariant, Alive
  <2> QED
    BY <1>2, <2>1, <2>2 DEF Create
<1>3. ASSUME NEW p \in Process, Replace(p) PROVE LockInvariant'
  <2>1. CASE Matches(seen[p]) /\ Write(p)
    <3>1. \A q \in Process : ~Alive(q)
      BY <1>3, <2>1, <1>v, <1>i DEF Replace, VersionsTell
    <3> QED
      BY <1>3, <2>1, <3>1, NewVersion, <1>v, <1>i DEF Replace, Goto, TypeOK, LockInvariant, Alive
  <2>2. CASE ~Matches(seen[p]) /\ UNCHANGED <<lease, writes>>
    BY <1>3, <2>2, <1>v, <1>i DEF Replace, Goto, TypeOK, LockInvariant, Alive
  <2> QED
    BY <1>3, <2>1, <2>2 DEF Replace
<1>4. ASSUME NEW p \in Process, RenewWrite(p) PROVE LockInvariant'
  <2>1. CASE Matches(renewing[p]) /\ Write(p)
    <3>1. lease # None /\ lease.holder = p
      BY <1>4, <2>1, <1>v DEF RenewWrite, VersionsTell, Matches
    <3> QED
      BY <1>4, <2>1, <3>1, NewVersion, <1>v, <1>i DEF RenewWrite, TypeOK, LockInvariant, Alive
  <2>2. CASE UNCHANGED <<lease, writes>>
    BY <1>4, <2>2, <1>v, <1>i DEF RenewWrite, TypeOK, LockInvariant, Alive
  <2> QED
    BY <1>4, <2>1, <2>2 DEF RenewWrite
<1>5. ASSUME NEW p \in Process, RenewRead(p) PROVE LockInvariant'
  BY <1>5, <1>v, <1>i DEF RenewRead, LockInvariant, Alive
<1>6. ASSUME NEW p \in Process, ReleaseRead(p) PROVE LockInvariant'
  BY <1>6, <1>v, <1>i DEF ReleaseRead, Goto, TypeOK, LockInvariant, Alive
<1>7. ASSUME NEW p \in Process, Delete(p) PROVE LockInvariant'
  BY <1>7, <1>v, <1>i DEF Delete, Goto, TypeOK, LockInvariant, Alive
<1>8. ASSUME NEW p \in Process, Crash(p) PROVE LockInvariant'
  BY <1>8, <1>v, <1>i DEF Crash, Goto, TypeOK, LockInvariant, Alive
<1>9. CASE Expire
  BY <1>9, <1>v, <1>i DEF Expire, TypeOK, LockInvariant, Alive
<1>10. CASE UNCHANGED vars
  BY <1>10, <1>v, <1>i DEF vars, LockInvariant, Alive
<1>11. ASSUME NEW p \in Process, ForceRead(p) \/ ReuseIdentity(p) PROVE FALSE
  BY <1>11 DEF ForceRead, ReuseIdentity
<1> QED
  BY <1>1, <1>2, <1>3, <1>4, <1>5, <1>6, <1>7, <1>8, <1>9, <1>10, <1>11
     DEF Next, Step, Quiescent

\* The inductive invariant holds in every reachable state.
THEOREM Locking == Spec => []LockInvariant
<1>1. Init => LockInvariant
  BY NoneAssumption DEF Init, LockInvariant, VersionsTell, Alive, Matches
<1> QED
  BY <1>1, LockStep, Typing, PTL DEF Spec

\* Without a mishap at most one command is inside the lock, for any number of commands,
\* crashes, lost answers and races for an expired lease (acquire, renew, release).
THEOREM Exclusion == Spec => []MutualExclusion
<1>1. LockInvariant => MutualExclusion
  BY DEF LockInvariant, MutualExclusion, OneAtATime, Alive
<1> QED
  BY <1>1, Locking, PTL

\* A lease that is being renewed keeps its holder until it is deleted, whatever mishaps
\* and races there are: a replace carries a resource version (acquire, renew).
THEOREM NoTakeOverOfAFreshLease == Spec => FreshLeaseKeepsHolder
<1> DEFINE Kept == lease # None /\ lease' # None /\ lease'.holder # lease.holder => ~lease.fresh
<1>1. TypeOK /\ LockInvariant /\ [Next]_vars => [Kept]_vars
  <2> SUFFICES ASSUME TypeOK, VersionsTell, Next PROVE Kept
    BY DEF LockInvariant
  <2> USE NoneAssumption
  <2>1. ASSUME NEW p \in Process, AcquireRead(p) \/ Reread(p) \/ RenewRead(p) \/ ReleaseRead(p)
               \/ Delete(p) \/ ForceRead(p) \/ Crash(p) \/ ReuseIdentity(p)
        PROVE  Kept
    BY <2>1 DEF AcquireRead, Reread, Examine, RenewRead, ReleaseRead, Delete, ForceRead, Crash,
                ReuseIdentity
  <2>2. ASSUME NEW p \in Process, Create(p) PROVE Kept
    BY <2>2 DEF Create
  <2>3. ASSUME NEW p \in Process, Replace(p) PROVE Kept
    BY <2>3 DEF Replace, VersionsTell
  <2>4. ASSUME NEW p \in Process, RenewWrite(p) PROVE Kept
    BY <2>4, NewVersion DEF RenewWrite, VersionsTell
  <2>5. CASE Expire
    BY <2>5 DEF Expire, TypeOK
  <2>6. CASE Quiescent
    BY <2>6 DEF Quiescent, vars
  <2> QED
    BY <2>1, <2>2, <2>3, <2>4, <2>5, <2>6 DEF Next, Step
<1> QED
  BY <1>1, Locking, Typing, PTL DEF Spec, FreshLeaseKeepsHolder
=============================================================================
