------------------------------ MODULE RunLock ------------------------------
(***************************************************************************)
(* The cluster-wide experiment lock: a Kubernetes Lease that every command *)
(* takes (runlock.held) around a scenario run, a validation or a           *)
(* deployment.  A process is one such command; its renewal thread and its  *)
(* main thread call the API server, one atomic call at a time.             *)
(*                                                                         *)
(* Time is abstracted to whether the lease is fresh: renewed within its    *)
(* duration.  A live holder renews several times per duration, so its      *)
(* lease goes stale only if it is suspended or cannot reach the API server *)
(* for that long.  Such a stall, a lock released by force and an identity  *)
(* used again are mishaps, and the history variable mishap names those     *)
(* that have happened.                                                     *)
(***************************************************************************)
EXTENDS Naturals, FiniteSets

CONSTANTS
    Process,    \* commands; their identity is host name and process id
    MaxWrites,  \* bound: after this many writes of the lease, no renewal
                \* and no reuse of an identity begins
    None        \* no lease, nothing read

ASSUME WritesAssumption == MaxWrites \in Nat

ASSUME NoneAssumption ==
    None \notin [holder : Process, version : Nat, fresh : BOOLEAN] \cup Nat \cup Process

VARIABLES
    lease,    \* the Lease object: [holder, version, fresh] or None
    writes,   \* the API server's resource version counter
    pc,       \* where each process is
    seen,     \* the resource version of the lease acquire has read
    renewing, \* the resource version the renewal thread has read
    mishap    \* history: "stall", "force", "identity"

vars == <<lease, writes, pc, seen, renewing, mishap>>

Goto(p, label) == pc' = [pc EXCEPT ![p] = label]

\* As Write, but without the holder identity.
MutWriteNoHolder(holder) ==
    /\ lease' = [holder |-> None, version |-> writes + 1, fresh |-> TRUE]
    /\ writes' = writes + 1
\* A write creates or replaces the object and gives it a new resource version.
Write(holder) ==
    /\ lease' = [holder |-> holder, version |-> writes + 1, fresh |-> TRUE]
    /\ writes' = writes + 1

Matches(version) == lease # None /\ lease.version = version

Alive(p) == pc[p] \in {"held", "delete"}

\* The rest of acquire once a lease was read: it is ours, or held, or expired.
Examine(p) ==
    /\ \/ lease.holder = p /\ Goto(p, "held") /\ UNCHANGED seen
       \/ lease.holder # p /\ lease.fresh /\ Goto(p, "done") /\ UNCHANGED seen
       \/ /\ lease.holder # p /\ ~lease.fresh
          /\ seen' = [seen EXCEPT ![p] = lease.version]
          /\ Goto(p, "replace")
    /\ UNCHANGED <<lease, writes, renewing, mishap>>

AcquireRead(p) ==
    /\ pc[p] = "idle"
    /\ \/ lease = None /\ Goto(p, "create") /\ UNCHANGED <<lease, writes, seen, renewing, mishap>>
       \/ lease # None /\ Examine(p)

\* create_namespaced_lease; 409 when the object exists.  The answer may be lost, and
\* then the command fails although the lease is its own.
Create(p) ==
    /\ pc[p] = "create"
    /\ \/ lease = None /\ Write(p) /\ (Goto(p, "held") \/ Goto(p, "done"))
       \/ lease # None /\ Goto(p, "reread") /\ UNCHANGED <<lease, writes>>
    /\ UNCHANGED <<seen, renewing, mishap>>

\* The second read fails its assertion if the lease is gone again.
Reread(p) ==
    /\ pc[p] = "reread"
    /\ \/ lease = None /\ Goto(p, "done") /\ UNCHANGED <<lease, writes, seen, renewing, mishap>>
       \/ lease # None /\ Examine(p)

\* As Replace, but without the resource version.
MutReplaceUnversioned(p) ==
    /\ pc[p] = "replace"
    /\ \/ lease # None /\ Write(p) /\ (Goto(p, "held") \/ Goto(p, "done"))
       \/ lease = None /\ Goto(p, "done") /\ UNCHANGED <<lease, writes>>
    /\ seen' = [seen EXCEPT ![p] = None]
    /\ UNCHANGED <<renewing, mishap>>
\* replace_namespaced_lease with the resource version that was read.
Replace(p) ==
    /\ pc[p] = "replace"
    /\ \/ Matches(seen[p]) /\ Write(p) /\ (Goto(p, "held") \/ Goto(p, "done"))
       \/ ~Matches(seen[p]) /\ Goto(p, "done") /\ UNCHANGED <<lease, writes>>
    /\ seen' = [seen EXCEPT ![p] = None]
    /\ UNCHANGED <<renewing, mishap>>

\* renew, in the renewal thread: read, check the holder, replace.  The thread is not
\* joined, so its last renewal may run beside the release.
RenewRead(p) ==
    /\ pc[p] \in {"held", "delete"}
    /\ renewing[p] = None
    /\ writes < MaxWrites
    /\ lease # None /\ lease.holder = p
    /\ renewing' = [renewing EXCEPT ![p] = lease.version]
    /\ UNCHANGED <<lease, writes, pc, seen, mishap>>

\* As RenewWrite, but without the resource version.
MutRenewWriteUnversioned(p) ==
    /\ renewing[p] # None
    /\ \/ lease # None /\ Write(p)
       \/ lease = None /\ UNCHANGED <<lease, writes>>
    /\ renewing' = [renewing EXCEPT ![p] = None]
    /\ UNCHANGED <<pc, seen, mishap>>
\* A conflict is swallowed: the next renewal comes in its turn.
RenewWrite(p) ==
    /\ renewing[p] # None
    /\ \/ Matches(renewing[p]) /\ Write(p)
       \/ ~Matches(renewing[p]) /\ UNCHANGED <<lease, writes>>
    /\ renewing' = [renewing EXCEPT ![p] = None]
    /\ UNCHANGED <<pc, seen, mishap>>

\* The block ends; release reads the lease and deletes it if it is its own.
ReleaseRead(p) ==
    /\ pc[p] = "held"
    /\ \/ lease # None /\ lease.holder = p /\ Goto(p, "delete")
       \/ (lease # None => lease.holder # p) /\ Goto(p, "done")
    /\ UNCHANGED <<lease, writes, seen, renewing, mishap>>

\* delete_namespaced_lease names the object, not the version that was read.  The
\* call may fail, and then the lease stays until it expires.
Delete(p) ==
    /\ pc[p] = "delete"
    /\ lease' = None \/ UNCHANGED lease
    /\ Goto(p, "done")
    /\ UNCHANGED <<writes, seen, renewing, mishap>>

\* scenarioctl reset --force: release(force=True) reads a lease and deletes it.
ForceRead(p) ==
    /\ pc[p] = "idle"
    /\ lease # None
    /\ Goto(p, "delete")
    /\ mishap' = mishap \cup {"force"}
    /\ UNCHANGED <<lease, writes, seen, renewing>>

\* The process and its renewal thread die.
Crash(p) ==
    /\ pc[p] \notin {"idle", "done", "crashed"}
    /\ Goto(p, "crashed")
    /\ seen' = [seen EXCEPT ![p] = None]
    /\ renewing' = [renewing EXCEPT ![p] = None]
    /\ UNCHANGED <<lease, writes, mishap>>

\* A later command runs under the host name and process id of a crashed one that
\* left its lease.  (Without its lease it is just another command.)
ReuseIdentity(p) ==
    /\ pc[p] = "crashed"
    /\ lease # None /\ lease.holder = p
    /\ writes < MaxWrites
    /\ Goto(p, "idle")
    /\ mishap' = mishap \cup {"identity"}
    /\ UNCHANGED <<lease, writes, seen, renewing>>

\* is_expired turns true: the lease was not renewed for longer than its duration.
Expire ==
    /\ lease # None /\ lease.fresh
    /\ lease' = [lease EXCEPT !.fresh = FALSE]
    /\ mishap' = mishap \cup (IF Alive(lease.holder) THEN {"stall"} ELSE {})
    /\ UNCHANGED <<writes, pc, seen, renewing>>

Init ==
    /\ lease = None
    /\ writes = 0
    /\ pc = [p \in Process |-> "idle"]
    /\ seen = [p \in Process |-> None]
    /\ renewing = [p \in Process |-> None]
    /\ mishap = {}

\* Every command has ended.
Quiescent == (\A p \in Process : pc[p] \in {"done", "crashed"}) /\ UNCHANGED vars

Step(p) ==
    \/ AcquireRead(p) \/ Create(p) \/ Reread(p) \/ Replace(p)
    \/ RenewRead(p) \/ RenewWrite(p)
    \/ ReleaseRead(p) \/ Delete(p) \/ ForceRead(p)
    \/ Crash(p) \/ ReuseIdentity(p)

Next == (\E p \in Process : Step(p)) \/ Expire \/ Quiescent

Spec == Init /\ [][Next]_vars

-----------------------------------------------------------------------------
(* Properties.                                                              *)

Version == 1..writes

\* Types; a resource version that was read is one the server handed out.
TypeOK ==
    /\ writes \in Nat
    /\ lease \in [holder : Process, version : Version, fresh : BOOLEAN] \cup {None}
    /\ pc \in [Process -> {"idle", "create", "reread", "replace", "held", "delete", "done",
                           "crashed"}]
    /\ seen \in [Process -> Version \cup {None}]
    /\ renewing \in [Process -> Version \cup {None}]
    /\ mishap \subseteq {"stall", "force", "identity"}

\* docs/experiment-safety.md:15 "A cluster-wide lock admits one experiment, validation or
\* deployment at a time": two commands are never inside the lock together.
OneAtATime == \A p, q \in Process : pc[p] = "held" /\ pc[q] = "held" => p = q

\* Without a mishap two commands are never inside the lock together, whatever crashes
\* and however many commands race for a free or an expired lock.
MutualExclusion == mishap = {} => OneAtATime

\* A lease whose holder keeps renewing it is never taken over, however many commands race
\* for an expired one: it changes hands only when it is stale.
FreshLeaseKeepsHolder ==
    [][lease # None /\ lease' # None /\ lease'.holder # lease.holder => ~lease.fresh]_vars

\* A resource version stands for one state of the lease, so what was read with it is still
\* true while it matches: the lease a command is about to replace is stale, and the one a
\* renewal thread is about to renew is its own.
VersionsTell ==
    \A p \in Process :
        /\ pc[p] = "replace" /\ Matches(seen[p]) => ~lease.fresh
        /\ renewing[p] # None /\ Matches(renewing[p]) => lease.holder = p

\* The inductive invariant behind MutualExclusion: without a mishap a command inside the
\* lock, or about to delete it, owns a fresh lease, and one still acquiring owns none.
LockInvariant ==
    /\ VersionsTell
    /\ mishap = {} =>
        /\ \A p \in Process : Alive(p) => lease # None /\ lease.holder = p /\ lease.fresh
        /\ lease # None => pc[lease.holder] \in {"held", "delete", "done", "crashed"}
=============================================================================
