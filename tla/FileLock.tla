------------------------------ MODULE FileLock ------------------------------
(***************************************************************************)
(* FileLockRegistry (kinetic_sdk/subagent/filelock.py): leases on a file,  *)
(* kept as a JSON record that is created with O_EXCL.                      *)
(*                                                                         *)
(* One path is modelled, since the records of two paths never meet.  A     *)
(* process stands for an agent with an owner id of its own; processes with *)
(* the same registry instance share its mutex, the others only share the   *)
(* directory.  Every access to the record is a step of its own.            *)
(***************************************************************************)
EXTENDS Integers

CONSTANTS
  Procs,        \* agents, each its own owner id
  NoProc,       \* no agent: the mutex is free
  RegistryOf,   \* the registry instance each of them uses
  Lease,        \* lease_seconds, in ticks
  CanTimeOut,   \* acquire() is called with a timeout
  CrashPoints,  \* the values of pc at which an agent's process may die
  MaxAcquires, MaxRenewals, MaxCrashes   \* bounds, each over all processes

PCs == {"idle", "try", "write", "read", "remove", "unlink", "held",
        "replace", "drop", "dead"}

ASSUME FileLockAssumption ==
  /\ NoProc \notin Procs
  /\ RegistryOf \in [Procs -> Procs]
  /\ Lease \in Nat \ {0} /\ CanTimeOut \in BOOLEAN
  /\ CrashPoints \subseteq PCs
  /\ MaxAcquires \in Nat /\ MaxRenewals \in Nat /\ MaxCrashes \in Nat

\* The record on disk: absent, created but not written, or a FileLockInfo.
Absent == [is |-> "absent"]
Unwritten(p) == [is |-> "unwritten", by |-> p]
Info(p, acquired, expires) ==
  [is |-> "info", owner |-> p, acquired |-> acquired, expires |-> expires]
Infos   == [is : {"info"}, owner : Procs, acquired : Nat, expires : Nat]
Records == Infos \cup {Absent} \cup {Unwritten(p) : p \in Procs}

VARIABLES
  now,      \* time.time()
  record,   \* the lock file
  mutex,    \* per registry: the process in a critical section
  pc,
  goal,     \* why a process looks at the record: "acquire" or "owner_of"
  started,  \* the local now of acquire() or owner_of()
  seen,     \* the record it read
  lease,    \* expiry of the lease a process holds
  acquires, renewals, crashes   \* counters of the bounds

counters == <<acquires, renewals, crashes>>
lockVars == <<now, record, mutex, pc, goal, started, seen, lease, counters>>

LockInit ==
  /\ now = 0 /\ record = Absent
  /\ mutex = [r \in Procs |-> NoProc]
  /\ pc = [p \in Procs |-> "idle"] /\ goal = [p \in Procs |-> "acquire"]
  /\ started = [p \in Procs |-> 0] /\ seen = [p \in Procs |-> Absent]
  /\ lease = [p \in Procs |-> 0]
  /\ acquires = 0 /\ renewals = 0 /\ crashes = 0

IsInfo(r)        == r.is = "info"
Expired(r, time) == r.expires <= time
Goto(p, where)   == pc' = [pc EXCEPT ![p] = where]
MutexFree(p)     == mutex[RegistryOf[p]] = NoProc
Lock(p)          == mutex' = [mutex EXCEPT ![RegistryOf[p]] = p]
Unlock(p)        == mutex' = [mutex EXCEPT ![RegistryOf[p]] = NoProc]

\* A process that uses the file under its lease, as far as it knows.
Holding(p) == pc[p] \in {"held", "replace", "drop"}

\* Time passes while a lease that has not expired is recorded or held.
Tick ==
  /\ \/ IsInfo(record) /\ ~Expired(record, now)
     \/ \E p \in Procs : Holding(p) /\ now < lease[p]
  /\ now' = now + 1
  /\ UNCHANGED <<record, mutex, pc, goal, started, seen, lease, counters>>

-----------------------------------------------------------------------------
(***************************************************************************)
(* acquire() and owner_of().                                               *)
(***************************************************************************)
Acquire(p) ==
  /\ pc[p] = "idle" /\ acquires < MaxAcquires
  /\ goal' = [goal EXCEPT ![p] = "acquire"]
  /\ acquires' = acquires + 1
  /\ Goto(p, "try")
  /\ UNCHANGED <<now, record, mutex, started, seen, lease, renewals, crashes>>

OwnerOf(p) ==
  /\ pc[p] = "idle"
  /\ goal' = [goal EXCEPT ![p] = "owner_of"]
  /\ seen' = [seen EXCEPT ![p] = record]
  /\ started' = [started EXCEPT ![p] = now]
  /\ IsInfo(record) /\ Expired(record, now) /\ Goto(p, "remove")
  /\ UNCHANGED <<now, record, mutex, lease, counters>>

\* The head of the retry loop: the clock is read, then O_CREAT | O_EXCL.
TryCreate(p) ==
  /\ pc[p] = "try"
  /\ started' = [started EXCEPT ![p] = now]
  /\ IF record = Absent
     THEN record' = Unwritten(p) /\ Goto(p, "write")
     ELSE Goto(p, "read") /\ UNCHANGED record
  /\ UNCHANGED <<now, mutex, goal, seen, lease, counters>>

\* The write goes to the file that was created, linked or not.
WriteRecord(p) ==
  /\ pc[p] = "write"
  /\ record' = IF record = Unwritten(p)
               THEN Info(p, started[p], started[p] + Lease) ELSE record
  /\ lease' = [lease EXCEPT ![p] = started[p] + Lease]
  /\ Goto(p, "held")
  /\ UNCHANGED <<now, mutex, goal, started, seen, counters>>

\* The write fails: the record is unlinked and the exception propagates.
WriteFails(p) ==
  /\ pc[p] = "write"
  /\ record' = Absent
  /\ Goto(p, "idle")
  /\ UNCHANGED <<now, mutex, goal, started, seen, lease, counters>>

\* The record exists: it is the caller's own, expired, or somebody else's.
ReadOwn(p) ==
  /\ pc[p] = "read" /\ IsInfo(record) /\ record.owner = p
  /\ lease' = [lease EXCEPT ![p] = record.expires]
  /\ Goto(p, "held")
  /\ UNCHANGED <<now, record, mutex, goal, started, seen, counters>>

ReadExpired(p) ==
  /\ pc[p] = "read" /\ IsInfo(record) /\ record.owner # p
  /\ Expired(record, started[p])
  /\ seen' = [seen EXCEPT ![p] = record]
  /\ Goto(p, "remove")
  /\ UNCHANGED <<now, record, mutex, goal, started, lease, counters>>

\* Sleep and retry, or give up.
ReadBusy(p) ==
  /\ pc[p] = "read"
  /\ IsInfo(record) => record.owner # p /\ ~Expired(record, started[p])
  /\ \/ Goto(p, "try")
     \/ CanTimeOut /\ Goto(p, "idle")
  /\ UNCHANGED <<now, record, mutex, goal, started, seen, lease, counters>>

Removed(p) == Goto(p, IF goal[p] = "acquire" THEN "try" ELSE "idle")

\* Mutant: whatever record there is now is removed.
CheckUnchanged_Blind(p) ==
  /\ pc[p] = "remove" /\ MutexFree(p)
  /\ Lock(p) /\ Goto(p, "unlink")
  /\ UNCHANGED <<now, record, goal, started, seen, lease, counters>>

\* Mutant: the record that was read is never found unchanged.
CheckUnchanged_Never(p) ==
  /\ pc[p] = "remove" /\ MutexFree(p)
  /\ Removed(p)
  /\ UNCHANGED <<now, record, mutex, goal, started, seen, lease, counters>>

\* _remove_if_unchanged: compare, then unlink, inside the registry's mutex.
CheckUnchanged(p) ==
  /\ pc[p] = "remove" /\ MutexFree(p)
  /\ IF record = seen[p]
     THEN Lock(p) /\ Goto(p, "unlink")
     ELSE Removed(p) /\ UNCHANGED mutex
  /\ UNCHANGED <<now, record, goal, started, seen, lease, counters>>

UnlinkExpired(p) ==
  /\ pc[p] = "unlink"
  /\ record' = Absent
  /\ Unlock(p) /\ Removed(p)
  /\ UNCHANGED <<now, goal, started, seen, lease, counters>>

-----------------------------------------------------------------------------
(***************************************************************************)
(* release() and renew(): check the owner, then change the record, inside  *)
(* the mutex.  A process that lost its record gets FileLockOwnershipError. *)
(***************************************************************************)
Owns(p) == IsInfo(record) /\ record.owner = p

Release(p) ==
  /\ pc[p] = "held" /\ MutexFree(p)
  /\ IF Owns(p) THEN Lock(p) /\ Goto(p, "drop")
                ELSE Goto(p, "idle") /\ UNCHANGED mutex
  /\ UNCHANGED <<now, record, goal, started, seen, lease, counters>>

UnlinkOwn(p) ==
  /\ pc[p] = "drop"
  /\ record' = Absent
  /\ Unlock(p) /\ Goto(p, "idle")
  /\ UNCHANGED <<now, goal, started, seen, lease, counters>>

Renew(p) ==
  /\ pc[p] = "held" /\ MutexFree(p) /\ renewals < MaxRenewals
  /\ renewals' = renewals + 1
  /\ seen' = [seen EXCEPT ![p] = record]
  /\ IF Owns(p) THEN Lock(p) /\ Goto(p, "replace")
                ELSE Goto(p, "idle") /\ UNCHANGED mutex
  /\ UNCHANGED <<now, record, goal, started, lease, acquires, crashes>>

\* os.replace installs the new record whatever is there.
ReplaceRecord(p) ==
  /\ pc[p] = "replace"
  /\ record' = Info(p, seen[p].acquired, now + Lease)
  /\ lease' = [lease EXCEPT ![p] = now + Lease]
  /\ Unlock(p) /\ Goto(p, "held")
  /\ UNCHANGED <<now, goal, started, seen, counters>>

-----------------------------------------------------------------------------
\* A process dies, and with it every agent that uses its registry.
Crash(r) ==
  /\ crashes < MaxCrashes
  /\ \E p \in Procs : RegistryOf[p] = r
  /\ \A p \in Procs : RegistryOf[p] = r => pc[p] \in CrashPoints
  /\ crashes' = crashes + 1
  /\ mutex' = [mutex EXCEPT ![r] = NoProc]
  /\ pc' = [p \in Procs |-> IF RegistryOf[p] = r THEN "dead" ELSE pc[p]]
  /\ UNCHANGED <<now, record, goal, started, seen, lease, acquires, renewals>>

\* An agent with the same owner id is started again.
Restart(p) ==
  /\ pc[p] = "dead"
  /\ Goto(p, "idle")
  /\ UNCHANGED <<now, record, mutex, goal, started, seen, lease, counters>>

\* What a process does once it is inside a call, or holds a lease.
Proceed(p) ==
  \/ TryCreate(p) \/ WriteRecord(p) \/ WriteFails(p)
  \/ ReadOwn(p) \/ ReadExpired(p) \/ ReadBusy(p)
  \/ CheckUnchanged(p) \/ UnlinkExpired(p)
  \/ Release(p) \/ UnlinkOwn(p) \/ ReplaceRecord(p)

LockNext ==
  \/ Tick
  \/ \E p \in Procs :
       Acquire(p) \/ OwnerOf(p) \/ Renew(p) \/ Proceed(p) \/ Crash(p) \/ Restart(p)

LockSpec == LockInit /\ [][LockNext]_lockVars

-----------------------------------------------------------------------------
TypeOK ==
  /\ now \in Nat /\ record \in Records
  /\ mutex \in [Procs -> Procs \cup {NoProc}]
  /\ pc \in [Procs -> PCs] /\ goal \in [Procs -> {"acquire", "owner_of"}]
  /\ started \in [Procs -> Nat] /\ seen \in [Procs -> Records]
  /\ lease \in [Procs -> Nat]
  /\ acquires \in Nat /\ renewals \in Nat /\ crashes \in Nat

(***************************************************************************)
(* Two agents never both hold a lease that has not expired: not across     *)
(* reclaiming, renewing, failed writes, crashes and a late release         *)
(* (filelock.py:67, "Coordinate exclusive ownership").                     *)
(***************************************************************************)
Exclusive ==
  \A p, q \in Procs :
    Holding(p) /\ now < lease[p] /\ Holding(q) /\ now < lease[q] => p = q

(***************************************************************************)
(* A lease that has not expired is taken off the disk, or changed, by its  *)
(* owner only (filelock.py:168, "only when it is currently owned").        *)
(***************************************************************************)
LeaseRespected ==
  [][IsInfo(record) /\ ~Expired(record, now) /\ record' # record =>
       pc[record.owner] \in {"drop", "replace"} /\ pc'[record.owner] # pc[record.owner]]_lockVars

(***************************************************************************)
(* acquire() without a timeout returns, if the process lives: a lease is   *)
(* released or expires, and a stale record is reclaimed by somebody        *)
(* (filelock.py:128, 130).                                                 *)
(***************************************************************************)
AcquireReturns ==
  \A p \in Procs : (pc[p] = "try" /\ goal[p] = "acquire") ~> (pc[p] \in {"held", "idle", "dead"})
=============================================================================
