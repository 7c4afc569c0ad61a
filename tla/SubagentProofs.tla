--------------------------- MODULE SubagentProofs ----------------------------
(***************************************************************************)
(* Theorems about what sub-agents share.  The leases of FileLock, and the  *)
(* edits and patches of FileEdits made under them and beside them, for any *)
(* number of agents, any length of the lease, and without the bounds of    *)
(* the model-checked instances.  The budget and the life of a              *)
(* SubagentTree, for any number of agents, any budget and any of the ways  *)
(* the tree is run.                                                        *)
(***************************************************************************)
EXTENDS SubagentTree, FileEdits, FiniteSetTheorems, WellFoundedInduction, TLAPS

-----------------------------------------------------------------------------
(***************************************************************************)
(* Leases                                                                  *)
(***************************************************************************)

\* The agents coordinate through the same FileLockRegistry object.
OneRegistry == \A p, q \in Procs : RegistryOf[p] = RegistryOf[q]

InMutex(p) == pc[p] \in {"unlink", "replace", "drop"}

(***************************************************************************)
(* What makes Exclusive inductive: a live lease is on disk exactly as its  *)
(* holder knows it, whoever is between its check and its change of the     *)
(* record has the mutex and the record is still the one it checked.        *)
(***************************************************************************)
LeaseOnDisk(p) ==
  Holding(p) /\ now < lease[p] =>
    IsInfo(record) /\ record.owner = p /\ record.expires = lease[p]

CheckedStill(p) ==
  /\ pc[p] = "write" => record = Unwritten(p)
  /\ InMutex(p) => mutex[RegistryOf[p]] = p
  /\ pc[p] = "unlink" => record = seen[p]
  /\ pc[p] \in {"remove", "unlink"} => IsInfo(seen[p]) /\ Expired(seen[p], now)
  /\ pc[p] \in {"replace", "drop"} => Owns(p)
  /\ pc[p] = "replace" => IsInfo(seen[p])
  /\ started[p] <= now

IInv ==
  /\ TypeOK
  /\ \A p \in Procs : LeaseOnDisk(p)
  /\ \A p \in Procs : CheckedStill(p)

-----------------------------------------------------------------------------
\* The three shapes of the record on disk, as far as the proofs look at them.
LEMMA RecordShapes ==
  /\ Absent \in Records /\ ~IsInfo(Absent)
  /\ \A p \in Procs : Unwritten(p) \in Records /\ ~IsInfo(Unwritten(p))
  /\ \A p, q \in Procs : Unwritten(p) # Absent /\ (Unwritten(p) = Unwritten(q) => p = q)
  /\ \A p \in Procs, a \in Nat, e \in Nat :
       /\ Info(p, a, e) \in Records /\ IsInfo(Info(p, a, e))
       /\ Info(p, a, e).owner = p /\ Info(p, a, e).expires = e
BY Zenon DEF Absent, Unwritten, Info, Infos, Records, IsInfo

\* A record that can be parsed has an owner and two times.
LEMMA InfoFields ==
  ASSUME NEW r \in Records, IsInfo(r)
  PROVE  r.owner \in Procs /\ r.acquired \in Nat /\ r.expires \in Nat
BY DEF Absent, Unwritten, Infos, Records, IsInfo

\* Initially nobody holds anything.
LEMMA InitIInv == LockInit => IInv
<1> SUFFICES ASSUME LockInit PROVE IInv
  OBVIOUS
<1> USE FileLockAssumption, RecordShapes DEF LockInit
<1>1. TypeOK
  BY DEF TypeOK, PCs
<1>2. \A p \in Procs : LeaseOnDisk(p)
  BY DEF LeaseOnDisk, Holding
<1>3. \A p \in Procs : CheckedStill(p)
  <2> TAKE p \in Procs
  <2>1. pc[p] = "idle" /\ started[p] <= now
    BY SMTT(30), ZenonT(30)
  <2>2. QED
    BY ONLY <2>1 DEF CheckedStill, InMutex
<1>4. QED
  BY <1>1, <1>2, <1>3 DEF IInv

\* The types are preserved; replacing a record needs to know what was read.
LEMMA TypeStep ==
  ASSUME TypeOK, LockNext, \A p \in Procs : CheckedStill(p)
  PROVE  TypeOK'
<1> USE FileLockAssumption DEF TypeOK, PCs, counters
<1>1. CASE Tick
  BY <1>1 DEF Tick
<1>2. ASSUME NEW p \in Procs, Acquire(p) PROVE TypeOK'
  BY <1>2 DEF Acquire, Goto
<1>3. ASSUME NEW p \in Procs, OwnerOf(p) PROVE TypeOK'
  BY <1>3 DEF OwnerOf, Goto
<1>4. ASSUME NEW p \in Procs, Renew(p) PROVE TypeOK'
  BY <1>4 DEF Renew, Goto, Lock
<1>5. ASSUME NEW p \in Procs, TryCreate(p) PROVE TypeOK'
  <2>1. record' \in Records
    BY <1>5, RecordShapes DEF TryCreate
  <2>2. pc' \in [Procs -> PCs]
    BY <1>5 DEF TryCreate, Goto
  <2>3. QED
    BY <1>5, <2>1, <2>2, Zenon DEF TryCreate
<1>6. ASSUME NEW p \in Procs, WriteRecord(p) PROVE TypeOK'
  <2>1. started[p] \in Nat /\ started[p] + Lease \in Nat
    OBVIOUS
  <2>2. record' \in Records
    BY <1>6, <2>1, RecordShapes DEF WriteRecord
  <2>3. QED
    BY <1>6, <2>1, <2>2 DEF WriteRecord, Goto
<1>7. ASSUME NEW p \in Procs, WriteFails(p) PROVE TypeOK'
  BY <1>7, RecordShapes DEF WriteFails, Goto
<1>8. ASSUME NEW p \in Procs, ReadOwn(p) PROVE TypeOK'
  BY <1>8, InfoFields DEF ReadOwn, Goto
<1>9. ASSUME NEW p \in Procs, ReadExpired(p) PROVE TypeOK'
  BY <1>9 DEF ReadExpired, Goto
<1>10. ASSUME NEW p \in Procs, ReadBusy(p) PROVE TypeOK'
  BY <1>10 DEF ReadBusy, Goto
<1>11. ASSUME NEW p \in Procs, CheckUnchanged(p) PROVE TypeOK'
  BY <1>11 DEF CheckUnchanged, Goto, Removed, Lock
<1>12. ASSUME NEW p \in Procs, UnlinkExpired(p) PROVE TypeOK'
  BY <1>12, RecordShapes DEF UnlinkExpired, Goto, Removed, Unlock
<1>13. ASSUME NEW p \in Procs, Release(p) PROVE TypeOK'
  BY <1>13 DEF Release, Goto, Lock
<1>14. ASSUME NEW p \in Procs, UnlinkOwn(p) PROVE TypeOK'
  BY <1>14, RecordShapes DEF UnlinkOwn, Goto, Unlock
<1>15. ASSUME NEW p \in Procs, Crash(p) PROVE TypeOK'
  BY <1>15 DEF Crash
<1>16. ASSUME NEW p \in Procs, Restart(p) PROVE TypeOK'
  BY <1>16 DEF Restart, Goto
<1>17. ASSUME NEW p \in Procs, ReplaceRecord(p) PROVE TypeOK'
  <2>1. seen[p].acquired \in Nat
    BY <1>17, InfoFields DEF ReplaceRecord, CheckedStill
  <2>2. QED
    BY <1>17, <2>1, RecordShapes, SMTT(30), ZenonT(30) DEF ReplaceRecord, Goto, Unlock
<1>18. QED
  BY <1>1, <1>2, <1>3, <1>4, <1>5, <1>6, <1>7, <1>8, <1>9, <1>10, <1>11, <1>12, <1>13, <1>14, <1>15, <1>16, <1>17, SMTT(30), ZenonT(30) DEF LockNext, Proceed

\* The mutex does its work, because there is only one.
LEMMA OneInMutex ==
  ASSUME OneRegistry, IInv
  PROVE  /\ \A p, q \in Procs : InMutex(p) /\ InMutex(q) => p = q
         /\ \A p, q \in Procs : MutexFree(p) => ~InMutex(q)
BY FileLockAssumption, SMTT(30), ZenonT(30) DEF OneRegistry, IInv, CheckedStill, MutexFree

\* A live lease stays on disk as its holder knows it.
LEMMA LeaseStep ==
  ASSUME OneRegistry, IInv, LockNext, NEW q \in Procs
  PROVE  LeaseOnDisk(q)'
<1> USE FileLockAssumption DEF IInv, LeaseOnDisk, Holding
<1>1. CASE Tick
  BY <1>1, SMTT(30), ZenonT(30) DEF Tick, TypeOK
<1>2. ASSUME NEW p \in Procs, Acquire(p) \/ OwnerOf(p) \/ ReadExpired(p) \/ ReadBusy(p) \/ Restart(p)
      PROVE  LeaseOnDisk(q)'
  BY <1>2 DEF Acquire, OwnerOf, ReadExpired, ReadBusy, Restart, Goto, TypeOK
<1>3. ASSUME NEW p \in Procs, TryCreate(p) PROVE LeaseOnDisk(q)'
  BY <1>3, RecordShapes, SMTT(30), ZenonT(30) DEF TryCreate, Goto, TypeOK
<1>4. ASSUME NEW p \in Procs, WriteRecord(p) PROVE LeaseOnDisk(q)'
  <2>1. record = Unwritten(p) /\ ~IsInfo(record)
    BY <1>4, RecordShapes DEF WriteRecord, CheckedStill
  <2>2. started[p] \in Nat /\ started[p] + Lease \in Nat
    BY SMTT(30), ZenonT(30) DEF TypeOK
  <2>3. IsInfo(record') /\ record'.owner = p /\ record'.expires = started[p] + Lease
    BY <1>4, <2>1, <2>2, RecordShapes, SMTT(30), ZenonT(30) DEF WriteRecord
  <2>4. QED
    BY <1>4, <2>1, <2>3 DEF WriteRecord, Goto, TypeOK
<1>5. ASSUME NEW p \in Procs, WriteFails(p) PROVE LeaseOnDisk(q)'
  BY <1>5, RecordShapes DEF WriteFails, Goto, TypeOK, CheckedStill
<1>6. ASSUME NEW p \in Procs, ReadOwn(p) PROVE LeaseOnDisk(q)'
  BY <1>6 DEF ReadOwn, Goto, TypeOK
<1>7. ASSUME NEW p \in Procs, CheckUnchanged(p) PROVE LeaseOnDisk(q)'
  BY <1>7 DEF CheckUnchanged, Removed, Goto, TypeOK
<1>8. ASSUME NEW p \in Procs, UnlinkExpired(p) PROVE LeaseOnDisk(q)'
  BY <1>8, SMTT(30), ZenonT(30) DEF UnlinkExpired, Removed, Goto, TypeOK, CheckedStill, Expired
<1>9. ASSUME NEW p \in Procs, Release(p) \/ Renew(p) PROVE LeaseOnDisk(q)'
  BY <1>9 DEF Release, Renew, Goto, TypeOK
<1>10. ASSUME NEW p \in Procs, UnlinkOwn(p) PROVE LeaseOnDisk(q)'
  BY <1>10 DEF UnlinkOwn, Goto, TypeOK, CheckedStill, Owns
<1>11. ASSUME NEW p \in Procs, ReplaceRecord(p) PROVE LeaseOnDisk(q)'
  <2>1. seen[p].acquired \in Nat /\ now + Lease \in Nat
    BY <1>11, InfoFields, SMTT(30), ZenonT(30) DEF ReplaceRecord, TypeOK, CheckedStill
  <2>2. IsInfo(record') /\ record'.owner = p /\ record'.expires = now + Lease
    BY <1>11, <2>1, RecordShapes, SMTT(30), ZenonT(30) DEF ReplaceRecord
  <2>3. IsInfo(record) /\ record.owner = p
    BY <1>11 DEF ReplaceRecord, CheckedStill, Owns
  <2>4. QED
    BY <1>11, <2>2, <2>3, SMTT(30), ZenonT(30) DEF ReplaceRecord, Goto, TypeOK
<1>12. ASSUME NEW p \in Procs, Crash(p) PROVE LeaseOnDisk(q)'
  BY <1>12, SMTT(30), ZenonT(30) DEF Crash, TypeOK
<1>13. QED
  BY <1>1, <1>2, <1>3, <1>4, <1>5, <1>6, <1>7, <1>8, <1>9, <1>10, <1>11, <1>12, SMTT(30), ZenonT(30)
     DEF LockNext, Proceed

\* An agent outside the critical sections does not depend on the record.
LEMMA Bystander ==
  ASSUME IInv, NEW q \in Procs, pc[q] # "write", ~InMutex(q), pc'[q] = pc[q],
         seen'[q] = seen[q], started'[q] = started[q], now' = now
  PROVE  CheckedStill(q)'
BY SMTT(30) DEF IInv, CheckedStill, InMutex

\* While an agent is about to change a record, no other is about to do so.
LEMMA OthersOutside ==
  ASSUME OneRegistry, IInv, NEW p \in Procs, NEW q \in Procs, q # p, InMutex(p)
  PROVE  pc[q] # "write" /\ ~InMutex(q)
<1>1. IsInfo(record)
  BY DEF IInv, CheckedStill, InMutex, Owns
<1>2. pc[q] = "write" => record = Unwritten(q)
  BY DEF IInv, CheckedStill
<1>3. pc[q] # "write"
  BY <1>1, <1>2, RecordShapes
<1>4. ~InMutex(q)
  BY OneInMutex
<1>5. QED
  BY <1>3, <1>4

\* Nobody changes the record between another agent's check and its change.
LEMMA CheckedStep ==
  ASSUME OneRegistry, IInv, LockNext, NEW q \in Procs
  PROVE  CheckedStill(q)'
<1> USE FileLockAssumption
<1>0. TypeOK
  BY SMTT(30), ZenonT(30) DEF IInv
<1>1. CASE Tick
  <2>1. \A r \in Records : IsInfo(r) /\ Expired(r, now) => Expired(r, now')
    BY <1>0, <1>1, InfoFields, SMTT(30), ZenonT(30) DEF Tick, Expired, TypeOK
  <2>2. QED
    BY <1>1, <2>1, SMTT(30), ZenonT(30) DEF Tick, TypeOK, InMutex, Owns, IInv, CheckedStill
<1>2. ASSUME NEW p \in Procs, Acquire(p) \/ ReadOwn(p) \/ ReadBusy(p) \/ Restart(p)
      PROVE  CheckedStill(q)'
  BY <1>2, SMTT(30), ZenonT(30) DEF Acquire, ReadOwn, ReadBusy, Restart, Goto, TypeOK, InMutex, Owns, IInv, CheckedStill
<1>3. ASSUME NEW p \in Procs, OwnerOf(p) PROVE CheckedStill(q)'
  BY <1>3, SMTT(30), ZenonT(30) DEF OwnerOf, Goto, TypeOK, InMutex, Owns, IInv, CheckedStill
<1>4. ASSUME NEW p \in Procs, ReadExpired(p) PROVE CheckedStill(q)'
  <2>1. Expired(record, now)
    <3>1. started[p] <= now
      BY DEF IInv, CheckedStill
    <3>2. QED
      BY <1>0, <1>4, <3>1, InfoFields, SMTT(30), ZenonT(30) DEF ReadExpired, Expired, TypeOK
  <2>2. QED
    BY <1>4, <2>1 DEF ReadExpired, Goto, TypeOK, InMutex, Owns, IInv, CheckedStill
<1>5. ASSUME NEW p \in Procs, TryCreate(p) PROVE CheckedStill(q)'
  <2>1. CASE record = Absent
    <3>1. record' = Unwritten(p) /\ pc' = [pc EXCEPT ![p] = "write"]
      BY <1>5, <2>1 DEF TryCreate, Goto
    <3>2. pc[q] # "write" /\ ~InMutex(q)
      BY <2>1, RecordShapes DEF InMutex, Owns, IInv, CheckedStill
    <3>3. CASE q = p
      BY <1>5, <3>1, <3>3 DEF TryCreate, TypeOK, InMutex, IInv, CheckedStill
    <3>4. CASE q # p
      BY <1>0, <1>5, <3>1, <3>2, <3>4, Bystander, SMTT(30), ZenonT(30) DEF TryCreate, TypeOK
    <3>5. QED
      BY <3>3, <3>4
  <2>2. CASE record # Absent
    BY <1>5, <2>2, SMTT(30), ZenonT(30) DEF TryCreate, Goto, TypeOK, InMutex, Owns, IInv, CheckedStill
  <2>3. QED
    BY <2>1, <2>2
<1>6. ASSUME NEW p \in Procs, WriteRecord(p) PROVE CheckedStill(q)'
  <2>1. CASE q = p
    BY <1>6, <2>1 DEF WriteRecord, Goto, TypeOK, InMutex, Owns, IInv, CheckedStill
  <2>2. CASE q # p
    <3>1. pc[q] # "write" /\ ~InMutex(q)
      BY <1>6, <2>2, RecordShapes, SMTT(30), ZenonT(30) DEF WriteRecord, InMutex, Owns, IInv, CheckedStill
    <3>2. QED
      BY <1>0, <1>6, <2>2, <3>1, Bystander, SMTT(30), ZenonT(30) DEF WriteRecord, Goto, TypeOK
  <2>3. QED
    BY <2>1, <2>2
<1>7. ASSUME NEW p \in Procs, WriteFails(p) PROVE CheckedStill(q)'
  <2>1. CASE q = p
    BY <1>7, <2>1 DEF WriteFails, Goto, TypeOK, InMutex, Owns, IInv, CheckedStill
  <2>2. CASE q # p
    <3>1. pc[q] # "write" /\ ~InMutex(q)
      BY <1>7, <2>2, RecordShapes, SMTT(30), ZenonT(30) DEF WriteFails, InMutex, Owns, IInv, CheckedStill
    <3>2. QED
      BY <1>0, <1>7, <2>2, <3>1, Bystander, SMTT(30), ZenonT(30) DEF WriteFails, Goto, TypeOK
  <2>3. QED
    BY <2>1, <2>2
<1>8. ASSUME NEW p \in Procs, CheckUnchanged(p) PROVE CheckedStill(q)'
  <2>1. ~InMutex(q)
    BY <1>8, OneInMutex, SMTT(30), ZenonT(30) DEF CheckUnchanged
  <2>2. CASE q = p
    BY <1>8, <2>2, SMTT(30), ZenonT(30) DEF CheckUnchanged, Removed, Goto, Lock, TypeOK, InMutex, Owns, IInv, CheckedStill
  <2>3. CASE q # p
    BY <1>8, <2>1, <2>3, SMTT(30), ZenonT(30) DEF CheckUnchanged, Removed, Goto, TypeOK, InMutex, IInv, CheckedStill
  <2>4. QED
    BY <2>2, <2>3
<1>9. ASSUME NEW p \in Procs, UnlinkExpired(p) PROVE CheckedStill(q)'
  <2>1. CASE q = p
    BY <1>9, <2>1 DEF UnlinkExpired, Removed, Goto, TypeOK, InMutex, Owns, IInv, CheckedStill
  <2>2. CASE q # p
    <3>1. pc[q] # "write" /\ ~InMutex(q)
      BY <1>9, <2>2, OthersOutside, SMTT(30), ZenonT(30) DEF UnlinkExpired, InMutex
    <3>2. QED
      BY <1>0, <1>9, <2>2, <3>1, Bystander DEF UnlinkExpired, Removed, Goto, TypeOK
  <2>3. QED
    BY <2>1, <2>2
<1>10. ASSUME NEW p \in Procs, Release(p) PROVE CheckedStill(q)'
  <2>1. ~InMutex(q)
    BY <1>10, OneInMutex, SMTT(30), ZenonT(30) DEF Release
  <2>2. CASE q = p
    BY <1>10, <2>2, SMTT(30), ZenonT(30) DEF Release, Goto, Lock, TypeOK, InMutex, Owns, IInv, CheckedStill
  <2>3. CASE q # p
    BY <1>10, <2>1, <2>3, SMTT(30), ZenonT(30) DEF Release, Goto, TypeOK, InMutex, IInv, CheckedStill
  <2>4. QED
    BY <2>2, <2>3
<1>11. ASSUME NEW p \in Procs, Renew(p) PROVE CheckedStill(q)'
  <2>1. ~InMutex(q)
    BY <1>11, OneInMutex, SMTT(30), ZenonT(30) DEF Renew
  <2>2. CASE q = p
    BY <1>11, <2>2, SMTT(30), ZenonT(30) DEF Renew, Goto, Lock, TypeOK, InMutex, Owns, IInv, CheckedStill
  <2>3. CASE q # p
    BY <1>11, <2>1, <2>3, SMTT(30), ZenonT(30) DEF Renew, Goto, TypeOK, InMutex, IInv, CheckedStill
  <2>4. QED
    BY <2>2, <2>3
<1>12. ASSUME NEW p \in Procs, UnlinkOwn(p) PROVE CheckedStill(q)'
  <2>1. CASE q = p
    BY <1>12, <2>1 DEF UnlinkOwn, Goto, TypeOK, InMutex, Owns, IInv, CheckedStill
  <2>2. CASE q # p
    <3>1. pc[q] # "write" /\ ~InMutex(q)
      BY <1>12, <2>2, OthersOutside, SMTT(30), ZenonT(30) DEF UnlinkOwn, InMutex
    <3>2. QED
      BY <1>0, <1>12, <2>2, <3>1, Bystander DEF UnlinkOwn, Goto, TypeOK
  <2>3. QED
    BY <2>1, <2>2
<1>13. ASSUME NEW p \in Procs, ReplaceRecord(p) PROVE CheckedStill(q)'
  <2>1. CASE q = p
    BY <1>13, <2>1, Zenon DEF ReplaceRecord, Goto, TypeOK, InMutex, Owns, IInv, CheckedStill
  <2>2. CASE q # p
    <3>1. pc[q] # "write" /\ ~InMutex(q)
      BY <1>13, <2>2, OthersOutside, ZenonT(30) DEF ReplaceRecord, InMutex
    <3>2. QED
      BY <1>0, <1>13, <2>2, <3>1, Bystander, SMTT(30), ZenonT(30) DEF ReplaceRecord, Goto, TypeOK
  <2>3. QED
    BY <2>1, <2>2
<1>14. ASSUME NEW p \in Procs, Crash(p) PROVE CheckedStill(q)'
  BY <1>14 DEF Crash, TypeOK, InMutex, Owns, OneRegistry, IInv, CheckedStill
<1>15. QED
  BY <1>1, <1>2, <1>3, <1>4, <1>5, <1>6, <1>7, <1>8, <1>9, <1>10, <1>11, <1>12,
     <1>13, <1>14, SMTT(30), ZenonT(30) DEF LockNext, Proceed

\* The strengthened invariant holds in every reachable state.
THEOREM Invariance == ASSUME OneRegistry PROVE LockSpec => []IInv
<1>1. IInv /\ [LockNext]_lockVars => IInv'
  <2> SUFFICES ASSUME IInv, [LockNext]_lockVars PROVE IInv'
    OBVIOUS
  <2>1. CASE LockNext
    BY <2>1, TypeStep, LeaseStep, CheckedStep, SMTT(30), ZenonT(30) DEF IInv
  <2>2. CASE UNCHANGED lockVars
    BY <2>2 DEF lockVars, counters, IInv, TypeOK, LeaseOnDisk, CheckedStill, Holding,
                InMutex, Owns
  <2>3. QED
    BY <2>1, <2>2
<1>2. QED
  BY <1>1, InitIInv, PTL DEF LockSpec

(***************************************************************************)
(* For every number of agents on one registry: the record file only ever   *)
(* holds what FileLockRegistry writes to it, and every thread is at one of *)
(* the steps of acquire, release, renew or owner_of.                       *)
(***************************************************************************)
THEOREM TypeCorrect == ASSUME OneRegistry PROVE LockSpec => []TypeOK
<1>1. IInv => TypeOK
  BY SMTT(30), ZenonT(30) DEF IInv
<1>2. QED
  BY <1>1, Invariance, PTL

(***************************************************************************)
(* For every number of agents on one registry: two of them never both hold *)
(* an unexpired lease (FileLockRegistry.acquire, release, renew, owner_of  *)
(* and _remove_if_unchanged in any interleaving, with crashes).            *)
(***************************************************************************)
THEOREM ExclusiveAlways == ASSUME OneRegistry PROVE LockSpec => []Exclusive
<1>1. IInv => Exclusive
  BY DEF IInv, LeaseOnDisk, Exclusive
<1>2. QED
  BY <1>1, Invariance, PTL

(***************************************************************************)
(* For every number of agents on one registry: no step but the owner's own *)
(* release or renewal changes the record of an unexpired lease.            *)
(***************************************************************************)
THEOREM LeaseRespectedAlways == ASSUME OneRegistry PROVE LockSpec => LeaseRespected
<1> DEFINE Respect ==
      IsInfo(record) /\ ~Expired(record, now) /\ record' # record =>
        pc[record.owner] \in {"drop", "replace"} /\ pc'[record.owner] # pc[record.owner]
<1>1. IInv /\ LockNext => Respect
  <2> SUFFICES ASSUME IInv, LockNext, IsInfo(record), ~Expired(record, now), record' # record
               PROVE  pc[record.owner] \in {"drop", "replace"}
                        /\ pc'[record.owner] # pc[record.owner]
    OBVIOUS
  <2>1. ~Tick
    BY SMTT(30), ZenonT(30) DEF Tick
  <2>2. ASSUME NEW p \in Procs PROVE ~(Acquire(p) \/ OwnerOf(p) \/ Renew(p) \/ Crash(p) \/ Restart(p))
    BY DEF Acquire, OwnerOf, Renew, Crash, Restart
  <2>3. ASSUME NEW p \in Procs PROVE ~(TryCreate(p) \/ WriteRecord(p) \/ WriteFails(p))
    <3>1. record # Absent /\ pc[p] # "write"
      BY RecordShapes, SMTT(30), ZenonT(30) DEF IInv, CheckedStill
    <3>2. QED
      BY <3>1, SMTT(30), ZenonT(30) DEF TryCreate, WriteRecord, WriteFails
  <2>4. ASSUME NEW p \in Procs PROVE ~(ReadOwn(p) \/ ReadExpired(p) \/ ReadBusy(p))
    BY DEF ReadOwn, ReadExpired, ReadBusy
  <2>5. ASSUME NEW p \in Procs PROVE ~(CheckUnchanged(p) \/ UnlinkExpired(p) \/ Release(p))
    <3>1. pc[p] # "unlink"
      BY DEF IInv, CheckedStill
    <3>2. ~UnlinkExpired(p)
      BY <3>1, SMTT(30), ZenonT(30) DEF UnlinkExpired
    <3>3. ~CheckUnchanged(p) /\ ~Release(p)
      BY DEF CheckUnchanged, Release
    <3>4. QED
      BY <3>2, <3>3, SMTT(30), ZenonT(30)
  <2>6. PICK p \in Procs : UnlinkOwn(p) \/ ReplaceRecord(p)
    BY <2>1, <2>2, <2>3, <2>4, <2>5, SMTT(30), ZenonT(30) DEF LockNext, Proceed
  <2>7. record.owner = p
    BY <2>6, SMTT(30), ZenonT(30) DEF UnlinkOwn, ReplaceRecord, Owns, IInv, CheckedStill
  <2>8. QED
    BY <2>6, <2>7, SMTT(30), ZenonT(30) DEF IInv, UnlinkOwn, ReplaceRecord, Goto, TypeOK
<1>2. IInv /\ [LockNext]_lockVars => [Respect]_lockVars
  BY <1>1
<1>3. QED
  BY <1>2, Invariance, PTL DEF LockSpec, LeaseRespected

-----------------------------------------------------------------------------
(***************************************************************************)
(* Edits and patches                                                       *)
(***************************************************************************)

\* Every step of the tools is a step of the registry or leaves its state alone.
LEMMA EditStepLocks == [EditNext]_<<lockVars, editVars>> => [LockNext]_lockVars
<1> SUFFICES ASSUME [EditNext]_<<lockVars, editVars>> PROVE LockNext \/ UNCHANGED lockVars
  OBVIOUS
<1>1. CASE UNCHANGED <<lockVars, editVars>>
  BY <1>1
<1>2. CASE Tick
  BY <1>2, SMTT(30), ZenonT(30) DEF LockNext
<1>3. CASE Restore \/ StartPatch \/ Patching
  BY <1>3, SMTT(30), ZenonT(30) DEF Restore, StartPatch, Patching, DryRun, WriteNext, WriteNextFails, RollbackNext, PatchReturns
<1>4. ASSUME NEW p \in Procs, Call(p)
      PROVE  UNCHANGED lockVars
  BY <1>4, Zenon DEF Call, Create, Edit, UndoEdit, Hold, StartJob
<1>5. ASSUME NEW p \in Procs, Continue(p)
      PROVE  LockNext \/ UNCHANGED lockVars
  <2>1. CASE TakeLease(p) \/ Locking(p)
    BY <2>1, SMTT(30), ZenonT(30) DEF TakeLease, Locking, LockNext, Proceed
  <2>2. CASE Snapshot(p) \/ Write(p) \/ WriteError(p)
    BY <2>2, SMTT(30), ZenonT(30) DEF Snapshot, Write, WriteError
  <2>3. CASE ReleaseLease(p) \/ Released(p) \/ Renewed(p)
    BY <2>3, Zenon DEF ReleaseLease, Released, Renewed, LockNext, Proceed
  <2>4. QED
    BY <1>5, <2>1, <2>2, <2>3 DEF Continue
<1>6. ASSUME NEW p \in Procs, RenewLease(p) \/ LookUpOwner(p) \/ Die(p) \/ Restart(p)
      PROVE  LockNext
  BY <1>6 DEF RenewLease, LookUpOwner, Die, LockNext, Proceed
<1>7. QED
  BY <1>1, <1>2, <1>3, <1>4, <1>5, <1>6, SMTT(30), ZenonT(30) DEF EditNext

(***************************************************************************)
(* FileTool uses the registry as its callers may: what the tools do to the *)
(* leases, with failing writes, lost leases, deaths and a patch tool that  *)
(* takes none, is a behaviour of FileLockRegistry.                         *)
(***************************************************************************)
THEOREM EditsUseLeases == EditSpec => LockSpec
<1>1. EditInit => LockInit
  BY DEF EditInit
<1>2. QED
  BY <1>1, EditStepLocks, PTL DEF EditSpec, LockSpec

(***************************************************************************)
(* For every number of agents on one registry, whatever they edit: two of  *)
(* them are never both inside _write_locked with a lease that has not      *)
(* expired.                                                                *)
(***************************************************************************)
THEOREM EditsExclusive == ASSUME OneRegistry PROVE EditSpec => []Exclusive
BY EditsUseLeases, ExclusiveAlways, PTL

-----------------------------------------------------------------------------
(***************************************************************************)
(* What makes PreImageKept inductive: a call that is about to write an     *)
(* edit has committed what it read, and no commit is ever taken away.      *)
(***************************************************************************)
JobShape(j) ==
  j = [op |-> j.op, step |-> j.step, base |-> j.base, text |-> j.text]

KeptInv ==
  /\ DOMAIN job = Procs /\ job = [p \in Procs |-> job[p]]
  /\ \A p \in Procs : JobShape(job[p])
  /\ \E S : snaps \in Seq(S)
  /\ \A p \in Procs : AtStep(p, "write") => job[p].base \in Range(snaps)

\* A call that begins or ends leaves the other calls alone.
LEMMA NewJobs ==
  ASSUME KeptInv, NEW p \in Procs, NEW j, JobShape(j), job' = [job EXCEPT ![p] = j]
  PROVE  /\ DOMAIN job' = Procs /\ job' = [q \in Procs |-> job'[q]]
         /\ \A q \in Procs : JobShape(job'[q])
         /\ \A q \in Procs : job'[q] = IF q = p THEN j ELSE job[q]
BY DEF KeptInv

\* A call that goes on to its next step keeps what it read and what it is.
LEMMA NextSteps ==
  ASSUME KeptInv, NEW p \in Procs, NEW step, ToStep(p, step)
  PROVE  /\ DOMAIN job' = Procs /\ job' = [q \in Procs |-> job'[q]]
         /\ \A q \in Procs : JobShape(job'[q])
         /\ \A q \in Procs : /\ q # p => job'[q] = job[q]
                             /\ job'[q].base = job[q].base /\ job'[q].op = job[q].op
         /\ job'[p].step = step
<1> DEFINE j == [job[p] EXCEPT !.step = step]
<1>1. JobShape(j) /\ j.base = job[p].base /\ j.op = job[p].op /\ j.step = step
  BY DEF KeptInv, JobShape
<1>2. job' = [job EXCEPT ![p] = j]
  BY DEF ToStep
<1> HIDE DEF j
<1>3. QED
  BY <1>1, <1>2, NewJobs, Zenon

\* A commit is added at the end.
LEMMA CommitKeeps ==
  ASSUME NEW S, NEW s \in Seq(S), NEW c
  PROVE  /\ Append(s, c) \in Seq(S \cup {c})
         /\ c \in Range(Append(s, c)) /\ Range(s) \subseteq Range(Append(s, c))
<1>1. s \in Seq(S \cup {c})
  OBVIOUS
<1>2. Append(s, c) \in Seq(S \cup {c})
  BY <1>1
<1>3. Len(Append(s, c)) = Len(s) + 1 /\ Append(s, c)[Len(s) + 1] = c
      /\ \A i \in 1..Len(s) : Append(s, c)[i] = s[i]
  BY <1>1
<1>4. DOMAIN s = 1..Len(s) /\ DOMAIN Append(s, c) = 1..(Len(s) + 1) /\ Len(s) \in Nat
  BY <1>1, <1>2, <1>3
<1>5. Len(s) + 1 \in 1..(Len(s) + 1) /\ 1..Len(s) \subseteq 1..(Len(s) + 1)
  BY <1>4
<1>6. QED
  BY <1>2, <1>3, <1>4, <1>5, Zenon DEF Range

\* An element of the same kind is all that is added.
LEMMA CommitAdds ==
  ASSUME NEW S, NEW s \in Seq(S), NEW c \in S
  PROVE  Append(s, c) \in Seq(S) /\ Range(Append(s, c)) = Range(s) \cup {c}
<1>1. Append(s, c) \in Seq(S)
  OBVIOUS
<1>2. Len(Append(s, c)) = Len(s) + 1 /\ Append(s, c)[Len(s) + 1] = c
      /\ \A i \in 1..Len(s) : Append(s, c)[i] = s[i]
  OBVIOUS
<1>3. DOMAIN s = 1..Len(s) /\ DOMAIN Append(s, c) = 1..(Len(s) + 1) /\ Len(s) \in Nat
  BY <1>1, <1>2
<1>4. 1..(Len(s) + 1) = (1..Len(s)) \cup {Len(s) + 1}
  BY <1>3
<1>5. QED
  <2>1. ASSUME NEW y \in Range(Append(s, c)) PROVE y \in Range(s) \cup {c}
    <3>1. PICK i \in 1..(Len(s) + 1) : y = Append(s, c)[i]
      BY <1>3 DEF Range
    <3>2. QED
      BY <1>2, <1>3, <1>4, <3>1, SMTT(30), ZenonT(30) DEF Range
  <2>2. Range(s) \cup {c} \subseteq Range(Append(s, c))
    BY CommitKeeps
  <2>3. QED
    BY <1>1, <2>1, <2>2, SMTT(30), ZenonT(30)

\* What is left of KeptInv' once the calls under way are known to have their shape.
LEMMA KeptWhen ==
  ASSUME KeptInv, DOMAIN job' = Procs /\ job' = [q \in Procs |-> job'[q]],
         \A q \in Procs : JobShape(job'[q]), snaps' = snaps,
         \A q \in Procs : job'[q].step = "write" => job[q].step = "write" /\ job'[q].base = job[q].base
  PROVE  KeptInv'
BY DEF KeptInv, AtStep

\* A call that begins, ends or goes anywhere but to its write keeps KeptInv.
LEMMA KeptEnd ==
  ASSUME KeptInv, NEW p \in Procs, NEW j, JobShape(j), j.step # "write",
         job' = [job EXCEPT ![p] = j], snaps' = snaps
  PROVE  KeptInv'
BY NewJobs, KeptWhen, ZenonT(30)

\* So does a step that is no step of a call.
LEMMA KeptSame ==
  ASSUME KeptInv, job' = job, snaps' = snaps
  PROVE  KeptInv'
BY KeptWhen DEF KeptInv

\* An agent between two calls is not about to write.
LEMMA NoJobShape == JobShape(NoJob) /\ NoJob.step # "write"
BY SMTT(30), ZenonT(30) DEF JobShape, NoJob

\* Every step of the tools keeps KeptInv: only snapshot() leads to the write.
LEMMA KeptStep == KeptInv /\ [EditNext]_<<lockVars, editVars>> => KeptInv'
<1> SUFFICES ASSUME KeptInv, [EditNext]_<<lockVars, editVars>> PROVE KeptInv'
  OBVIOUS
<1>1. CASE UNCHANGED editVars
  BY <1>1, KeptSame, SMTT(30), ZenonT(30) DEF editVars
<1>2. CASE Restore \/ StartPatch \/ Patching
  BY <1>2, KeptSame, Zenon
     DEF Restore, StartPatch, Patching, DryRun, WriteNext, WriteNextFails, RollbackNext, PatchReturns
<1>3. ASSUME NEW p \in Procs, Call(p) PROVE KeptInv'
  <2>1. \A op, base, text : JobShape(Intends(op, base, text)) /\ Intends(op, base, text).step = "ready"
    BY SMTT(30), ZenonT(30) DEF JobShape, Intends
  <2>2. \E op, base, text : StartJob(p, Intends(op, base, text))
    BY <1>3 DEF Call, Create, Edit, UndoEdit, Hold
  <2>3. PICK op, base, text : StartJob(p, Intends(op, base, text))
    BY <2>2
  <2>4. QED
    BY <2>1, <2>3, KeptEnd, Zenon DEF StartJob
<1>4. ASSUME NEW p \in Procs, snaps' = snaps, EndJob(p) \/ UNCHANGED job PROVE KeptInv'
  BY <1>4, KeptEnd, KeptSame, NoJobShape, SMTT(30), ZenonT(30) DEF EndJob
<1>5. ASSUME NEW p \in Procs, Locking(p) \/ ReleaseLease(p) \/ Released(p) \/ RenewLease(p)
      PROVE  KeptInv'
  BY <1>4, <1>5, Zenon DEF Locking, ReleaseLease, Released, RenewLease
<1>6. ASSUME NEW p \in Procs, snaps' = snaps, NEW step, step # "write", ToStep(p, step) PROVE KeptInv'
  BY <1>6, NextSteps, KeptWhen, SMTT(30), ZenonT(30)
<1>7. ASSUME NEW p \in Procs, TakeLease(p) \/ Write(p) \/ WriteError(p) PROVE KeptInv'
  BY <1>6, <1>7, SMTT(30), ZenonT(30) DEF TakeLease, Write, WriteError
<1>8. ASSUME NEW p \in Procs, Snapshot(p) PROVE KeptInv'
  <2>1. CASE UNCHANGED snaps /\ ToStep(p, "failed")
    BY <1>6, <2>1, SMTT(30), ZenonT(30)
  <2>2. CASE snaps' = Append(snaps, job[p].base) /\ ToStep(p, "write")
    <3>1. PICK S : snaps \in Seq(S)
      BY DEF KeptInv
    <3>2. /\ snaps' \in Seq(S \cup {job[p].base})
          /\ job[p].base \in Range(snaps') /\ Range(snaps) \subseteq Range(snaps')
      BY <2>2, <3>1, CommitKeeps, ZenonT(30)
    <3>3. \A q \in Procs : job'[q].step = "write" => job'[q].base \in Range(snaps')
      BY <2>2, <3>2, NextSteps, SMTT(30), ZenonT(30) DEF KeptInv, AtStep
    <3>4. QED
      BY <2>2, <3>2, <3>3, NextSteps DEF KeptInv, AtStep
  <2>3. QED
    BY <1>8, <2>1, <2>2 DEF Snapshot, Committed
<1>9. ASSUME NEW p \in Procs, Die(p) PROVE KeptInv'
  BY <1>9, KeptWhen, NoJobShape DEF Die, KeptInv
<1>10. QED
  BY <1>1, <1>2, <1>3, <1>5, <1>7, <1>8, <1>9 DEF EditNext, Continue, Renewed, LookUpOwner, lockVars

(***************************************************************************)
(* For every number of agents, calls and files' contents: what an edit of  *)
(* FileTool writes over, in full or up to a failure, is a commit of the    *)
(* snapshot repository, however the steps of other calls, deaths, lost     *)
(* leases and patches fall.                                                *)
(***************************************************************************)
THEOREM PreImagesKept == EditSpec => PreImageKept
<1>1. EditInit => KeptInv
  <2> SUFFICES ASSUME EditInit PROVE KeptInv
    OBVIOUS
  <2>1. job = [p \in Procs |-> NoJob] /\ snaps = <<>>
    BY DEF EditInit
  <2>2. <<>> \in Seq(Nat)
    OBVIOUS
  <2>3. QED
    BY <2>1, <2>2, NoJobShape DEF KeptInv, AtStep
<1>2. KeptInv /\ [EditNext]_<<lockVars, editVars>> =>
        [\A p \in Procs :
           /\ job[p].op = "edit" /\ AtStep(p, "write") /\ job'[p].step \in {"written", "failed"}
           /\ file'["f"] # file["f"] /\ file["f"] = job[p].base
           => file["f"] \in Range(snaps')]_<<lockVars, editVars>>
  <2> SUFFICES ASSUME KeptInv, EditNext, NEW p \in Procs, AtStep(p, "write"), file["f"] = job[p].base,
                      file'["f"] # file["f"]
               PROVE  file["f"] \in Range(snaps')
    OBVIOUS
  <2>1. file["f"] \in Range(snaps)
    BY SMTT(30), ZenonT(30) DEF KeptInv
  <2>2. snaps' = snaps
    <3>1. CASE UNCHANGED editVars
      BY <3>1, SMTT(30), ZenonT(30) DEF editVars
    <3>2. CASE Restore \/ StartPatch \/ Patching
      BY <3>2, ZenonT(30)
         DEF Restore, StartPatch, Patching, DryRun, WriteNext, WriteNextFails, RollbackNext, PatchReturns
    <3>3. ASSUME NEW q \in Procs, Call(q) PROVE snaps' = snaps
      BY <3>3, ZenonT(30) DEF Call, Create, Edit, UndoEdit, Hold, StartJob
    <3>4. ASSUME NEW q \in Procs, Continue(q) \/ RenewLease(q) \/ LookUpOwner(q) \/ Die(q)
          PROVE  snaps' = snaps
      <4>1. ~Snapshot(q)
        BY ZenonT(30) DEF Snapshot, fileVars
      <4>2. QED
        BY <3>4, <4>1, SMTT(30), ZenonT(30) DEF Continue, TakeLease, Locking, Write, WriteError, ReleaseLease, Released,
                          Renewed, RenewLease, LookUpOwner, Die, editVars
    <3>5. QED
      BY <3>1, <3>2, <3>3, <3>4, SMTT(30), ZenonT(30) DEF EditNext
  <2>3. QED
    BY <2>1, <2>2, SMTT(30), ZenonT(30)
<1>3. QED
  BY <1>1, <1>2, KeptStep, PTL DEF EditSpec, PreImageKept

-----------------------------------------------------------------------------
(***************************************************************************)
(* What makes FailedPatchUndone inductive: from the dry run to the return  *)
(* a file nobody else wrote holds what the patch read, or what it wrote if *)
(* it got that far; the paths written are among those read.  In a rollback *)
(* what is not still to be undone holds what was read.                     *)
(***************************************************************************)
PatchSteps == {"idle", "dry", "write", "aborted", "applied", "rollback", "failed"}

PatchShape ==
  /\ DOMAIN file = Files /\ file = [x \in Files |-> file[x]]
  /\ patch \in Seq(FilePatch) /\ pstep \in PatchSteps /\ dry \in Nat
  /\ DOMAIN originals = DOMAIN target /\ DOMAIN target \subseteq Files
  /\ written \in Seq(Files) /\ Range(written) \subseteq DOMAIN target
  /\ pstep \in {"idle", "dry", "aborted"} => written = <<>>
  /\ pstep \notin {"rollback", "failed"} => torn = {}
  /\ pstep = "failed" => written = <<>>
  /\ pstep = "rollback" => written # <<>>
  /\ pstep = "idle" => DOMAIN target = {}
  /\ pstep = "applied" => Range(written) = DOMAIN target

InBetween ==
  \A x \in DOMAIN originals \ (foreign \cup torn) :
    /\ pstep \in {"dry", "aborted"} => file[x] = originals[x]
    /\ pstep \in {"write", "applied"} =>
         file[x] = IF x \in Range(written) THEN target[x] ELSE originals[x]
    /\ pstep \in {"rollback", "failed"} => x \in Range(written) \/ file[x] = originals[x]

PatchInv == PatchShape /\ InBetween

\* An applied patch wrote what the dry run computed, and all of it.
WrittenAsTried ==
  pstep = "applied" => \A x \in DOMAIN target \ foreign : file[x] = target[x]

\* An agent's write takes the file out of what the patch answers for.
LEMMA WriteToKeeps ==
  ASSUME PatchInv, NEW c, WriteTo("f", c), UNCHANGED patchVars
  PROVE  PatchInv'
<1>1. PatchShape'
  BY ZenonT(30) DEF PatchInv, PatchShape, WriteTo, patchVars, Files
<1>2. \A x \in DOMAIN originals \ foreign' : file'[x] = file[x] /\ x \notin foreign
  BY DEF PatchInv, PatchShape, WriteTo, Files
<1>3. QED
  BY <1>1, <1>2, Zenon DEF PatchInv, InBetween, patchVars

\* A step that touches no file and no patch keeps PatchInv.
LEMMA PatchSame ==
  ASSUME PatchInv, UNCHANGED <<file, foreign>>, UNCHANGED patchVars
  PROVE  PatchInv'
BY DEF PatchInv, PatchShape, InBetween, patchVars

\* _apply_file_patch on a copy: what is read is remembered as it is in the file.
LEMMA DryRunKeeps ==
  ASSUME PatchInv, DryRun
  PROVE  PatchInv'
<1> DEFINE x       == patch[dry + 1].path
           content == IF x \in DOMAIN target THEN target[x] ELSE file[x]
           result  == ApplyFilePatch(content, patch[dry + 1].hunks)
<1>1. pstep = "dry" /\ dry < Len(patch) /\ UNCHANGED <<file, foreign, patch, written, torn>>
  BY Zenon DEF DryRun, fileVars
<1>2. x \in Files /\ dry + 1 \in Nat
  <2>1. dry \in Nat /\ patch \in Seq(FilePatch)
    BY DEF PatchInv, PatchShape
  <2>2. patch[dry + 1] \in FilePatch
    BY <1>1, <2>1, SMTT(30), ZenonT(30)
  <2>3. QED
    BY <2>1, <2>2, SMTT(30), ZenonT(30) DEF FilePatch
<1>3. CASE pstep' = "aborted" /\ UNCHANGED <<dry, originals, target>>
  BY <1>1, <1>3, SMTT(30), ZenonT(30) DEF PatchInv, PatchShape, InBetween, PatchSteps
<1>4. CASE /\ originals' = (IF x \in DOMAIN target THEN originals ELSE Put(originals, x, content))
           /\ target' = Put(target, x, result.lines)
           /\ dry' = dry + 1
           /\ pstep' = (IF dry' = Len(patch) THEN "write" ELSE "dry")
  <2> HIDE DEF result
  <2>1. /\ DOMAIN originals' = DOMAIN originals \cup {x}
        /\ \A y \in DOMAIN originals : originals'[y] = originals[y]
        /\ x \notin DOMAIN originals => originals'[x] = file[x]
    BY <1>4 DEF PatchInv, PatchShape, Put
  <2>2. DOMAIN target' = DOMAIN target \cup {x}
    BY <1>4 DEF Put
  <2>3. pstep' \in {"write", "dry"}
    BY <1>4, SMTT(30), ZenonT(30)
  <2>4. PatchShape'
    BY <1>1, <1>2, <1>4, <2>1, <2>2, <2>3, SMTT(30), ZenonT(30) DEF PatchInv, PatchShape, PatchSteps
  <2>5. torn = {} /\ \A y \in DOMAIN originals' \ foreign : file[y] = originals'[y]
    <3>1. torn = {}
      BY <1>1 DEF PatchInv, PatchShape
    <3>2. \A y \in DOMAIN originals \ foreign : file[y] = originals[y]
      BY <1>1, <3>1, ZenonT(30) DEF PatchInv, InBetween
    <3>3. QED
      BY <2>1, <3>1, <3>2, ZenonT(30)
  <2>6. Range(written) = {}
    BY <1>1, SMTT(30), ZenonT(30) DEF PatchInv, PatchShape, Range
  <2>7. QED
    BY <1>1, <2>3, <2>4, <2>5, <2>6, SMTT(30), ZenonT(30) DEF PatchInv, InBetween
<1>5. QED
  BY <1>3, <1>4, Zenon DEF DryRun

\* The next file is written; it is the last one when no other was pending.
LEMMA WriteNextKeeps ==
  ASSUME PatchInv, WriteNext
  PROVE  PatchInv'
<1>1. PICK x \in Files :
        /\ IsNext(x)
        /\ file' = [file EXCEPT ![x] = target[x]]
        /\ written' = Append(written, x)
        /\ pstep' = IF Pending = {x} THEN "applied" ELSE "write"
  BY Zenon DEF WriteNext
<1>2. pstep = "write" /\ UNCHANGED <<foreign, patch, dry, originals, target, torn>>
  BY DEF WriteNext
<1>3. x \in DOMAIN target
  BY <1>1, Zenon DEF IsNext, Pending
<1>4. written' \in Seq(Files) /\ Range(written') = Range(written) \cup {x}
  BY <1>1, <1>3, CommitAdds DEF PatchInv, PatchShape
<1>5. \A y \in Files : file'[y] = IF y = x THEN target[x] ELSE file[y]
  BY <1>1 DEF PatchInv, PatchShape
<1>6. PatchShape'
  BY <1>1, <1>2, <1>3, <1>4, ZenonT(30) DEF PatchInv, PatchShape, Pending, PatchSteps
<1>7. QED
  BY <1>1, <1>2, <1>3, <1>4, <1>5, <1>6, ZenonT(30) DEF PatchInv, PatchShape, InBetween

\* A write that fails may damage its own file, and no other.
LEMMA WriteNextFailsKeeps ==
  ASSUME PatchInv, WriteNextFails
  PROVE  PatchInv'
<1>1. PICK x \in Files : /\ IsNext(x) /\ torn' = {x}
                         /\ \E left : file' = [file EXCEPT ![x] = left]
  BY Zenon DEF WriteNextFails
<1>2. /\ pstep = "write" /\ UNCHANGED <<foreign, patch, dry, originals, target, written>>
      /\ pstep' = IF written = <<>> THEN "failed" ELSE "rollback"
  BY DEF WriteNextFails, ToUndo
<1>3. \A y \in Files : y # x => file'[y] = file[y]
  BY <1>1 DEF PatchInv, PatchShape
<1>4. torn = {}
  BY <1>2 DEF PatchInv, PatchShape
<1>5. PatchShape'
  BY <1>1, <1>2, ZenonT(30) DEF PatchInv, PatchShape, PatchSteps
<1>6. \A y \in DOMAIN originals \ (foreign \cup torn') : y \in Range(written) \/ file'[y] = originals[y]
  BY <1>1, <1>2, <1>3, <1>4, ZenonT(30) DEF PatchInv, PatchShape, InBetween
<1>7. QED
  BY <1>2, <1>5, <1>6, SMTT(30), ZenonT(30) DEF PatchInv, InBetween

\* All but the last of the paths.
LEMMA Undone ==
  ASSUME NEW s \in Seq(Files), s # <<>>
  PROVE  LET front == SubSeq(s, 1, Len(s) - 1)
         IN  /\ s[Len(s)] \in Files /\ s[Len(s)] \in Range(s)
             /\ front \in Seq(Files)
             /\ Range(s) = Range(front) \cup {s[Len(s)]}
             /\ front = <<>> <=> Len(s) = 1
<1> DEFINE front == SubSeq(s, 1, Len(s) - 1)
<1>1. Len(s) \in Nat /\ Len(s) >= 1 /\ DOMAIN s = 1..Len(s)
  BY SMTT(30)
<1>2. s[Len(s)] \in Files
  BY <1>1, SMTT(30)
<1>3. front \in Seq(Files) /\ Len(front) = Len(s) - 1 /\ \A k \in 1..(Len(s) - 1) : front[k] = s[k]
  BY <1>1, SMTT(30)
<1>4. DOMAIN front = 1..(Len(s) - 1)
  BY <1>1, <1>3, SMTT(30)
<1> HIDE DEF front
<1>5. front = <<>> <=> Len(s) = 1
  <2>1. front = <<>> <=> Len(front) = 0
    BY <1>3, SMTT(30)
  <2>2. QED
    BY <1>1, <1>3, <2>1, SMTT(30)
<1>6. \A k \in 1..Len(s) : k = Len(s) \/ k \in 1..(Len(s) - 1)
  <2>1. ASSUME NEW n \in Nat, NEW k \in 1..n PROVE k = n \/ k \in 1..(n - 1)
    BY <2>1, SMTT(30)
  <2>2. QED
    BY <1>1, <2>1, ZenonT(30)
<1>7. Len(s) \in 1..Len(s) /\ \A k \in 1..(Len(s) - 1) : k \in 1..Len(s)
  BY <1>1, SMTT(30)
<1>8. Range(s) = Range(front) \cup {s[Len(s)]}
  BY <1>1, <1>3, <1>4, <1>6, <1>7, ZenonT(30) DEF Range
<1>9. QED
  BY <1>2, <1>3, <1>5, <1>8, ZenonT(30) DEF front

\* One file is rolled back, or this fails and the file is given up.
LEMMA RollbackKeeps ==
  ASSUME PatchInv, RollbackNext
  PROVE  PatchInv'
<1> DEFINE x == written[Len(written)]
<1>1. PICK left :
        /\ file' = [file EXCEPT ![x] = left]
        /\ \/ left = originals[x] /\ torn' = torn
           \/ torn' = torn \cup {x}
  BY Zenon DEF RollbackNext
<1>2. /\ pstep = "rollback" /\ UNCHANGED <<foreign, patch, dry, originals, target>>
      /\ written' = SubSeq(written, 1, Len(written) - 1)
      /\ pstep' = IF Len(written) = 1 THEN "failed" ELSE "rollback"
  BY DEF RollbackNext
<1>3. /\ x \in Files /\ x \in Range(written) /\ written' \in Seq(Files)
      /\ Range(written) = Range(written') \cup {x}
      /\ written' = <<>> <=> Len(written) = 1
  BY <1>2, Undone, Zenon DEF PatchInv, PatchShape
<1> HIDE DEF x
<1>4. \A y \in Files : file'[y] = IF y = x THEN left ELSE file[y]
  BY <1>1 DEF PatchInv, PatchShape
<1>5. DOMAIN file' = Files /\ file' = [y \in Files |-> file'[y]]
  BY <1>1, ZenonT(30) DEF PatchInv, PatchShape
<1>6. PatchShape'
  BY <1>2, <1>3, <1>5, ZenonT(30) DEF PatchInv, PatchShape, PatchSteps
<1>7. \A y \in DOMAIN originals \ (foreign \cup torn') : y \in Range(written') \/ file'[y] = originals[y]
  BY <1>1, <1>2, <1>3, <1>4, ZenonT(30) DEF PatchInv, PatchShape, InBetween
<1>8. QED
  BY <1>2, <1>6, <1>7, SMTT(30), ZenonT(30) DEF PatchInv, InBetween

\* Every step of the patch tool, and of the agents beside it, keeps PatchInv.
LEMMA PatchStep == PatchInv /\ [EditNext]_<<lockVars, editVars>> => PatchInv'
<1> SUFFICES ASSUME PatchInv, [EditNext]_<<lockVars, editVars>> PROVE PatchInv'
  OBVIOUS
<1>1. CASE UNCHANGED editVars
  BY <1>1, PatchSame, SMTT(30), ZenonT(30) DEF editVars, fileVars
<1>2. CASE Restore
  BY <1>2, WriteToKeeps, SMTT(30), ZenonT(30) DEF Restore
<1>3. CASE StartPatch
  <2>1. patch' \in Seq(FilePatch) /\ pstep = "idle" /\ pstep' = "dry" /\ dry' = 0
    BY <1>3, EditAssumption, SMTT(30), ZenonT(30) DEF StartPatch
  <2>2. UNCHANGED <<file, foreign, originals, target, written, torn>>
    BY <1>3, SMTT(30), ZenonT(30) DEF StartPatch, fileVars
  <2>3. QED
    BY <2>1, <2>2, SMTT(30), ZenonT(30) DEF PatchInv, PatchShape, InBetween, PatchSteps
<1>4. CASE WriteNextFails
  BY <1>4, WriteNextFailsKeeps
<1>5. CASE PatchReturns
  <2>1. /\ pstep' = "idle" /\ patch' = <<>> /\ dry' = 0 /\ originals' = <<>> /\ target' = <<>>
        /\ written' = <<>> /\ torn' = {} /\ file' = file
    BY <1>5 DEF PatchReturns
  <2>2. DOMAIN <<>> = {} /\ Range(<<>>) = {} /\ <<>> \in Seq(FilePatch) /\ <<>> \in Seq(Files)
    BY SMTT(30), ZenonT(30) DEF Range
  <2>3. QED
    BY <2>1, <2>2 DEF PatchInv, PatchShape, InBetween, PatchSteps
<1>6. ASSUME NEW p \in Procs, Write(p) \/ WriteError(p) PROVE PatchInv'
  <2>1. UNCHANGED patchVars /\ (UNCHANGED fileVars \/ \E c : WriteTo("f", c))
    BY <1>6, ZenonT(30) DEF Write, WriteError
  <2>2. QED
    BY <2>1, WriteToKeeps, PatchSame, ZenonT(30) DEF fileVars
<1>7. ASSUME NEW p \in Procs, Call(p) PROVE PatchInv'
  BY <1>7, PatchSame, SMTT(30), ZenonT(30) DEF Call, Create, Edit, UndoEdit, Hold, StartJob, fileVars
<1>8. ASSUME NEW p \in Procs, \/ TakeLease(p) \/ Locking(p) \/ Snapshot(p)
                              \/ ReleaseLease(p) \/ Released(p) \/ RenewLease(p) \/ Die(p)
      PROVE PatchInv'
  BY <1>8, PatchSame, SMTT(30), ZenonT(30) DEF TakeLease, Locking, Snapshot, ReleaseLease, Released,
                         RenewLease, Die, fileVars
<1>9. ASSUME NEW p \in Procs, Renewed(p) \/ LookUpOwner(p) PROVE PatchInv'
  BY <1>1, <1>9 DEF Renewed, LookUpOwner
<1>10. QED
  BY <1>1, <1>2, <1>3, <1>4, <1>5, <1>6, <1>7, <1>8, <1>9, DryRunKeeps, WriteNextKeeps, RollbackKeeps, SMTT(30), ZenonT(30)
     DEF EditNext, Continue, Patching

(***************************************************************************)
(* For every patch, every content and every number of agents beside it:    *)
(* ApplyPatchTool leaves a file nobody else wrote as it was when a hunk    *)
(* does not fit or a write fails, unless the write that failed was to that *)
(* very file, and an applied patch wrote all that the dry run computed     *)
(* ("apply it or leave the workspace unchanged", patch.py:113).            *)
(***************************************************************************)
THEOREM PatchesAllOrNothing == EditSpec => [](FailedPatchUndone /\ WrittenAsTried)
<1>1. EditInit => PatchInv
  <2> SUFFICES ASSUME EditInit PROVE PatchInv
    OBVIOUS
  <2>1. /\ pstep = "idle" /\ patch = <<>> /\ dry = 0 /\ originals = <<>> /\ target = <<>>
        /\ written = <<>> /\ torn = {} /\ file = [x \in Files |-> IF x = "f" THEN workload.start ELSE <<1, 2>>]
    BY DEF EditInit
  <2>2. DOMAIN <<>> = {} /\ Range(<<>>) = {} /\ <<>> \in Seq(FilePatch) /\ <<>> \in Seq(Files)
    BY DEF Range
  <2>3. DOMAIN file = Files /\ file = [x \in Files |-> file[x]]
    BY <2>1
  <2>4. QED
    BY <2>1, <2>2, <2>3, ZenonT(30) DEF PatchInv, PatchShape, InBetween, PatchSteps
<1>2. PatchInv => FailedPatchUndone /\ WrittenAsTried
  <2> SUFFICES ASSUME PatchInv PROVE FailedPatchUndone /\ WrittenAsTried
    OBVIOUS
  <2>1. Range(<<>>) = {}
    BY SMTT(30), ZenonT(30) DEF Range
  <2>2. FailedPatchUndone
    BY <2>1, ZenonT(30) DEF PatchInv, PatchShape, InBetween, FailedPatchUndone
  <2>3. WrittenAsTried
    BY ZenonT(30) DEF PatchInv, PatchShape, InBetween, WrittenAsTried
  <2>4. QED
    BY <2>2, <2>3
<1>3. QED
  BY <1>1, <1>2, PatchStep, PTL DEF EditSpec

-----------------------------------------------------------------------------
(***************************************************************************)
(* The tree                                                                *)
(***************************************************************************)

Charge == [payer : Agents, key : Keys]

BudgetInv ==
  /\ bill \in [Agents -> Seq(Charge)]
  /\ used \in Nat /\ perAgent \in [Agents -> Nat]
  /\ BudgetHeld

\* Sub-agents are born in the order of their numbers, so that a parent has a
\* smaller one; only a pool has specs in a queue, and a pool's root waits.
TreeTypes ==
  /\ setup \in Setups
  /\ DOMAIN status = Agents /\ parent \in [Agents -> Agents]
  /\ abandoned \subseteq Subagents

TreeOrdered ==
  /\ \A c, d \in Subagents : c < d /\ status[c] = "unborn" => status[d] = "unborn"
  /\ \A c \in Subagents : status[c] # "unborn" => parent[c] < c

PoolWaits ==
  /\ status[Root] \notin {"unborn", "queued"}
  /\ \A c \in Subagents : status[c] = "queued" => c <= PoolSize
  /\ PoolSize > 0 => /\ status[Root] \in {"waiting"} \cup Finished
                     /\ \A c \in Subagents : status[c] # "unborn" /\ parent[c] = Root => c <= PoolSize

TreeInv == TreeTypes /\ TreeOrdered /\ PoolWaits /\ NoOrphans

-----------------------------------------------------------------------------
\* Sums

\* A set of naturals has a least element (what minimal counterexamples need).
LEMMA LeastNatural ==
  ASSUME NEW S \in SUBSET Nat, S # {}
  PROVE  \E x \in S : \A y \in S : x <= y
<1>1. PICK x \in S : \A y \in S : ~(<<y, x>> \in OpToRel(<, Nat))
  BY NatLessThanWellFounded, WFMin, Zenon
<1>2. \A y \in S : <<y, x>> \in OpToRel(<, Nat) <=> y < x
  BY DEF OpToRel
<1>3. \A y \in S : ~(y < x)
  BY <1>1, <1>2, Zenon
<1>4. \A y \in S : x <= y
  BY <1>3
<1>5. QED
  BY <1>4

Pick(s) == CHOOSE x \in s : TRUE

\* g sums f over the subsets of S with at most n elements.
Sums(g, f, S, n) ==
  g = [s \in {t \in SUBSET S : Cardinality(t) <= n} |->
         IF s = {} THEN 0 ELSE f[Pick(s)] + g[s \ {Pick(s)}]]

LEMMA PickSmaller ==
  ASSUME NEW S, IsFiniteSet(S), NEW s \in SUBSET S, s # {}
  PROVE  /\ Pick(s) \in s /\ s \ {Pick(s)} \in SUBSET S
         /\ Cardinality(s) \in Nat \ {0}
         /\ Cardinality(s \ {Pick(s)}) = Cardinality(s) - 1
<1>1. IsFiniteSet(s)
  BY FS_Subset
<1>2. Pick(s) \in s
  BY DEF Pick
<1>3. Cardinality(s) \in Nat /\ Cardinality(s) # 0
  BY <1>1, FS_CardinalityType, FS_EmptySet
<1>4. QED
  BY <1>1, <1>2, <1>3, FS_RemoveElement, ZenonT(30)

LEMMA SumsExist ==
  ASSUME NEW S, IsFiniteSet(S), NEW f
  PROVE  \A n \in Nat : \E g : Sums(g, f, S, n)
<1> DEFINE Missing == {n \in Nat : ~ \E g : Sums(g, f, S, n)}
<1>1. SUFFICES ASSUME Missing # {} PROVE FALSE
  OBVIOUS
<1>2. PICK n \in Missing : \A m \in Missing : n <= m
  BY <1>1, LeastNatural, Zenon
<1> DEFINE Small(k) == {t \in SUBSET S : Cardinality(t) <= k}
<1>3. \A s \in SUBSET S : Cardinality(s) \in Nat /\ (Cardinality(s) = 0 <=> s = {})
  BY FS_Subset, FS_CardinalityType, FS_EmptySet
<1>4. CASE n = 0
  <2> DEFINE g == [s \in Small(0) |-> 0]
  <2>1. \A s \in Small(0) : s = {}
    BY <1>3
  <2>2. g = [s \in Small(0) |-> IF s = {} THEN 0 ELSE f[Pick(s)] + g[s \ {Pick(s)}]]
    BY <2>1
  <2>3. Sums(g, f, S, 0)
    BY <2>2, ZenonT(30) DEF Sums
  <2>4. QED
    BY <1>4, <2>3
<1>5. CASE n # 0
  <2>1. n \in Nat /\ n - 1 \in Nat /\ ~(n <= n - 1)
    BY <1>5
  <2>2. PICK h : Sums(h, f, S, n - 1)
    BY <1>2, <2>1, SMTT(30), ZenonT(30)
  <2> DEFINE g == [s \in Small(n) |-> IF s = {} THEN 0 ELSE f[Pick(s)] + h[s \ {Pick(s)}]]
  <2>3. ASSUME NEW s \in Small(n - 1) PROVE g[s] = h[s]
    <3>1. s \in Small(n) /\ s \in SUBSET S
      BY <1>3, <2>1
    <3>2. h[s] = IF s = {} THEN 0 ELSE f[Pick(s)] + h[s \ {Pick(s)}]
      BY <2>2, Zenon DEF Sums
    <3>3. QED
      BY <3>1, <3>2
  <2>4. ASSUME NEW s \in Small(n), s # {} PROVE s \ {Pick(s)} \in Small(n - 1)
    <3>1. s \ {Pick(s)} \in SUBSET S /\ Cardinality(s) \in Nat \ {0}
          /\ Cardinality(s \ {Pick(s)}) = Cardinality(s) - 1 /\ Cardinality(s) <= n
      BY <2>4, PickSmaller
    <3>2. QED
      BY <2>1, <3>1
  <2>5. g = [s \in Small(n) |-> IF s = {} THEN 0 ELSE f[Pick(s)] + g[s \ {Pick(s)}]]
    <3> HIDE DEF Small
    <3>1. QED
      BY <2>3, <2>4, Zenon
  <2>6. Sums(g, f, S, n)
    BY <2>5, Zenon DEF Sums
  <2>7. QED
    BY <2>6
<1>6. QED
  BY <1>4, <1>5

\* The library's sum is such a sum.
LEMMA SumIsSum ==
  ASSUME NEW S, IsFiniteSet(S), NEW f, DOMAIN f = S
  PROVE  \E g : Sums(g, f, S, Cardinality(S)) /\ SumFunction(f) = g[S]
<1> DEFINE Iter(g) == g = [s \in SUBSET S |-> IF s = {} THEN 0
                                               ELSE f[Pick(s)] + g[s \ {Pick(s)}]]
<1>1. SUBSET S = {t \in SUBSET S : Cardinality(t) <= Cardinality(S)}
  BY FS_Subset
<1>2. \A g : Iter(g) <=> Sums(g, f, S, Cardinality(S))
  BY <1>1, Zenon DEF Sums
<1>3. \E g : Iter(g)
  BY <1>2, SumsExist, FS_CardinalityType, ZenonT(30)
<1>4. SumFunction(f) = (CHOOSE g : Iter(g))[S]
  BY Zenon DEF SumFunction, SumFunctionOnSet, FoldFunctionOnSet, MapThenFoldSet, Pick
<1>5. QED
  BY <1>2, <1>3, <1>4, ZenonT(30)

LEMMA SumsUnfold ==
  ASSUME NEW S, IsFiniteSet(S), NEW f, NEW g, Sums(g, f, S, Cardinality(S))
  PROVE  /\ g[{}] = 0
         /\ \A s \in SUBSET S : s # {} => g[s] = f[Pick(s)] + g[s \ {Pick(s)}]
<1> DEFINE D == {t \in SUBSET S : Cardinality(t) <= Cardinality(S)}
<1>1. \A s \in SUBSET S : s \in D
  BY FS_Subset
<1>2. {} \in D
  BY <1>1
<1> HIDE DEF D
<1>3. g = [s \in D |-> IF s = {} THEN 0 ELSE f[Pick(s)] + g[s \ {Pick(s)}]]
  BY Zenon DEF Sums, D
<1>4. \A s \in D : g[s] = IF s = {} THEN 0 ELSE f[Pick(s)] + g[s \ {Pick(s)}]
  BY <1>3, ZenonT(30)
<1>5. QED
  BY <1>1, <1>2, <1>4, Zenon

\* One more for one agent is one more in the sum.
LEMMA SumIncreases ==
  ASSUME NEW S, IsFiniteSet(S), NEW f \in [S -> Nat], NEW p \in S
  PROVE  SumFunction([f EXCEPT ![p] = @ + 1]) = SumFunction(f) + 1
<1> DEFINE h == [f EXCEPT ![p] = @ + 1]
           N == Cardinality(S)
<1>1. h \in [S -> Nat] /\ h[p] = f[p] + 1 /\ \A x \in S \ {p} : h[x] = f[x]
  BY SMTT(30), ZenonT(30)
<1> HIDE DEF h
<1>2. PICK g : Sums(g, f, S, N) /\ SumFunction(f) = g[S]
  BY SumIsSum, SMTT(30), ZenonT(30)
<1>3. PICK k : Sums(k, h, S, N) /\ SumFunction(h) = k[S]
  BY <1>1, SumIsSum
<1>4. /\ \A s \in SUBSET S : Cardinality(s) \in Nat /\ Cardinality(s) <= N
      /\ N \in Nat
  BY FS_Subset, FS_CardinalityType
<1>5. /\ g[{}] = 0 /\ k[{}] = 0
      /\ \A s \in SUBSET S : s # {} => /\ g[s] = f[Pick(s)] + g[s \ {Pick(s)}]
                                       /\ k[s] = h[Pick(s)] + k[s \ {Pick(s)}]
  <2>1. g[{}] = 0 /\ \A s \in SUBSET S : s # {} => g[s] = f[Pick(s)] + g[s \ {Pick(s)}]
    BY <1>2, SumsUnfold, SMTT(30), ZenonT(30)
  <2>2. k[{}] = 0 /\ \A s \in SUBSET S : s # {} => k[s] = h[Pick(s)] + k[s \ {Pick(s)}]
    BY <1>3, SumsUnfold, SMTT(30), ZenonT(30)
  <2>3. QED
    BY <2>1, <2>2, ZenonT(30)
<1> DEFINE One(s) == IF p \in s THEN 1 ELSE 0
           Right(s) == g[s] \in Nat /\ k[s] = g[s] + One(s)
           Wrong == {n \in Nat : \E s \in SUBSET S : Cardinality(s) = n /\ ~Right(s)}
<1>6. Wrong = {}
  <2> SUFFICES ASSUME Wrong # {} PROVE FALSE
    OBVIOUS
  <2>1. PICK n \in Wrong : \A m \in Wrong : n <= m
    BY LeastNatural, ZenonT(30)
  <2>2. PICK s \in SUBSET S : Cardinality(s) = n /\ ~Right(s)
    BY <2>1, SMTT(30), ZenonT(30)
  <2>3. CASE s = {}
    BY <1>5, <2>2, <2>3, SMTT(30), ZenonT(30)
  <2>4. CASE s # {}
    <3> DEFINE x == Pick(s)
               t == s \ {x}
    <3>1. x \in s /\ t \in SUBSET S /\ Cardinality(t) = n - 1 /\ n - 1 \in Nat /\ n \in Nat
      BY <2>2, <2>4, PickSmaller, SMTT(30), ZenonT(30)
    <3>2. Right(t)
      <4> HIDE DEF Right, t
      <4>1. n - 1 \notin Wrong
        <5> HIDE DEF Wrong
        <5>1. QED
          BY <2>1, <3>1, SMTT(30), ZenonT(30)
      <4>2. QED
        BY <3>1, <4>1
    <3>3. g[s] = f[x] + g[t] /\ k[s] = h[x] + k[t]
      BY <1>5, <2>4, SMTT(30), ZenonT(30)
    <3>4. f[x] \in Nat /\ h[x] = f[x] + (IF x = p THEN 1 ELSE 0)
      BY <1>1, <3>1, SMTT(30), ZenonT(30)
    <3>5. One(s) = One(t) + (IF x = p THEN 1 ELSE 0)
      BY <3>1, SMTT(30), ZenonT(30)
    <3> HIDE DEF x, t, One
    <3>6. One(t) \in Nat
      BY SMTT(30), ZenonT(30) DEF One
    <3>7. Right(s)
      BY <3>2, <3>3, <3>4, <3>5, <3>6, SMTT(30), ZenonT(30)
    <3>8. QED
      BY <2>2, <3>7, SMTT(30), ZenonT(30)
  <2>5. QED
    BY <2>3, <2>4, SMTT(30), ZenonT(30)
<1>7. Right(S)
  BY <1>4, <1>6
<1>8. QED
  BY <1>2, <1>3, <1>7, SMTT(30), ZenonT(30) DEF h

-----------------------------------------------------------------------------
(* The budget *)

LEMMA AgentsFinite == IsFiniteSet(Agents) /\ Root \in Agents /\ Subagents \subseteq Agents
<1>1. MaxAgents \in Nat
  BY TreeAssumption, SMTT(30), ZenonT(30)
<1>2. QED
  BY <1>1, FS_Interval DEF Agents, Root, Subagents

\* The initial breakdown: nothing was spent.
LEMMA SumOfZeros == SumFunction([a \in Agents |-> 0]) = 0
<1> DEFINE f == [a \in Agents |-> 0]
           N == Cardinality(Agents)
<1>1. PICK g : Sums(g, f, Agents, N) /\ SumFunction(f) = g[Agents]
  BY SumIsSum, AgentsFinite
<1>2. \A s \in SUBSET Agents : Cardinality(s) \in Nat /\ Cardinality(s) <= N
  BY FS_Subset, FS_CardinalityType, AgentsFinite, SMTT(30), ZenonT(30)
<1>3. /\ g[{}] = 0
      /\ \A s \in SUBSET Agents : s # {} => g[s] = f[Pick(s)] + g[s \ {Pick(s)}]
  <2> HIDE DEF f
  <2>1. QED
    BY <1>1, SumsUnfold, AgentsFinite, SMTT(30), ZenonT(30)
<1> DEFINE Wrong == {n \in Nat : \E s \in SUBSET Agents : Cardinality(s) = n /\ g[s] # 0}
<1>4. Wrong = {}
  <2> SUFFICES ASSUME Wrong # {} PROVE FALSE
    OBVIOUS
  <2>1. PICK n \in Wrong : \A m \in Wrong : n <= m
    BY LeastNatural, ZenonT(30)
  <2>2. PICK s \in SUBSET Agents : Cardinality(s) = n /\ g[s] # 0
    BY <2>1
  <2>3. s # {} /\ g[s] = f[Pick(s)] + g[s \ {Pick(s)}]
    BY <1>3, <2>2, ZenonT(30)
  <2>4. Pick(s) \in s /\ s \ {Pick(s)} \in SUBSET Agents /\ n - 1 \in Nat /\ n \in Nat
        /\ Cardinality(s \ {Pick(s)}) = n - 1
    BY <2>2, <2>3, PickSmaller, AgentsFinite
  <2>5. n - 1 \notin Wrong
    <3> HIDE DEF Wrong
    <3>1. QED
      BY <2>1, <2>4, SMTT(30), ZenonT(30)
  <2>6. g[s \ {Pick(s)}] = 0
    BY <2>4, <2>5, SMTT(30), ZenonT(30)
  <2>7. f[Pick(s)] = 0
    BY <2>4
  <2>8. QED
    BY <2>2, <2>3, <2>6, <2>7, SMTT(30), ZenonT(30)
<1>5. g[Agents] = 0
  BY <1>2, <1>4
<1>6. QED
  BY <1>1, <1>5, SMTT(30), ZenonT(30)

\* The charges of a response go to agents of the tree.
LEMMA ChargesType ==
  ASSUME NEW payer \in Agents, NEW calls \in Responses
  PROVE  Charges(payer, calls) \in Seq(Charge)
<1>1. PICK n \in 1..MaxBatch : calls \in [1..n -> Keys]
  BY Zenon DEF Responses
<1>2. Charges(payer, calls) \in [1..n -> Charge]
  BY <1>1 DEF Charges, Charge
<1>3. n \in Nat
  BY TreeAssumption
<1>4. QED
  BY <1>2, <1>3

LEMMA BudgetKeeps ==
  ASSUME BudgetInv, [Next]_vars
  PROVE  BudgetInv'
<1> USE AgentsFinite, TreeAssumption
<1> DEFINE Spent == UNCHANGED <<used, perAgent>>
<1>1. ASSUME Spent, bill' \in [Agents -> Seq(Charge)] PROVE BudgetInv'
  BY <1>1 DEF BudgetInv, BudgetHeld
<1>2. ASSUME NEW a \in Agents, ChargeNext(a) PROVE BudgetInv'
  <2> DEFINE p == Head(bill[a]).payer
  <2>1. bill[a] \in Seq(Charge) /\ bill[a] # <<>>
    BY <1>2, SMTT(30), ZenonT(30) DEF ChargeNext, BudgetInv
  <2>2. Head(bill[a]) \in Charge /\ Tail(bill[a]) \in Seq(Charge)
    BY <2>1
  <2>3. p \in Agents
    BY <2>2 DEF Charge
  <2>4. bill' \in [Agents -> Seq(Charge)]
    <3>1. bill' = [bill EXCEPT ![a] = <<>>] \/ bill' = [bill EXCEPT ![a] = Tail(@)]
      BY <1>2 DEF ChargeNext, Fail
    <3> DEFINE S == Seq(Charge)
    <3>2. bill \in [Agents -> S] /\ <<>> \in S /\ Tail(bill[a]) \in S
      BY <2>2 DEF BudgetInv
    <3> HIDE DEF S
    <3>3. bill' \in [Agents -> S]
      BY <3>1, <3>2, ZenonT(30)
    <3>4. QED
      BY <3>3, SMTT(30), ZenonT(30) DEF S
  <2>5. CASE Exhausted
    BY <1>1, <1>2, <2>4, <2>5, SMTT(30), ZenonT(30) DEF ChargeNext, budget
  <2>6. CASE ~Exhausted
    <3>1. used' = used + 1 /\ perAgent' = [perAgent EXCEPT ![p] = @ + 1]
      BY <1>2, <2>6, Zenon DEF ChargeNext
    <3>2. SumFunction(perAgent') = SumFunction(perAgent) + 1
      BY <2>3, <3>1, SumIncreases, ZenonT(30) DEF BudgetInv
    <3>3. used' <= MaxTotalCalls
      BY <2>6, <3>1, SMTT(30), ZenonT(30) DEF BudgetInv, Exhausted
    <3>4. perAgent' \in [Agents -> Nat]
      BY <2>3, <3>1, SMTT(30), ZenonT(30) DEF BudgetInv
    <3>5. QED
      BY <2>4, <3>1, <3>2, <3>3, <3>4, SMTT(30), ZenonT(30) DEF BudgetInv, BudgetHeld
  <2>7. QED
    BY <2>5, <2>6, SMTT(30), ZenonT(30)
<1>3. ASSUME NEW a \in Agents, NEW calls \in Responses, RequestTools(a, calls) PROVE BudgetInv'
  <2>1. Charges(a, calls) \in Seq(Charge) /\ Charges(Root, calls) \in Seq(Charge)
    BY ChargesType
  <2>2. Charges(Root, calls) \o Charges(a, calls) \in Seq(Charge) /\ <<>> \in Seq(Charge)
    BY <2>1, SMTT(30), ZenonT(30)
  <2>3. bill' \in [Agents -> Seq(Charge)]
    BY <1>3, <2>1, <2>2, SMTT(30), ZenonT(30) DEF RequestTools, BudgetInv
  <2>4. QED
    BY <1>1, <1>3, <2>3, SMTT(30), ZenonT(30) DEF RequestTools, budget
<1> DEFINE Kept == Spent /\ bill' = bill
<1>4. ASSUME Kept PROVE BudgetInv'
  BY <1>1, <1>4, SMTT(30), ZenonT(30) DEF BudgetInv
<1>5. ASSUME NEW c \in Subagents, StartWorker(c) \/ TimeOut(c) \/ TimeOutAwait(c) PROVE Kept
  BY <1>5, SMTT(30), ZenonT(30) DEF StartWorker, TimeOut, TimeOutAwait, budget
<1>6. CollectPool => Kept
  BY SMTT(30), ZenonT(30) DEF CollectPool, budget
<1>7. ASSUME NEW a \in Agents,
             \/ CallLlm(a) \/ Billed(a) \/ UseTool(a) \/ Spawn(a) \/ SpawnAsync(a)
             \/ ChildReturns(a) \/ AwaitedChildReturns(a) \/ NextRound(a)
             \/ \E how \in {"completed", "error"} : EndRun(a, how) \/ EndAwaitedRun(a, how)
      PROVE  Kept
  BY <1>7, ZenonT(30) DEF CallLlm, Billed, UseTool, Spawn, SpawnAsync, Delegate, ChildReturns,
     AwaitedChildReturns, GoOn, NextRound, EndRun, EndAwaitedRun, End, budget
<1>8. UNCHANGED vars => Kept
  BY DEF vars, budget
<1> HIDE DEF Kept
<1>9. QED
  BY <1>2, <1>3, <1>4, <1>5, <1>6, <1>7, <1>8, ZenonT(30) DEF Next, Step

(***************************************************************************)
(* However many agents charge at once, the tree never spends more than its *)
(* budget, and the breakdown by agent adds up to what was spent, for any   *)
(* budget, any number of agents and any responses (subagent/budget.py      *)
(* SpawnBudget.record_tool_call).                                          *)
(***************************************************************************)
THEOREM BudgetAlwaysHeld == Spec => []BudgetHeld
<1>1. Init => BudgetInv
  <2>1. MaxTotalCalls \in Nat
    BY TreeAssumption
  <2>2. QED
    BY <2>1, SumOfZeros DEF Init, BudgetInv, BudgetHeld
<1>2. BudgetInv /\ [Next]_vars => BudgetInv'
  BY BudgetKeeps
<1>3. BudgetInv => BudgetHeld
  BY DEF BudgetInv
<1>4. QED
  BY <1>1, <1>2, <1>3, PTL DEF Spec

-----------------------------------------------------------------------------
(* The life of the tree *)

\* The sub-agents of c's tree hold c and, with an agent, those it spawned.
LEMMA SubtreeClosed ==
  ASSUME parent \in [Agents -> Agents], NEW c \in Agents
  PROVE  /\ c \in Subtree(c)
         /\ \A d \in Agents : parent[d] < d /\ parent[d] \in Subtree(c) => d \in Subtree(c)
         /\ \A d \in Subtree(c) : d = c \/ parent[d] < d
<1> DEFINE Closed(X) == c \in X /\ \A d \in Agents : parent[d] < d /\ parent[d] \in X => d \in X
           T == {d \in Agents : \A X \in SUBSET Agents : Closed(X) => d \in X}
<1>1. Closed(T)
  OBVIOUS
<1>2. ASSUME NEW d \in T, d # c, ~(parent[d] < d /\ parent[d] \in T) PROVE FALSE
  <2>1. Closed(T \ {d})
    <3>1. c \in T \ {d}
      BY <1>1, <1>2
    <3>2. ASSUME NEW e \in Agents, parent[e] < e, parent[e] \in T \ {d} PROVE e \in T \ {d}
      <4> HIDE DEF T
      <4>1. e \in T
        BY <1>1, <3>2
      <4>2. e # d
        BY <1>2, <3>2
      <4>3. QED
        BY <4>1, <4>2
    <3>3. QED
      BY <3>1, <3>2, ZenonT(30)
  <2>2. T \ {d} \in SUBSET Agents
    OBVIOUS
  <2>3. QED
    BY <2>1, <2>2, Zenon
<1>3. \A d \in Agents : d \in T <=> d = c \/ (parent[d] < d /\ parent[d] \in T)
  <2> HIDE DEF T
  <2>1. QED
    BY <1>1, <1>2, Zenon
<1> HIDE DEF T, Closed
<1> DEFINE Under(g) == g = [d \in Agents |-> d = c \/ (parent[d] < d /\ g[parent[d]])]
           h == [d \in Agents |-> d \in T]
<1>4. Under(h)
  <2>1. \A d \in Agents : h[parent[d]] <=> parent[d] \in T
    BY Zenon
  <2> HIDE DEF h
  <2>2. \A d \in Agents : (d \in T) <=> (d = c \/ (parent[d] < d /\ h[parent[d]]))
    BY <1>3, <2>1, Zenon
  <2>3. \A d \in Agents : (d \in T) = (d = c \/ (parent[d] < d /\ h[parent[d]]))
    <3> TAKE d \in Agents
    <3>1. CASE d \in T
      <4>1. (d \in T) = TRUE
        BY <3>1, Zenon
      <4>2. (d = c \/ (parent[d] < d /\ h[parent[d]])) = TRUE
        BY <2>2, <3>1, Zenon
      <4>3. QED
        BY <4>1, <4>2, Zenon
    <3>2. CASE d \notin T
      <4>1. (d \in T) = FALSE
        BY <3>2, SMT
      <4>2. (d = c \/ (parent[d] < d /\ h[parent[d]])) = FALSE
        BY <2>2, <3>2, Zenon
      <4>3. QED
        BY <4>1, <4>2, Zenon
    <3>3. QED
      BY <3>1, <3>2, Zenon
  <2>4. h = [d \in Agents |-> d \in T]
    BY DEF h
  <2>5. QED
    BY <2>3, <2>4, Zenon
<1> DEFINE under == CHOOSE g : Under(g)
<1>5. Under(under)
  BY <1>4, Zenon
<1>6. Subtree(c) = {d \in Agents : under[d]}
  BY Zenon DEF Subtree
<1> HIDE DEF under
<1>7. \A d \in Agents : under[d] = (d = c \/ (parent[d] < d /\ under[parent[d]]))
  BY <1>5, Zenon
<1>8. QED
  BY <1>6, <1>7, ZenonT(30)

Active(c) == status[c] = "queued" \/ Running(c)

RootRuns == {c \in Children(Root) : Running(c)}

LEMMA RootRunsFinite == IsFiniteSet(RootRuns) /\ Cardinality(RootRuns) \in Nat
<1>1. IsFiniteSet(Subagents)
  BY FS_Interval, TreeAssumption DEF Subagents
<1>2. RootRuns \in SUBSET Subagents
  BY SMTT(30), ZenonT(30) DEF RootRuns, Children
<1>3. QED
  BY <1>1, <1>2, FS_Subset, FS_CardinalityType, SMTT(30), ZenonT(30)

\* Steps that start nobody: no one new is at work, and whoever stops waiting has
\* nobody at work.
LEMMA NobodyStarts ==
  ASSUME TreeInv, TreeTypes', setup' = setup, parent' = parent,
         abandoned \subseteq abandoned',
         \A c \in Subagents : status'[c] = "unborn" <=> status[c] = "unborn",
         \A c \in Subagents : status'[c] = "queued" => status[c] = "queued",
         \A c \in Subagents : Running(c)' => Active(c),
         \A c \in Subagents \ abandoned : Active(c)' =>
             status'[parent[c]] = status[parent[c]],
         status'[Root] \notin {"unborn", "queued"},
         PoolSize > 0 => status'[Root] \in {"waiting"} \cup Finished
  PROVE  TreeInv'
<1>1. PoolSize' = PoolSize
  BY SMTT(30), ZenonT(30) DEF PoolSize
<1>2. TreeOrdered'
  BY SMTT(30), ZenonT(30) DEF TreeInv, TreeOrdered
<1>3. PoolWaits'
  BY <1>1, SMTT(30), ZenonT(30) DEF TreeInv, PoolWaits, Finished, Failures
<1>4. ASSUME NEW c \in Subagents \ abandoned', status'[c] = "queued" \/ Running(c)'
      PROVE  \/ status'[parent'[c]] = "waiting"
             \/ setup'.parallel /\ status'[parent'[c]] = "acting"
  <2>1. c \in Subagents \ abandoned /\ Active(c)' /\ Active(c)
    BY <1>4 DEF Active
  <2>2. \/ status[parent[c]] = "waiting"
        \/ setup.parallel /\ status[parent[c]] = "acting"
    <3>1. NoOrphans
      BY SMTT(30), ZenonT(30) DEF TreeInv
    <3>2. c \in Subagents \ abandoned /\ (status[c] = "queued" \/ Running(c))
      BY <2>1, SMTT(30), ZenonT(30) DEF Active
    <3>3. QED
      BY ONLY <3>1, <3>2, ZenonT(30) DEF NoOrphans
  <2>3. QED
    BY <2>1, <2>2, SMTT(30), ZenonT(30)
<1>5. PoolSize' = 0 /\ ~setup'.async /\ (setup'.timeout \/ setup'.parallel) =>
        Cardinality(RootRuns') <= setup'.slots
  <2> SUFFICES ASSUME PoolSize = 0, ~setup.async, setup.timeout \/ setup.parallel
               PROVE  Cardinality(RootRuns') <= setup.slots
    BY <1>1, SMTT(30), ZenonT(30)
  <2>1. Cardinality(RootRuns) <= setup.slots
    BY ZenonT(30) DEF TreeInv, NoOrphans, RootRuns
  <2>2. \A c \in Subagents : status[c] # "queued"
    <3>1. \A c \in Subagents : ~(c <= PoolSize)
      BY TreeAssumption, SMTT(30), ZenonT(30) DEF Subagents
    <3>2. QED
      BY <3>1, SMTT(30), ZenonT(30) DEF TreeInv, PoolWaits
  <2>3. RootRuns' \in SUBSET RootRuns
    BY <2>2, SMTT(30), ZenonT(30) DEF RootRuns, Children, Active
  <2>4. Cardinality(RootRuns') <= Cardinality(RootRuns) /\ Cardinality(RootRuns') \in Nat
    BY <2>3, RootRunsFinite, FS_Subset, FS_CardinalityType, ZenonT(30)
  <2>5. setup.slots \in Nat
    BY TreeAssumption, ZenonT(30) DEF TreeInv, TreeTypes
  <2>6. QED
    BY <2>1, <2>4, <2>5, RootRunsFinite, SMTT(30), ZenonT(30)
<1>6. NoOrphans'
  BY <1>4, <1>5, ZenonT(30) DEF NoOrphans, RootRuns
<1>7. QED
  BY <1>2, <1>3, <1>6, SMTT(30), ZenonT(30) DEF TreeInv

\* One agent goes on; if others may be at work for it, none is that it still has
\* to wait for.
LEMMA OneMoves ==
  ASSUME TreeInv, NEW a \in Agents, NEW x, status' = [status EXCEPT ![a] = x],
         UNCHANGED <<setup, parent, abandoned>>,
         status[a] \notin {"unborn"} \cup Finished, x \notin {"unborn", "queued"},
         \/ status[a] \notin {"waiting", "acting"}
         \/ \A c \in Children(a) \ abandoned : ~Active(c),
         a = Root /\ PoolSize > 0 => x \in Finished
  PROVE  TreeInv'
<1>1. TreeTypes'
  BY DEF TreeInv, TreeTypes
<1>2. status'[a] = x /\ \A b \in Agents \ {a} : status'[b] = status[b]
  BY DEF TreeInv, TreeTypes
<1>3. \A c \in Subagents : c \in Agents
  BY AgentsFinite
<1>4. \A c \in Subagents : status'[c] = "unborn" <=> status[c] = "unborn"
  BY <1>2, <1>3
<1>5. \A c \in Subagents : status'[c] = "queued" => status[c] = "queued"
  BY <1>2, <1>3, SMTT(30), ZenonT(30)
<1>6. \A c \in Subagents : Running(c)' => Active(c)
  BY <1>2, <1>3, SMTT(30), ZenonT(30) DEF Running, Active
<1>7. ASSUME NEW c \in Subagents \ abandoned, Active(c)'
      PROVE  status'[parent[c]] = status[parent[c]]
  <2>1. Active(c)
    BY <1>5, <1>6, <1>7, SMTT(30), ZenonT(30) DEF Active
  <2>2. parent[c] \in Agents /\ status[c] # "unborn"
    BY <1>3, <2>1, SMTT(30), ZenonT(30) DEF TreeInv, TreeTypes, Active, Running
  <2>3. parent[c] # a
    <3> SUFFICES ASSUME parent[c] = a PROVE FALSE
      BY SMTT(30), ZenonT(30)
    <3>1. status[a] \in {"waiting", "acting"}
      BY <2>1, SMTT(30), ZenonT(30) DEF TreeInv, NoOrphans, Active
    <3>2. c \in Children(a) \ abandoned
      BY <2>2, SMTT(30), ZenonT(30) DEF Children
    <3>3. QED
      BY <2>1, <3>1, <3>2, SMTT(30), ZenonT(30)
  <2>4. QED
    BY <1>2, <2>2, <2>3, SMTT(30), ZenonT(30)
<1>8. status'[Root] \notin {"unborn", "queued"}
  BY <1>2, AgentsFinite, SMTT(30), ZenonT(30) DEF TreeInv, PoolWaits
<1>9. PoolSize > 0 => status'[Root] \in {"waiting"} \cup Finished
  BY <1>2, AgentsFinite, SMTT(30), ZenonT(30) DEF TreeInv, PoolWaits
<1>10. QED
  BY <1>1, <1>4, <1>5, <1>6, <1>7, <1>8, <1>9, NobodyStarts, SMTT(30), ZenonT(30)

\* Nothing that matters for the tree changes.
LEMMA NobodyMoves ==
  ASSUME TreeInv, UNCHANGED <<setup, status, parent>>, abandoned \subseteq abandoned',
         abandoned' \subseteq Subagents
  PROVE  TreeInv'
<1>1. TreeTypes'
  BY DEF TreeInv, TreeTypes
<1>2. \A c : Running(c)' <=> Running(c)
  BY DEF Running
<1>3. status'[Root] \notin {"unborn", "queued"}
      /\ (PoolSize > 0 => status'[Root] \in {"waiting"} \cup Finished)
  BY DEF TreeInv, PoolWaits
<1>4. QED
  BY <1>1, <1>2, <1>3, NobodyStarts, ZenonT(30) DEF Active

\* The children that are over are not at work.
LEMMA ReturnedNotActive ==
  ASSUME NEW a, \A c \in Children(a) : Returned(c)
  PROVE  \A c \in Children(a) \ abandoned : ~Active(c)
BY SMTT(30), ZenonT(30) DEF Returned, Active, Running, Finished, Failures

\* The steps of one agent that starts nobody.
LEMMA AgentKeeps ==
  ASSUME TreeInv, NEW a \in Agents,
         \/ CallLlm(a) \/ ChargeNext(a) \/ Billed(a) \/ UseTool(a)
         \/ ChildReturns(a) \/ AwaitedChildReturns(a) \/ NextRound(a)
         \/ \E calls \in Responses : RequestTools(a, calls)
         \/ \E how \in {"completed", "error"} : EndRun(a, how) \/ EndAwaitedRun(a, how)
  PROVE  TreeInv'
<1>0. status[a] \notin {"waiting"} \cup Finished => ~(a = Root /\ PoolSize > 0)
  BY DEF TreeInv, PoolWaits
<1> USE DEF Finished, Failures
<1>1. CASE CallLlm(a)
  BY <1>0, <1>1, OneMoves, ZenonT(30) DEF CallLlm
<1>2. CASE Billed(a)
  BY <1>0, <1>2, OneMoves, ZenonT(30) DEF Billed
<1>3. CASE \E calls \in Responses : RequestTools(a, calls)
  <2>1. /\ status[a] = "inflight" /\ status' = [status EXCEPT ![a] = "billing"]
        /\ UNCHANGED <<setup, parent, abandoned>>
    BY <1>3, ZenonT(30) DEF RequestTools
  <2>2. QED
    BY <1>0, <2>1, OneMoves, ZenonT(30)
<1>4. CASE \E how \in {"completed", "error"} : EndRun(a, how) \/ EndAwaitedRun(a, how)
  BY <1>0, <1>4, OneMoves DEF EndRun, EndAwaitedRun, End
<1>5. CASE NextRound(a)
  BY <1>0, <1>5, OneMoves, ReturnedNotActive, ZenonT(30) DEF NextRound
<1>6. CASE ChildReturns(a) \/ AwaitedChildReturns(a)
  BY <1>6, OneMoves, ReturnedNotActive, SMTT(30), ZenonT(30) DEF ChildReturns, AwaitedChildReturns, GoOn
<1>7. CASE UseTool(a)
  BY <1>7, NobodyMoves, ZenonT(30) DEF UseTool, TreeInv, TreeTypes
<1>8. CASE ChargeNext(a)
  <2>1. UNCHANGED <<setup, parent, abandoned>> /\ status[a] = "billing"
    BY <1>8, ZenonT(30) DEF ChargeNext
  <2>2. \/ status' = status
        \/ status' = [status EXCEPT ![a] = "budget_exceeded"]
        \/ status' = [status EXCEPT ![a] = "repetition_limit"]
    BY <1>8, Zenon DEF ChargeNext, Fail
  <2>3. QED
    BY <1>0, <2>1, <2>2, OneMoves, NobodyMoves, SMTT(30), ZenonT(30) DEF TreeInv, TreeTypes
<1>9. QED
  BY <1>1, <1>2, <1>3, <1>4, <1>5, <1>6, <1>7, <1>8, SMTT(30), ZenonT(30)

\* A pool's workers, and the end of a pool.
LEMMA PoolKeeps ==
  ASSUME TreeInv, CollectPool \/ \E c \in Subagents : StartWorker(c)
  PROVE  TreeInv'
<1>1. ASSUME NEW c \in Subagents, StartWorker(c) PROVE TreeInv'
  <2>1. c \in Agents /\ c # Root
    BY AgentsFinite, TreeAssumption DEF Subagents, Root
  <2>2. QED
    BY <1>1, <2>1, OneMoves, ZenonT(30) DEF StartWorker, Finished, Failures
<1>2. ASSUME CollectPool PROVE TreeInv'
  <2> DEFINE failed == {c \in 1..PoolSize : status[c] \in Failures}
             x == IF failed = {} THEN "completed" ELSE status[Min(failed)]
  <2>1. /\ PoolSize > 0 /\ status[Root] = "waiting" /\ status' = [status EXCEPT ![Root] = x]
        /\ \A c \in 1..PoolSize : status[c] \in Finished
        /\ UNCHANGED <<setup, parent, abandoned>>
    BY <1>2, SMTT(30), ZenonT(30) DEF CollectPool
  <2>2. x \in Finished
    <3>1. CASE failed = {}
      BY <3>1 DEF Finished
    <3>2. CASE failed # {}
      <4>1. failed \in SUBSET Nat
        OBVIOUS
      <4>2. \E c \in failed : \A d \in failed : c <= d
        BY <3>2, <4>1, LeastNatural, ZenonT(30)
      <4>3. Min(failed) \in failed
        BY <4>2, SMTT(30), ZenonT(30) DEF Min
      <4>4. QED
        BY <3>2, <4>3 DEF Finished
    <3>3. QED
      BY <3>1, <3>2
  <2>3. \A c \in Children(Root) \ abandoned : ~Active(c)
    <3> SUFFICES ASSUME NEW c \in Children(Root) PROVE ~Active(c)
      BY SMTT(30), ZenonT(30)
    <3>1. c \in Subagents /\ c <= PoolSize
      BY <2>1 DEF Children, TreeInv, PoolWaits
    <3>2. c \in 1..PoolSize
      <4>1. PoolSize \in Int
        BY TreeAssumption DEF TreeInv, TreeTypes, PoolSize
      <4>2. QED
        BY <3>1, <4>1, TreeAssumption, SMTT(30), ZenonT(30) DEF Subagents
    <3>3. QED
      BY <2>1, <3>2 DEF Active, Running, Finished, Failures
  <2> HIDE DEF x
  <2>4. x \notin {"unborn", "queued"}
    BY <2>2 DEF Finished, Failures
  <2>5. QED
    BY <2>1, <2>2, <2>3, <2>4, OneMoves, AgentsFinite, ZenonT(30) DEF Finished, Failures
<1>3. QED
  BY <1>1, <1>2

\* A call that timed out: a thread is left to itself, a coroutine ends with all
\* those of its tree.
LEMMA TimeOutKeeps ==
  ASSUME TreeInv, NEW c \in Subagents, TimeOut(c) \/ TimeOutAwait(c)
  PROVE  TreeInv'
<1>1. ASSUME TimeOut(c) PROVE TreeInv'
  BY <1>1, NobodyMoves, SMTT(30), ZenonT(30) DEF TimeOut, TreeInv, TreeTypes
<1>2. ASSUME TimeOutAwait(c) PROVE TreeInv'
  <2>1. /\ status' = [d \in Agents |-> IF d \in Cancelled(c) THEN "cancelled" ELSE status[d]]
        /\ UNCHANGED <<setup, parent, abandoned>> /\ PoolSize = 0
    BY <1>2, Zenon DEF TimeOutAwait, TimesOut
  <2>2. TreeTypes'
    BY <2>1, SMTT(30), ZenonT(30) DEF TreeInv, TreeTypes
  <2>3. c \in Agents /\ parent \in [Agents -> Agents] /\ c # Root
    BY AgentsFinite, TreeAssumption DEF TreeInv, TreeTypes, Subagents, Root
  <2>4. \A d \in Cancelled(c) : d \in Subtree(c) /\ Running(d)
    BY DEF Cancelled
  <2>5. Root \notin Cancelled(c)
    <3>1. ~(parent[Root] < Root)
      BY <2>3, AgentsFinite, TreeAssumption, SMTT(30), ZenonT(30) DEF Agents, Root
    <3>2. QED
      BY <2>3, <2>4, <3>1, SubtreeClosed, SMTT(30), ZenonT(30)
  <2>6. \A d \in Agents : d \notin Cancelled(c) => status'[d] = status[d]
    BY <2>1
  <2>7. \A d \in Agents : d \in Cancelled(c) => status'[d] = "cancelled"
    BY <2>1
  <2>8. \A d \in Subagents : d \in Agents
    BY AgentsFinite, SMTT(30), ZenonT(30)
  <2>9. \A d \in Subagents : /\ status'[d] = "unborn" <=> status[d] = "unborn"
                             /\ status'[d] = "queued" => status[d] = "queued"
                             /\ Running(d)' => Running(d) /\ d \notin Cancelled(c)
    BY <2>4, <2>6, <2>7, <2>8, SMTT(30), ZenonT(30) DEF Running, Finished
  <2>10. \A d \in Subagents : status[d] # "queued"
    <3>1. \A d \in Subagents : ~(d <= PoolSize)
      BY <2>1, TreeAssumption, SMTT(30), ZenonT(30) DEF Subagents
    <3>2. QED
      BY <3>1 DEF TreeInv, PoolWaits
  <2>11. ASSUME NEW d \in Subagents \ abandoned, Active(d)'
         PROVE  status'[parent[d]] = status[parent[d]]
    <3>1. Running(d) /\ d \notin Cancelled(c) /\ d \in Agents
      BY <2>8, <2>9, <2>10, <2>11, SMTT(30), ZenonT(30) DEF Active
    <3>2. d \notin Subtree(c)
      BY <3>1 DEF Cancelled
    <3>3. parent[d] < d
      BY <3>1, SMTT(30), ZenonT(30) DEF TreeInv, TreeOrdered, Running
    <3>4. parent[d] \notin Subtree(c) /\ parent[d] \in Agents
      BY <2>3, <3>1, <3>2, <3>3, SubtreeClosed, SMTT(30), ZenonT(30)
    <3>5. QED
      BY <2>4, <2>6, <3>4, SMTT(30), ZenonT(30)
  <2>12. status'[Root] = status[Root]
    BY <2>5, <2>6, AgentsFinite, SMTT(30), ZenonT(30)
  <2>13. QED
    BY <2>1, <2>2, <2>9, <2>11, <2>12, NobodyStarts, SMTT(30), ZenonT(30) DEF Active, TreeInv, PoolWaits
<1>3. QED
  BY <1>1, <1>2, SMTT(30), ZenonT(30)

\* A delegation: the child is the next to be born, its parent waits or, in
\* parallel mode, acts, and a thread of the root has taken a slot.
LEMMA DelegateKeeps ==
  ASSUME TreeInv, NEW a \in Agents, Spawn(a) \/ SpawnAsync(a)
  PROVE  TreeInv'
<1>1. /\ UNCHANGED <<setup, abandoned>> /\ status[a] = "acting"
      /\ ~setup.async => FreeSlot(a)
  BY DEF Spawn, SpawnAsync, Delegate
<1>2. PICK c \in Subagents :
        /\ status[c] = "unborn" /\ \A d \in 1..(c - 1) : status[d] # "unborn"
        /\ parent' = [parent EXCEPT ![c] = a]
        /\ status' = [status EXCEPT ![c] = "llm",
                                     ![a] = IF a = Root /\ setup.parallel THEN @ ELSE "waiting"]
  BY ZenonT(30) DEF Spawn, SpawnAsync, Delegate
<1>3. /\ c \in Agents /\ c # a /\ c # Root
      /\ \A d \in Subagents : d \in Agents
  BY <1>1, <1>2, AgentsFinite, TreeAssumption, SMTT(30), ZenonT(30) DEF Subagents, Root
<1>4. /\ TreeTypes'
      /\ status'[c] = "llm" /\ parent'[c] = a
      /\ status'[a] = "waiting" \/ (a = Root /\ setup.parallel /\ status'[a] = "acting")
      /\ \A d \in Agents \ {a, c} : status'[d] = status[d]
      /\ \A d \in Agents \ {c} : parent'[d] = parent[d]
  BY <1>1, <1>2, <1>3, SMTT(30), ZenonT(30) DEF TreeInv, TreeTypes
<1>5. c \in Nat /\ \A d \in Subagents : d \in Nat /\ (d < c => status[d] # "unborn")
  BY <1>2, TreeAssumption DEF Subagents
<1>6. a < c
  <2>1. CASE a = Root
    BY <2>1, TreeAssumption DEF Root, Subagents
  <2>2. CASE a # Root
    <3>1. a \in Subagents /\ a \in Nat
      BY <2>2, TreeAssumption, SMTT(30), ZenonT(30) DEF Agents, Subagents, Root
    <3>2. ~(c < a)
      BY <1>1, <1>2, <3>1, SMTT(30), ZenonT(30) DEF TreeInv, TreeOrdered
    <3>3. QED
      BY <1>3, <1>5, <3>1, <3>2, SMTT(30), ZenonT(30)
  <2>3. QED
    BY <2>1, <2>2
<1>7. TreeOrdered'
  <2>1. ASSUME NEW d \in Subagents, NEW e \in Subagents, d < e, status'[d] = "unborn"
        PROVE  status'[e] = "unborn"
    <3>1. d # c /\ d # a
      BY <1>4, <2>1, SMTT(30), ZenonT(30)
    <3>2. status[d] = "unborn"
      BY <1>3, <1>4, <2>1, <3>1, SMTT(30), ZenonT(30)
    <3>3. status[e] = "unborn" /\ ~(d < c)
      BY <1>5, <2>1, <3>2, SMTT(30), ZenonT(30) DEF TreeInv, TreeOrdered
    <3>4. e # c /\ e # a
      BY <1>1, <1>5, <2>1, <3>1, <3>3, SMTT(30), ZenonT(30)
    <3>5. QED
      BY <1>3, <1>4, <3>3, <3>4, SMTT(30), ZenonT(30)
  <2>2. ASSUME NEW d \in Subagents, status'[d] # "unborn" PROVE parent'[d] < d
    <3>1. CASE d = c
      BY <1>4, <1>6, <3>1, SMTT(30), ZenonT(30)
    <3>2. CASE d # c
      <4>1. parent'[d] = parent[d] /\ status[d] # "unborn"
        BY <1>1, <1>3, <1>4, <2>2, <3>2, SMTT(30), ZenonT(30)
      <4>2. QED
        BY <4>1, SMTT(30), ZenonT(30) DEF TreeInv, TreeOrdered
    <3>3. QED
      BY <3>1, <3>2, SMTT(30), ZenonT(30)
  <2>3. QED
    BY <2>1, <2>2, SMTT(30), ZenonT(30) DEF TreeOrdered
<1>8. PoolSize' = PoolSize /\ (PoolSize > 0 => a # Root)
  BY <1>1 DEF PoolSize, TreeInv, PoolWaits, Finished, Failures
<1>9. PoolWaits'
  <2>1. status'[Root] \notin {"unborn", "queued"}
    BY <1>3, <1>4, AgentsFinite, SMTT(30), ZenonT(30) DEF TreeInv, PoolWaits
  <2>2. ASSUME NEW d \in Subagents, status'[d] = "queued" PROVE d <= PoolSize
    <3>1. d # c /\ d # a
      BY <1>4, <2>2, SMTT(30), ZenonT(30)
    <3>2. status[d] = "queued"
      BY <1>3, <1>4, <2>2, <3>1, SMTT(30), ZenonT(30)
    <3>3. QED
      BY <3>2, SMTT(30), ZenonT(30) DEF TreeInv, PoolWaits
  <2>3. ASSUME PoolSize > 0 PROVE status'[Root] \in {"waiting"} \cup Finished
    BY <1>3, <1>4, <1>8, <2>3, AgentsFinite, SMTT(30), ZenonT(30) DEF TreeInv, PoolWaits
  <2>4. ASSUME PoolSize > 0, NEW d \in Subagents, status'[d] # "unborn", parent'[d] = Root
        PROVE  d <= PoolSize
    <3>1. d # c
      BY <1>4, <1>8, <2>4, ZenonT(30)
    <3>2. parent[d] = Root /\ status[d] # "unborn"
      BY <1>1, <1>3, <1>4, <2>4, <3>1, SMTT(30), ZenonT(30)
    <3>3. QED
      BY <2>4, <3>2, SMTT(30), ZenonT(30) DEF TreeInv, PoolWaits
  <2>5. QED
    BY <1>8, <2>1, <2>2, <2>3, <2>4, ZenonT(30) DEF PoolWaits, Finished, Failures
<1>10. \A d \in Subagents \ {c} : (Active(d)' => Active(d)) /\ (Running(d)' => Running(d))
  BY <1>1, <1>3, <1>4, SMTT(30), ZenonT(30) DEF Active, Running, Finished, Failures
<1>11. ASSUME NEW d \in Subagents \ abandoned, Active(d)'
       PROVE  \/ status'[parent'[d]] = "waiting"
              \/ setup.parallel /\ status'[parent'[d]] = "acting"
  <2>1. CASE d = c
    BY <1>4, <2>1, SMTT(30), ZenonT(30)
  <2>2. CASE d # c
    <3>1. parent'[d] = parent[d] /\ Active(d) /\ parent[d] \in Agents
      BY <1>3, <1>4, <1>10, <1>11, <2>2, ZenonT(30) DEF TreeInv, TreeTypes
    <3>2. \/ status[parent[d]] = "waiting"
          \/ setup.parallel /\ status[parent[d]] = "acting"
      BY <1>11, <3>1, SMTT(30), ZenonT(30) DEF TreeInv, NoOrphans, Active
    <3>3. CASE parent[d] = a
      BY <1>4, <3>1, <3>3, SMTT(30), ZenonT(30)
    <3>4. CASE parent[d] # a
      <4>1. status[c] = "unborn"
        BY <1>2, SMTT(30), ZenonT(30)
      <4>2. parent[d] \in Agents \ {a, c}
        BY <3>1, <3>2, <3>4, <4>1, ZenonT(30)
      <4>3. status'[parent[d]] = status[parent[d]]
        BY <1>4, <4>2, Zenon
      <4>4. QED
        BY <3>1, <3>2, <4>3, ZenonT(30)
    <3>5. QED
      BY <3>3, <3>4, SMTT(30), ZenonT(30)
  <2>3. QED
    BY <2>1, <2>2, SMTT(30), ZenonT(30)
<1>12. ASSUME PoolSize = 0, ~setup.async, setup.timeout \/ setup.parallel
       PROVE  Cardinality(RootRuns') <= setup.slots
  <2>1. Cardinality(RootRuns) <= setup.slots /\ setup.slots \in Nat
    BY <1>12, TreeAssumption, SMTT(30), ZenonT(30) DEF TreeInv, NoOrphans, RootRuns, TreeTypes
  <2>2. CASE a = Root
    <3>1. Cardinality(RootRuns) < setup.slots
      BY <1>1, <1>12, <2>2, SMTT(30), ZenonT(30) DEF FreeSlot, RootRuns
    <3>2. RootRuns' \in SUBSET (RootRuns \cup {c})
      BY <1>1, <1>3, <1>4, <1>10, ZenonT(30) DEF RootRuns, Children
    <3>3. /\ IsFiniteSet(RootRuns \cup {c})
          /\ Cardinality(RootRuns \cup {c}) <= Cardinality(RootRuns) + 1
          /\ Cardinality(RootRuns \cup {c}) \in Nat
      <4>1. CASE c \in RootRuns
        <5>1. RootRuns \cup {c} = RootRuns
          BY <4>1
        <5>2. /\ Cardinality(RootRuns \cup {c}) = Cardinality(RootRuns)
              /\ IsFiniteSet(RootRuns \cup {c})
          BY <5>1, RootRunsFinite, ZenonT(30)
        <5>3. QED
          BY <5>2, RootRunsFinite
      <4>2. CASE c \notin RootRuns
        <5>1. /\ IsFiniteSet(RootRuns \cup {c})
              /\ Cardinality(RootRuns \cup {c}) = Cardinality(RootRuns) + 1
          BY <4>2, RootRunsFinite, FS_AddElement, SMTT(30), ZenonT(30)
        <5>2. QED
          BY <5>1, RootRunsFinite, SMTT(30), ZenonT(30)
      <4>3. QED
        BY <4>1, <4>2, SMTT(30), ZenonT(30)
    <3>4. Cardinality(RootRuns') <= Cardinality(RootRuns \cup {c})
          /\ Cardinality(RootRuns') \in Nat
      BY <3>2, <3>3, FS_Subset, FS_CardinalityType, SMTT(30), ZenonT(30)
    <3>5. QED
      BY <2>1, <3>1, <3>3, <3>4, RootRunsFinite, SMTT(30), ZenonT(30)
  <2>3. CASE a # Root
    <3>1. RootRuns' \in SUBSET RootRuns
      BY <1>1, <1>3, <1>4, <1>10, <2>3, ZenonT(30) DEF RootRuns, Children
    <3>2. Cardinality(RootRuns') <= Cardinality(RootRuns) /\ Cardinality(RootRuns') \in Nat
      BY <3>1, RootRunsFinite, FS_Subset, FS_CardinalityType
    <3>3. QED
      BY <2>1, <3>2, RootRunsFinite, SMTT(30), ZenonT(30)
  <2>4. QED
    BY <2>2, <2>3, SMTT(30), ZenonT(30)
<1>13. NoOrphans'
  BY <1>1, <1>8, <1>11, <1>12, ZenonT(30) DEF NoOrphans, RootRuns, Active
<1>14. QED
  BY <1>4, <1>7, <1>9, <1>13, SMTT(30), ZenonT(30) DEF TreeInv

(***************************************************************************)
(* Nobody of the tree is at work for an agent that went on or finished,    *)
(* except the threads of calls that timed out, of which the root never has *)
(* more than it has slots: for every shape of the tree, any pool size and  *)
(* concurrency, threads or coroutines (pool.py run_all, delegation.py,     *)
(* async_tool.py execute_async, agent.py _submit_timed_tool).              *)
(***************************************************************************)
THEOREM NobodyIsOrphaned == Spec => []NoOrphans
<1>1. Init => TreeInv
  <2> SUFFICES ASSUME Init PROVE TreeInv
    OBVIOUS
  <2>1. PoolSize \in 0..MaxAgents /\ MaxAgents \in Nat /\ setup \in Setups
    BY TreeAssumption, SMTT(30), ZenonT(30) DEF Init, PoolSize
  <2>2. /\ status[Root] = IF PoolSize > 0 THEN "waiting" ELSE "llm"
        /\ \A c \in Subagents : c \in Nat /\ c # Root
                                 /\ status[c] = IF c <= PoolSize THEN "queued" ELSE "unborn"
    BY <2>1, AgentsFinite, SMTT(30), ZenonT(30) DEF Init, Subagents, Root
  <2>3. TreeTypes
    BY <2>1, AgentsFinite, SMTT(30), ZenonT(30) DEF Init, TreeTypes
  <2>4. \A c \in Subagents : parent[c] = Root /\ Root < c
    BY <2>1, AgentsFinite, SMTT(30), ZenonT(30) DEF Init, Subagents, Root
  <2>5. TreeOrdered
    BY <2>1, <2>2, <2>4, SMTT(30), ZenonT(30) DEF TreeOrdered
  <2>6. PoolWaits
    BY <2>1, <2>2, <2>4 DEF PoolWaits
  <2>7. \A c \in Subagents : ~Running(c)
    BY <2>2 DEF Running
  <2>8. ASSUME NEW c \in Subagents, status[c] = "queued" PROVE status[parent[c]] = "waiting"
    <3>1. c <= PoolSize /\ parent[c] = Root
      BY <2>2, <2>4, <2>8
    <3>2. PoolSize > 0
      BY <2>1, <2>2, <2>4, <3>1, SMTT(30), ZenonT(30) DEF Root
    <3>3. QED
      BY <2>2, <3>1, <3>2, SMTT(30), ZenonT(30)
  <2>9. RootRuns = {}
    BY <2>7 DEF RootRuns, Children
  <2>10. Cardinality(RootRuns) <= setup.slots
    <3>1. Cardinality(RootRuns) = 0 /\ setup.slots \in Nat
      BY <2>1, <2>9, FS_EmptySet, TreeAssumption, SMTT(30), ZenonT(30)
    <3>2. QED
      BY <3>1, SMTT(30), ZenonT(30)
  <2>11. NoOrphans
    BY <2>7, <2>8, <2>10, ZenonT(30) DEF NoOrphans, RootRuns
  <2>12. QED
    BY <2>3, <2>5, <2>6, <2>11, SMTT(30), ZenonT(30) DEF TreeInv
<1>2. TreeInv /\ [Next]_vars => TreeInv'
  <2>1. ASSUME TreeInv, UNCHANGED vars PROVE TreeInv'
    BY <2>1, NobodyMoves DEF vars, TreeInv, TreeTypes
  <2>2. ASSUME TreeInv, Next PROVE TreeInv'
    BY <2>2, PoolKeeps, TimeOutKeeps, DelegateKeeps, AgentKeeps, ZenonT(30) DEF Next, Step
  <2>3. QED
    BY <2>1, <2>2, SMTT(30), ZenonT(30)
<1>3. TreeInv => NoOrphans
  BY DEF TreeInv
<1>4. QED
  BY <1>1, <1>2, <1>3, PTL DEF Spec

=============================================================================
