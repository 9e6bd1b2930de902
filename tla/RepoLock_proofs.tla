-------------------------- MODULE RepoLock_proofs --------------------------
(***************************************************************************)
(* The exclusion guarantees of the repository lock, for any number of      *)
(* threads and processes and any bounds.                                   *)
(***************************************************************************)
EXTENDS RepoLock, TLAPS

(* A process has an owner exactly while it has the exclusive flock, and its *)
(* depth is the number of guards that the owner, a thread of it, holds.     *)
OwnerHoldsFlock ==
  \A p \in Procs :
    IF owner[p] = NoThread
    THEN depth[p] = 0 /\ ~flock[p]
    ELSE /\ flock[p]
         /\ ProcOf[owner[p]] = p
         /\ depth[p] = writes[owner[p]]
         /\ depth[p] > 0

GuardsBelongToOwner ==
  \A t \in Threads :
    /\ writes[t] > 0 => owner[ProcOf[t]] = t
    /\ covered[t] > 0 => owner[ProcOf[t]] = t

(* The kernel's view: one exclusive description, and no shared one with it. *)
FlockExclusive ==
  \A p \in Procs :
    flock[p] => /\ \A q \in Procs : flock[q] => p = q
                /\ \A t \in Threads : reads[t] = 0

(* A thread inside lock_exclusive() holds its gate and found no owner. *)
GateHeldAcrossFlock ==
  \A t \in Threads :
    pc[t] = "flock" => /\ gate[ProcOf[t]] = t
                       /\ owner[ProcOf[t]] = NoThread

IndInv ==
  /\ TypeOK
  /\ OwnerHoldsFlock
  /\ GuardsBelongToOwner
  /\ FlockExclusive
  /\ GateHeldAcrossFlock

LEMMA InitIndInv == Init => IndInv
  BY RepoLockAssumption
     DEF Init, IndInv, TypeOK, OwnerHoldsFlock, GuardsBelongToOwner,
         FlockExclusive, GateHeldAcrossFlock, PcValues

LEMMA NextIndInv == IndInv /\ [Next]_vars => IndInv'
<1> SUFFICES ASSUME IndInv, [Next]_vars
             PROVE  IndInv'
  OBVIOUS
<1> USE RepoLockAssumption DEF IndInv, TypeOK, OwnerHoldsFlock,
        GuardsBelongToOwner, FlockExclusive, GateHeldAcrossFlock, PcValues
<1>1. ASSUME NEW t \in Threads, WriteReenter(t) PROVE IndInv'
  BY <1>1 DEF WriteReenter, EnterWrite, StartCall, GateFree
<1>2. ASSUME NEW t \in Threads, WriteBegin(t) PROVE IndInv'
  BY <1>2 DEF WriteBegin, EnterWrite, StartCall, GateFree, guardVars
<1>3. ASSUME NEW t \in Threads, WriteWait(t) PROVE IndInv'
  BY <1>3 DEF WriteWait, EnterWrite, StartCall, GateFree, lockVars, guardVars
<1>4. ASSUME NEW t \in Threads, WriteError(t) PROVE IndInv'
  BY <1>4 DEF WriteError, guardVars
<1>5. ASSUME NEW t \in Threads, SpuriousWake(t) PROVE IndInv'
  BY <1>5 DEF SpuriousWake, lockVars, guardVars
<1>6. ASSUME NEW t \in Threads, TryWrite(t) PROVE IndInv'
  BY <1>6 DEF TryWrite, StartCall, GateFree, BecomeOwner, CanLockExclusive,
              ExclusiveHeld, SharedHeld
<1>7. ASSUME NEW t \in Threads, TryRead(t) PROVE IndInv'
  BY <1>7 DEF TryRead, StartCall, CanLockShared, ExclusiveHeld, lockVars
<1>8. ASSUME NEW t \in Threads, ReadCovered(t) PROVE IndInv'
  BY <1>8 DEF ReadCovered, StartCall, lockVars
<1>9. ASSUME NEW t \in Threads, ReadBegin(t) PROVE IndInv'
  BY <1>9 DEF ReadBegin, StartCall, lockVars, guardVars
<1>10. ASSUME NEW t \in Threads, ReadError(t) PROVE IndInv'
  BY <1>10 DEF ReadError, lockVars, guardVars
<1>11. ASSUME NEW t \in Threads, WriteAcquire(t) PROVE IndInv'
  BY <1>11 DEF WriteAcquire, BecomeOwner, CanLockExclusive, ExclusiveHeld,
               SharedHeld
<1>12. ASSUME NEW t \in Threads, ReadAcquire(t) PROVE IndInv'
  BY <1>12 DEF ReadAcquire, CanLockShared, ExclusiveHeld, lockVars
<1>13. ASSUME NEW t \in Threads, DropWrite(t) PROVE IndInv'
  <2>1. /\ owner[ProcOf[t]] = t
        /\ depth[ProcOf[t]] = writes[t]
        /\ pc' \in [Threads -> PcValues]
        /\ \A u \in Threads : pc'[u] = "flock" => pc[u] = "flock"
    BY <1>13 DEF DropWrite, DropGuard, NotifyOne
  <2>2. CASE depth[ProcOf[t]] = 1
    <3>1. /\ owner' = [owner EXCEPT ![ProcOf[t]] = NoThread]
          /\ depth' = [depth EXCEPT ![ProcOf[t]] = 0]
          /\ flock' = [flock EXCEPT ![ProcOf[t]] = FALSE]
          /\ writes' = [writes EXCEPT ![t] = 0]
          /\ covered[t] = 0
          /\ UNCHANGED <<gate, reads, covered, calls, errors>>
      BY <1>13, <2>1, <2>2 DEF DropWrite, DropGuard
    <3> QED BY <2>1, <3>1
  <2>3. CASE depth[ProcOf[t]] # 1
    BY <1>13, <2>1, <2>3 DEF DropWrite, DropGuard
  <2> QED BY <2>2, <2>3
<1>14. ASSUME NEW t \in Threads, DropRead(t) PROVE IndInv'
  BY <1>14 DEF DropRead, lockVars
<1>15. ASSUME NEW t \in Threads, NEW u \in Threads, Handoff(t, u)
       PROVE IndInv'
  <2>1. /\ owner[ProcOf[t]] = t
        /\ depth[ProcOf[t]] = writes[t]
        /\ writes[u] = 0
    BY <1>15 DEF Handoff
  <2> QED BY <1>15, <2>1 DEF Handoff, DropGuard, StartCall
<1>16. ASSUME NEW p \in Procs, Crash(p) PROVE IndInv'
  BY <1>16 DEF Crash
<1>17. CASE UNCHANGED vars
  BY <1>17 DEF vars, lockVars, guardVars
<1> QED
  BY <1>1, <1>2, <1>3, <1>4, <1>5, <1>6, <1>7, <1>8, <1>9, <1>10, <1>11,
     <1>12, <1>13, <1>14, <1>15, <1>16, <1>17
     DEF Next, ThreadNext, Acquire, Release

(* What the inductive invariant says of guards. *)
LEMMA IndInvExclusion == IndInv => Exclusion /\ CoveredReadsProtected
  BY RepoLockAssumption
     DEF IndInv, TypeOK, OwnerHoldsFlock, GuardsBelongToOwner, FlockExclusive,
         Exclusion, CoveredReadsProtected

LEMMA SpecIndInv == Spec => []IndInv
  BY InitIndInv, NextIndInv, PTL DEF Spec

(* lock.rs keeps its state in range: in particular the depth that           *)
(* WriteLockGuard::drop counts down never goes below zero, so the           *)
(* `if state.depth > 0` guard of drop never has to fire.                    *)
THEOREM LockTypeOK == Spec => []TypeOK
<1>1. IndInv => TypeOK
  BY DEF IndInv
<1> QED BY <1>1, SpecIndInv, PTL

(* The first two invariants of lock.rs:4-7, for every set of threads and    *)
(* processes: two threads never both hold the write lock, and no file-      *)
(* backed read guard is out while somebody holds it.                        *)
THEOREM LockExclusion == Spec => []Exclusion
  BY IndInvExclusion, SpecIndInv, PTL

(* The no-op guard that read() returns under the own write lock always      *)
(* stands for an exclusive flock that nobody else writes under, across      *)
(* reentrant drops and handoffs of the guard to worker threads.             *)
THEOREM LockCoveredReads == Spec => []CoveredReadsProtected
  BY IndInvExclusion, SpecIndInv, PTL
=============================================================================
