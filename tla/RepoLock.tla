------------------------------ MODULE RepoLock ------------------------------
(***************************************************************************)
(* The repository lock of crates/fs-prims/src/lock.rs: one lock path, used *)
(* by the threads of several processes.  Cross-process exclusion is        *)
(* flock(2) on a lock file; inside a process a per-path registry entry     *)
(* (a gate mutex, an owner, a depth and a condition variable) makes the    *)
(* write lock exclusive between threads and reentrant for its owner.       *)
(*                                                                         *)
(* flock attaches to an open file description.  Every real read guard has  *)
(* a description of its own; a process has one exclusive description, in   *)
(* GateState::flock.                                                       *)
(*                                                                         *)
(* Guards are lexically scoped in the callers, which the client rules      *)
(* below state: a thread drops the no-op read guards it took under its     *)
(* write lock before it gives that lock up, and a thread that holds a real *)
(* read guard does not call read() or write() again.                       *)
(***************************************************************************)
EXTENDS Integers

CONSTANTS
  Threads,      \* threads of all processes
  Procs,        \* processes that open the lock path
  ProcOf,       \* [Threads -> Procs]
  NoThread,     \* Option<ThreadId>::None
  MaxDepth,     \* bound: nesting depth of write guards and of no-op guards
  MaxCalls,     \* bound: lock calls and spurious wakeups of one thread
  MaxErrors     \* bound: I/O errors from opening or locking the lock file

ASSUME RepoLockAssumption ==
  /\ ProcOf \in [Threads -> Procs]
  /\ NoThread \notin Threads
  /\ MaxDepth \in Nat /\ MaxDepth >= 1
  /\ MaxCalls \in Nat
  /\ MaxErrors \in Nat

VARIABLES
  gate,     \* thread that holds the gate mutex across lock_exclusive()
  owner,    \* GateState::owner
  depth,    \* GateState::depth
  flock,    \* GateState::flock.is_some(): the process's exclusive flock
  pc,       \* where each thread is inside the lock code
  writes,   \* WriteLockGuards that each thread holds
  reads,    \* ReadLockGuards with a file: one shared flock each
  covered,  \* ReadLockGuards without one, taken under the own write lock
  calls,    \* lock calls started, bounded by MaxCalls
  errors    \* I/O errors so far, bounded by MaxErrors

lockVars == <<gate, owner, depth, flock>>
guardVars == <<writes, reads, covered>>
vars == <<lockVars, pc, guardVars, calls, errors>>

PcValues == {"idle", "flock", "waiting", "woken", "sharing"}

(* What the variables range over. *)
TypeOK ==
  /\ gate \in [Procs -> Threads \union {NoThread}]
  /\ owner \in [Procs -> Threads \union {NoThread}]
  /\ depth \in [Procs -> Nat]
  /\ flock \in [Procs -> BOOLEAN]
  /\ pc \in [Threads -> PcValues]
  /\ writes \in [Threads -> Nat]
  /\ reads \in [Threads -> Nat]
  /\ covered \in [Threads -> Nat]
  /\ calls \in [Threads -> 0..MaxCalls]
  /\ errors \in 0..MaxErrors

Init ==
  /\ gate = [p \in Procs |-> NoThread]
  /\ owner = [p \in Procs |-> NoThread]
  /\ depth = [p \in Procs |-> 0]
  /\ flock = [p \in Procs |-> FALSE]
  /\ pc = [t \in Threads |-> "idle"]
  /\ writes = [t \in Threads |-> 0]
  /\ reads = [t \in Threads |-> 0]
  /\ covered = [t \in Threads |-> 0]
  /\ calls = [t \in Threads |-> 0]
  /\ errors = 0

-----------------------------------------------------------------------------
(* lock_gate(): the gate mutex can be taken. *)
GateFree(p) == gate[p] = NoThread

ExclusiveHeld == \E p \in Procs : flock[p]
SharedHeld == \E t \in Threads : reads[t] > 0

(* A fresh description gets LOCK_SH or LOCK_EX without blocking. *)
CanLockShared == ~ExclusiveHeld
CanLockExclusive == ~ExclusiveHeld /\ ~SharedHeld

StartCall(t) ==
  /\ pc[t] = "idle"
  /\ calls[t] < MaxCalls
  /\ calls' = [calls EXCEPT ![t] = @ + 1]

(* A call to write() starts, or one woken from the condition variable loops. *)
EnterWrite(t) ==
  /\ GateFree(ProcOf[t])
  /\ reads[t] = 0                                          \* client rule
  /\ \/ StartCall(t)
     \/ pc[t] = "woken" /\ UNCHANGED calls

(* The thread becomes the outermost holder with its exclusive flock. *)
BecomeOwner(t) ==
  /\ owner' = [owner EXCEPT ![ProcOf[t]] = t]
  /\ depth' = [depth EXCEPT ![ProcOf[t]] = 1]
  /\ flock' = [flock EXCEPT ![ProcOf[t]] = TRUE]
  /\ writes' = [writes EXCEPT ![t] = 1]

(* RepoLock::write, the arm of the owning thread. *)
WriteReenter(t) ==
  /\ EnterWrite(t)
  /\ owner[ProcOf[t]] = t
  /\ depth[ProcOf[t]] < MaxDepth
  /\ depth' = [depth EXCEPT ![ProcOf[t]] = @ + 1]
  /\ writes' = [writes EXCEPT ![t] = @ + 1]
  /\ UNCHANGED <<gate, owner, flock, pc, reads, covered, errors>>

(* RepoLock::write, no owner: block in lock_exclusive() holding the gate. *)
WriteBegin(t) ==
  /\ EnterWrite(t)
  /\ owner[ProcOf[t]] = NoThread
  /\ gate' = [gate EXCEPT ![ProcOf[t]] = t]
  /\ pc' = [pc EXCEPT ![t] = "flock"]
  /\ UNCHANGED <<owner, depth, flock, guardVars, errors>>

(* RepoLock::write, another owner: wait on the condition variable. *)
WriteWait(t) ==
  /\ EnterWrite(t)
  /\ owner[ProcOf[t]] \notin {t, NoThread}
  /\ pc' = [pc EXCEPT ![t] = "waiting"]
  /\ UNCHANGED <<lockVars, guardVars, errors>>

(* Condvar::wait may return without a notification. *)
SpuriousWake(t) ==
  /\ pc[t] = "waiting"
  /\ calls[t] < MaxCalls
  /\ calls' = [calls EXCEPT ![t] = @ + 1]
  /\ pc' = [pc EXCEPT ![t] = "woken"]
  /\ UNCHANGED <<lockVars, guardVars, errors>>

(* lock_exclusive() returns. *)
WriteAcquire(t) ==
  /\ pc[t] = "flock"
  /\ CanLockExclusive
  /\ BecomeOwner(t)
  /\ gate' = [gate EXCEPT ![ProcOf[t]] = NoThread]
  /\ pc' = [pc EXCEPT ![t] = "idle"]
  /\ UNCHANGED <<reads, covered, calls, errors>>

(* open_lock_file() or lock_exclusive() fails: `?` drops the gate. *)
WriteError(t) ==
  /\ pc[t] = "flock"
  /\ errors < MaxErrors
  /\ errors' = errors + 1
  /\ gate' = [gate EXCEPT ![ProcOf[t]] = NoThread]
  /\ pc' = [pc EXCEPT ![t] = "idle"]
  /\ UNCHANGED <<owner, depth, flock, guardVars, calls>>

(* RepoLock::try_write: never blocks on the flock and never reenters. *)
TryWrite(t) ==
  /\ StartCall(t)
  /\ GateFree(ProcOf[t])
  /\ owner[ProcOf[t]] = NoThread
  /\ CanLockExclusive
  /\ BecomeOwner(t)
  /\ UNCHANGED <<gate, pc, reads, covered, errors>>

(* notify_one(): one waiter of the process wakes up, if there is one. *)
NotifyOne(p) ==
  LET waiters == {t \in Threads : ProcOf[t] = p /\ pc[t] = "waiting"}
  IN  IF waiters = {} THEN UNCHANGED pc
      ELSE \E t \in waiters : pc' = [pc EXCEPT ![t] = "woken"]

(* Mutant: the outermost drop forgets to notify the condition variable. *)
DropGuard_NoNotify(p) ==
  /\ depth' = [depth EXCEPT ![p] = @ - 1]
  /\ IF depth[p] = 1
     THEN /\ owner' = [owner EXCEPT ![p] = NoThread]
          /\ flock' = [flock EXCEPT ![p] = FALSE]
     ELSE UNCHANGED <<owner, flock>>
  /\ UNCHANGED pc

(* Mutant: every drop gives the flock and the ownership up, whatever the    *)
(* depth, which stays to be counted down.                                   *)
DropGuard_AnyDepth(p) ==
  /\ depth' = [depth EXCEPT ![p] = @ - 1]
  /\ owner' = [owner EXCEPT ![p] = NoThread]
  /\ flock' = [flock EXCEPT ![p] = FALSE]
  /\ NotifyOne(p)

(* WriteLockGuard::drop of a guard of process p. *)
DropGuard(p) ==
  /\ depth' = [depth EXCEPT ![p] = @ - 1]
  /\ IF depth[p] = 1
     THEN /\ owner' = [owner EXCEPT ![p] = NoThread]
          /\ flock' = [flock EXCEPT ![p] = FALSE]
          /\ NotifyOne(p)
     ELSE UNCHANGED <<owner, flock, pc>>

DropWrite(t) ==
  /\ pc[t] = "idle" /\ writes[t] > 0
  /\ writes[t] = 1 => covered[t] = 0                       \* client rule
  /\ GateFree(ProcOf[t])
  /\ DropGuard(ProcOf[t])
  /\ writes' = [writes EXCEPT ![t] = @ - 1]
  /\ UNCHANGED <<gate, reads, covered, calls, errors>>

(* Mutant: the guard moves to the worker and the owner is not updated. *)
Handoff_KeepOwner(t, u) ==
  /\ t # u /\ ProcOf[u] = ProcOf[t]
  /\ pc[t] = "idle" /\ writes[t] > 0 /\ covered[t] = 0
  /\ StartCall(u) /\ reads[u] = 0
  /\ GateFree(ProcOf[t])
  /\ writes' = [writes EXCEPT ![t] = @ - 1, ![u] = @ + 1]
  /\ UNCHANGED <<lockVars, pc, reads, covered, errors>>

(* The guard moves to worker u, which calls handoff_to_current_thread while *)
(* t waits for the outcome.  Only an outermost guard changes owner; on any  *)
(* other one the call fails and the worker drops the guard it was given.    *)
Handoff(t, u) ==
  LET p == ProcOf[t] IN
  /\ t # u /\ ProcOf[u] = p
  /\ pc[t] = "idle" /\ writes[t] > 0 /\ covered[t] = 0      \* client rule
  /\ StartCall(u) /\ reads[u] = 0                          \* client rule
  /\ GateFree(p)
  /\ IF depth[p] = 1
     THEN /\ owner' = [owner EXCEPT ![p] = u]
          /\ writes' = [writes EXCEPT ![t] = @ - 1, ![u] = @ + 1]
          /\ UNCHANGED <<depth, flock, pc>>
     ELSE /\ DropGuard(p)
          /\ writes' = [writes EXCEPT ![t] = @ - 1]
  /\ UNCHANGED <<gate, reads, covered, errors>>

(* RepoLock::read under the own write lock: a guard without a file. *)
ReadCovered(t) ==
  /\ StartCall(t)
  /\ GateFree(ProcOf[t])
  /\ owner[ProcOf[t]] = t
  /\ covered[t] < MaxDepth
  /\ covered' = [covered EXCEPT ![t] = @ + 1]
  /\ UNCHANGED <<lockVars, pc, writes, reads, errors>>

(* RepoLock::read otherwise: leave the gate, then block in lock_shared(). *)
ReadBegin(t) ==
  /\ StartCall(t)
  /\ reads[t] = 0                                          \* client rule
  /\ GateFree(ProcOf[t])
  /\ owner[ProcOf[t]] # t
  /\ pc' = [pc EXCEPT ![t] = "sharing"]
  /\ UNCHANGED <<lockVars, guardVars, errors>>

ReadAcquire(t) ==
  /\ pc[t] = "sharing"
  /\ CanLockShared
  /\ reads' = [reads EXCEPT ![t] = @ + 1]
  /\ pc' = [pc EXCEPT ![t] = "idle"]
  /\ UNCHANGED <<lockVars, writes, covered, calls, errors>>

ReadError(t) ==
  /\ pc[t] = "sharing"
  /\ errors < MaxErrors
  /\ errors' = errors + 1
  /\ pc' = [pc EXCEPT ![t] = "idle"]
  /\ UNCHANGED <<lockVars, guardVars, calls>>

(* RepoLock::try_read does not look at the gate at all. *)
TryRead(t) ==
  /\ StartCall(t)
  /\ CanLockShared
  /\ reads' = [reads EXCEPT ![t] = @ + 1]
  /\ UNCHANGED <<lockVars, pc, writes, covered, errors>>

(* ReadLockGuard::drop. *)
DropRead(t) ==
  /\ pc[t] = "idle"
  /\ \/ /\ reads[t] > 0
        /\ reads' = [reads EXCEPT ![t] = @ - 1]
        /\ UNCHANGED covered
     \/ /\ covered[t] > 0
        /\ covered' = [covered EXCEPT ![t] = @ - 1]
        /\ UNCHANGED reads
  /\ UNCHANGED <<lockVars, pc, writes, calls, errors>>

(* A process dies: its registry goes and the kernel releases its flocks. *)
Crash(p) ==
  LET Forget(f, v) == [t \in Threads |-> IF ProcOf[t] = p THEN v ELSE f[t]] IN
  /\ gate' = [gate EXCEPT ![p] = NoThread]
  /\ owner' = [owner EXCEPT ![p] = NoThread]
  /\ depth' = [depth EXCEPT ![p] = 0]
  /\ flock' = [flock EXCEPT ![p] = FALSE]
  /\ pc' = Forget(pc, "idle")
  /\ writes' = Forget(writes, 0)
  /\ reads' = Forget(reads, 0)
  /\ covered' = Forget(covered, 0)
  /\ UNCHANGED <<calls, errors>>

Acquire(t) == WriteAcquire(t) \/ ReadAcquire(t)
Release(t) == DropWrite(t) \/ DropRead(t)

ThreadNext(t) ==
  \/ WriteReenter(t) \/ WriteBegin(t) \/ WriteWait(t) \/ WriteError(t)
  \/ SpuriousWake(t)
  \/ TryWrite(t) \/ TryRead(t)
  \/ ReadCovered(t) \/ ReadBegin(t) \/ ReadError(t)
  \/ Acquire(t) \/ Release(t)

Next ==
  \/ \E t \in Threads : ThreadNext(t)
  \/ \E t, u \in Threads : Handoff(t, u)
  \/ \E p \in Procs : Crash(p)

Spec == Init /\ [][Next]_vars

(* A thread that was woken reenters write(), a lock the kernel can grant is *)
(* granted, and lexical scopes end.  No call is ever obliged to start, no   *)
(* error or crash to happen.                                                *)
Resume(t) == pc[t] = "woken" /\ (WriteBegin(t) \/ WriteWait(t))
Fairness ==
  \A t \in Threads : /\ WF_vars(Resume(t))
                     /\ WF_vars(Acquire(t))
                     /\ WF_vars(DropWrite(t))
                     /\ WF_vars(DropRead(t))
FairSpec == Spec /\ Fairness

-----------------------------------------------------------------------------
(* lock.rs:5-7: no two threads, of one process or of two, hold the write    *)
(* lock, and no real read guard is out while a write guard is, through any  *)
(* interleaving of write, try_write, read, try_read, drops, the handoff of  *)
(* a guard to a worker thread, failed calls and crashes.                    *)
Exclusion ==
  \A t, u \in Threads :
    writes[t] > 0 => /\ writes[u] > 0 => t = u
                     /\ reads[u] = 0

(* lock.rs:78-81: a no-op read guard is as good as a shared flock: as long  *)
(* as a thread holds one, nobody else can be writing.                       *)
CoveredReadsProtected ==
  \A t \in Threads :
    covered[t] > 0 => /\ flock[ProcOf[t]]
                      /\ \A u \in Threads \ {t} : writes[u] = 0

(* No lost wakeup: a call to write() that found the lock taken returns once *)
(* the contention it met is over (calls are bounded by MaxCalls), although  *)
(* a barging thread may overtake the one that notify_one() picked.          *)
WriteReturns ==
  \A t \in Threads : pc[t] \in {"flock", "waiting", "woken"} ~> pc[t] = "idle"

(* The same with failing calls: only an error of open or flock, which the   *)
(* error path of write() does not notify anybody of, can leave a waiter     *)
(* asleep (lock.rs:188).                                                    *)
WriteReturnsUnlessError ==
  \A t \in Threads :
    pc[t] \in {"flock", "waiting", "woken"} ~> pc[t] = "idle" \/ errors > 0
=============================================================================
