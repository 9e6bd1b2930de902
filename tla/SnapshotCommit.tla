--------------------------- MODULE SnapshotCommit ---------------------------
(***************************************************************************)
(* How a capture of the worktree commits: the loop of                      *)
(* crates/repo/src/repository_snapshot.rs over execute_reconstructible     *)
(* (atomic/execute.rs), commit_reconstructible_batch_if_unchanged          *)
(* (oplog_core.rs), the publication in refs_manager.rs and the recovery in *)
(* repository_open.rs.                                                     *)
(*                                                                         *)
(* The commit point of a capture is the installation of its pack, which    *)
(* carries the log records and the log position they start at.  The log    *)
(* entry is a view of it: another thread appends it, unsynced, while the   *)
(* capture goes on to publish the thread and returns.  A repository that   *)
(* is opened replays the packs whose entry the log does not have.          *)
(*                                                                         *)
(* Processes share a checkout attached to one thread.  A process is one    *)
(* open Repository; it captures, or (Movers) moves the thread with         *)
(* commit_and_publish, which does not take the repository lock.  A log     *)
(* entry stands for one batch.  Reads of the ref are one step each:        *)
(* RefPublication has their interleavings.                                 *)
(***************************************************************************)
EXTENDS Integers, Sequences, FiniteSets, FiniteSetsExt

CONSTANTS
  Proc,
  Movers,      \* SUBSET Proc: those that also move the thread
  None,        \* no state, no process, no transaction
  Deletes,     \* bound: whether the tracked file may be deleted and made again
  MaxEdits,    \* bound: versions of the tracked file
  MaxStates,   \* bound: states prepared
  MaxLog       \* bound: batches in the log

ASSUME SnapshotCommitAssumption ==
  /\ Movers \subseteq Proc
  /\ None \notin Proc /\ None \notin Nat
  /\ Deletes \in BOOLEAN
  /\ MaxEdits \in Nat /\ MaxStates \in Nat /\ MaxLog \in Nat

VARIABLES
  worktree,  \* version of the tracked file in the checkout; 0: no file
  edits,     \* versions written so far
  made,      \* the states prepared so far; a state's id is its position
  packs,     \* the commit artifacts whose packs are installed
  log,       \* the operation log
  synced,    \* entries of the log that a power loss cannot take
  ref,       \* the file of the thread
  file,      \* the persisted watermark
  witness,   \* the snapshot witness file
  repoLock, refsLock, logLock,   \* process that holds the lock
  pc,
  mem,       \* in-memory watermark
  view,      \* artifact that the process's worker has still to append
  prev,      \* the capture: head it started from ...
  next,      \* ... and its state.  A move: the target
  since,     \* isolation precondition: log head read before the commit
  tip,       \* committed tip
  todo,      \* an open: the artifacts it has still to replay
  stale,     \* history: a capture answered an older state than the newest batch
  overtaken  \* history: a call got the log lock and went on while the batch of a
             \* dead worker waited for an open to replay it

disk == <<packs, log, synced, ref, file, witness>>
locks == <<repoLock, refsLock, logLock>>
call == <<prev, next, since, tip>>
env == <<worktree, edits>>
history == <<stale, overtaken>>
vars == <<env, made, disk, locks, pc, mem, view, call, todo, history>>

State == 1..MaxStates
StateOrNone == State \union {None}

(* SnapshotCommitArtifact: its transaction, where its records go in the log *)
(* and what its Snapshot record says.                                       *)
Artifact == [tx : 0..MaxStates, base : 0..MaxLog, new : State, prev : StateOrNone]
Batch == [tx : 0..MaxStates \union {None}, new : State, prev : StateOrNone]

ASSUME NoneAssumption == None \notin Artifact

PcValues == {"closed", "classify", "recover", "replay", "refused", "idle",
             "build", "recheck", "since", "commit", "publish", "move", "moved"}

(* What the variables range over. *)
TypeOK ==
  /\ worktree \in 0..MaxEdits /\ edits \in 0..MaxEdits
  /\ made \in Seq([content : 0..MaxEdits, tree : 0..MaxStates, parent : StateOrNone])
  /\ Len(made) <= MaxStates
  /\ packs \in SUBSET Artifact
  /\ log \in Seq(Batch) /\ Len(log) <= MaxLog
  /\ synced \in 0..Len(log)
  /\ ref \in StateOrNone
  /\ file \in 0..MaxLog
  /\ witness \in [tip : 0..MaxLog, state : StateOrNone]
  /\ {repoLock, refsLock, logLock} \subseteq Proc \union {None}
  /\ pc \in [Proc -> PcValues]
  /\ mem \in [Proc -> 0..MaxLog]
  /\ view \in [Proc -> Artifact \union {None}]
  /\ prev \in [Proc -> StateOrNone] /\ next \in [Proc -> StateOrNone]
  /\ since \in [Proc -> 0..MaxLog] /\ tip \in [Proc -> 0..MaxLog]
  /\ todo \in [Proc -> SUBSET Artifact]
  /\ {stale, overtaken} \subseteq BOOLEAN

Init ==
  /\ worktree = 0 /\ edits = 0
  /\ made = <<>> /\ packs = {} /\ log = <<>> /\ synced = 0
  /\ ref = None /\ file = 0 /\ witness = [tip |-> 0, state |-> None]
  /\ repoLock = None /\ refsLock = None /\ logLock = None
  /\ pc = [p \in Proc |-> "closed"]
  /\ mem = [p \in Proc |-> 0]
  /\ view = [p \in Proc |-> None]
  /\ prev = [p \in Proc |-> None] /\ next = [p \in Proc |-> None]
  /\ since = [p \in Proc |-> 0] /\ tip = [p \in Proc |-> 0]
  /\ todo = [p \in Proc |-> {}]
  /\ stale = FALSE /\ overtaken = FALSE

-----------------------------------------------------------------------------
Goto(p, l) == pc' = [pc EXCEPT ![p] = l]

Transactions == {log[i].tx : i \in 1..Len(log)} \ {None}

(* The artifacts that the log does not have: a worker is about to append    *)
(* them, or they wait for the next open.                                    *)
Lost == {a \in packs : a.tx \notin Transactions}

(* Those whose worker died. *)
Abandoned == {a \in Lost : \A p \in Proc : view[p] # a}

(* The thread after the first n batches. *)
ValueAt(n) == IF n = 0 THEN None ELSE log[n].new

Larger(a, b) == IF a >= b THEN a ELSE b

(* The records of an artifact, as a batch of the log. *)
BatchOf(a) == [tx |-> a.tx, new |-> a.new, prev |-> a.prev]

(* snapshot_witnessed_load. *)
Witnessed == witness.tip = Len(log) /\ witness.state = ref

(* What a read of the thread by p returns (reconciled_load, and            *)
(* materialize_class at the start of a write): the file when the watermark *)
(* covers the tip or a witness vouches for it, the newest batch otherwise. *)
Folded(p) == Larger(mem[p], file) < Len(log)

ReadValue(p, witnessed) ==
  IF mem[p] >= Len(log) \/ witnessed \/ ~Folded(p) THEN ref ELSE ValueAt(Len(log))

(* What the same read writes: the value that it folded, its watermark and  *)
(* the persisted one.  That takes the refs lock.                           *)
ReadEffect(p, witnessed) ==
  \/ /\ mem[p] >= Len(log) \/ witnessed
     /\ UNCHANGED <<ref, mem, file>>
  \/ /\ mem[p] < Len(log) /\ ~witnessed
     /\ refsLock = None
     /\ ref' = ReadValue(p, witnessed)
     /\ mem' = [mem EXCEPT ![p] = Larger(Larger(@, file), Len(log))]
     /\ file' = IF Folded(p) THEN Len(log) ELSE file

(* The variables of a call go out of scope, and its locks with them. *)
EndCall(p) ==
  /\ prev' = [prev EXCEPT ![p] = None]
  /\ next' = [next EXCEPT ![p] = None]
  /\ since' = [since EXCEPT ![p] = 0]
  /\ tip' = [tip EXCEPT ![p] = 0]
  /\ repoLock' = IF repoLock = p THEN None ELSE repoLock
  /\ refsLock' = IF refsLock = p THEN None ELSE refsLock

-----------------------------------------------------------------------------
(* recover_snapshot_artifact_views lists the commit markers of the packs. *)
OpenList(p) ==
  /\ pc[p] = "closed"
  /\ mem' = [mem EXCEPT ![p] = file]
  /\ todo' = [todo EXCEPT ![p] = packs]
  /\ Goto(p, "classify")
  /\ UNCHANGED <<env, made, disk, locks, view, call, history>>

(* ... and drops the ones whose transaction the log has. *)
OpenClassify(p) ==
  /\ pc[p] = "classify"
  /\ todo' = [todo EXCEPT ![p] = {a \in @ : a.tx \notin Transactions}]
  /\ Goto(p, "recover")
  /\ UNCHANGED <<env, made, disk, locks, mem, view, call, history>>

(* Of the rest, in the order of their positions, the first must start at    *)
(* the log head: behind it the open is refused, and beyond it (a gap) too.  *)
RecoverNext(p) ==
  /\ pc[p] = "recover"
  /\ IF todo[p] = {} THEN Goto(p, "idle")
     ELSE Goto(p, IF Min({a.base : a \in todo[p]}) = Len(log) THEN "replay" ELSE "refused")
  /\ UNCHANGED <<env, made, disk, locks, mem, view, call, todo, history>>

(* Mutant: a replay does not look the transaction up again. *)
Replay_NoLookup(p, a) ==
  /\ pc[p] = "replay" /\ logLock = None
  /\ a \in todo[p] /\ a.base = Min({b.base : b \in todo[p]})
  /\ Len(log) < MaxLog
  /\ log' = Append(log, BatchOf(a)) /\ synced' = Len(log')
  /\ todo' = [todo EXCEPT ![p] = {b \in @ : b.tx # a.tx}]
  /\ Goto(p, "recover")
  /\ UNCHANGED <<env, made, packs, ref, file, witness, locks, mem, view, call, history>>

(* Mutant: artifacts are replayed in no particular order. *)
Replay_Unsorted(p, a) ==
  /\ pc[p] = "replay" /\ logLock = None
  /\ a \in todo[p]
  /\ \/ a.tx \in Transactions /\ UNCHANGED <<log, synced>>
     \/ /\ a.tx \notin Transactions
        /\ Len(log) < MaxLog
        /\ log' = Append(log, BatchOf(a)) /\ synced' = Len(log')
  /\ todo' = [todo EXCEPT ![p] = {b \in @ : b.tx # a.tx}]
  /\ Goto(p, "recover")
  /\ UNCHANGED <<env, made, packs, ref, file, witness, locks, mem, view, call, history>>

(* record_batch_exactly_once_if_unchanged: under the log lock, a durable    *)
(* append unless the transaction is there by now.                           *)
Replay(p, a) ==
  /\ pc[p] = "replay" /\ logLock = None
  /\ a \in todo[p] /\ a.base = Min({b.base : b \in todo[p]})
  /\ \/ a.tx \in Transactions /\ UNCHANGED <<log, synced>>
     \/ /\ a.tx \notin Transactions
        /\ Len(log) < MaxLog
        /\ log' = Append(log, BatchOf(a)) /\ synced' = Len(log')
  /\ todo' = [todo EXCEPT ![p] = {b \in @ : b.tx # a.tx}]
  /\ Goto(p, "recover")
  /\ UNCHANGED <<env, made, packs, ref, file, witness, locks, mem, view, call, history>>

(* Open returned an error: the process ends. *)
GiveUp(p) ==
  /\ pc[p] = "refused"
  /\ todo' = [todo EXCEPT ![p] = {}]
  /\ Goto(p, "closed")
  /\ UNCHANGED <<env, made, disk, locks, mem, view, call, history>>

-----------------------------------------------------------------------------
(* get_thread, of any command: it takes no repository lock. *)
ReadThread(p) ==
  /\ pc[p] = "idle"
  /\ ReadEffect(p, Witnessed)
  /\ UNCHANGED <<env, made, packs, log, synced, witness, locks, pc, view, call, todo,
                 history>>

(* The capture reads the head under the repository lock and releases it. *)
ReadHead(p) ==
  /\ pc[p] = "idle" /\ repoLock = None
  /\ ReadEffect(p, Witnessed)
  /\ prev' = [prev EXCEPT ![p] = ReadValue(p, Witnessed)]
  /\ Goto(p, "build")
  /\ UNCHANGED <<env, made, packs, log, synced, witness, locks, view, next, since,
                 tip, todo, history>>

(* v4ify_capture_tree: an entry that the parent has unchanged keeps its     *)
(* salt, any other gets a new one.  Trees are named by the state that made  *)
(* the salt; the tree without the file has none.                            *)
SaltedTree(content, parent, id) ==
  IF content = 0 THEN 0
  ELSE IF parent # None /\ made[parent].content = content THEN made[parent].tree
  ELSE id

(* prepare: walk the worktree and build the state, without a lock.  A       *)
(* caller may ask for an error (NoChanges) when the tree is the parent's.   *)
Build(p) ==
  LET id == Len(made) + 1
      tree == SaltedTree(worktree, prev[p], id)
  IN
  /\ pc[p] = "build"
  /\ \/ /\ id \in State
        /\ made' = Append(made, [content |-> worktree, tree |-> tree, parent |-> prev[p]])
        /\ next' = [next EXCEPT ![p] = id]
        /\ Goto(p, "recheck")
        /\ UNCHANGED <<locks, prev, since, tip>>
     \/ /\ prev[p] # None /\ tree = made[prev[p]].tree
        /\ Goto(p, "idle")
        /\ EndCall(p)
        /\ UNCHANGED <<made, logLock>>
  /\ UNCHANGED <<env, disk, mem, view, todo, history>>

(* Mutant: the repository lock is released after the check. *)
Recheck_Released(p) ==
  LET v == ReadValue(p, Witnessed)
  IN
  /\ pc[p] = "recheck" /\ repoLock = None
  /\ ReadEffect(p, Witnessed)
  /\ \/ /\ v = prev[p] /\ worktree = made[next[p]].content
        /\ Goto(p, "since")
        /\ UNCHANGED <<repoLock, refsLock, call>>
     \/ /\ v # prev[p] \/ worktree # made[next[p]].content
        /\ Goto(p, "idle")
        /\ EndCall(p)
  /\ UNCHANGED <<env, made, packs, log, synced, witness, logLock, view, todo, history>>

(* Under the repository lock again: the head and the worktree must be what  *)
(* the state was built from, or the capture starts over (or gives up).      *)
Recheck(p) ==
  LET v == ReadValue(p, Witnessed)
  IN
  /\ pc[p] = "recheck" /\ repoLock = None
  /\ ReadEffect(p, Witnessed)
  /\ \/ /\ v = prev[p] /\ worktree = made[next[p]].content
        /\ repoLock' = p
        /\ Goto(p, "since")
        /\ UNCHANGED <<refsLock, call>>
     \/ /\ v # prev[p] \/ worktree # made[next[p]].content
        /\ Goto(p, "idle")
        /\ EndCall(p)
  /\ UNCHANGED <<env, made, packs, log, synced, witness, logLock, view, todo, history>>

(* execute_reconstructible reads the log head, for the isolation check.  It *)
(* joins the worker of the process's last capture first.                    *)
ReadSince(p) ==
  /\ pc[p] = "since" /\ view[p] = None
  /\ since' = [since EXCEPT ![p] = Len(log)]
  /\ Goto(p, "commit")
  /\ UNCHANGED <<env, made, disk, locks, mem, view, prev, next, tip, todo, history>>

(* snapshot_transaction_id: of the inputs that differ here, only the tree. *)
TransactionId(p) == made[next[p]].tree

Conflict(p) == since[p] < Len(log)

(* Under the log lock.  The transaction is in the log already: the output   *)
(* is the state that it committed (reconstruct_committed_output).           *)
AlreadyCommitted(p) ==
  /\ pc[p] = "commit" /\ logLock = None
  /\ \E i \in 1..Len(log) :
       /\ log[i].tx = TransactionId(p)
       /\ next' = [next EXCEPT ![p] = log[i].new]
  /\ tip' = [tip EXCEPT ![p] = Len(log)]
  /\ overtaken' = (overtaken \/ Abandoned # {})
  /\ stale' = (stale \/ next'[p] # ValueAt(Len(log)))
  /\ Goto(p, "publish")
  /\ UNCHANGED <<env, made, disk, locks, mem, view, prev, since, todo>>

(* A batch since then moved the thread: the attempt is rewound and the      *)
(* prepared mutation tried again, from a later log head; after the last     *)
(* attempt the capture fails.                                               *)
IsolationConflict(p) ==
  /\ pc[p] = "commit" /\ logLock = None
  /\ TransactionId(p) \notin Transactions
  /\ Conflict(p)
  /\ since' = [since EXCEPT ![p] = 0]
  /\ Goto(p, "since")
  /\ UNCHANGED <<env, made, disk, locks, mem, view, prev, next, tip, todo, history>>

(* Mutant: the artifact is installed before the log lock is taken. *)
Install_Unlocked(p) ==
  LET a == [tx |-> TransactionId(p), base |-> since[p], new |-> next[p],
            prev |-> prev[p]]
  IN
  /\ pc[p] = "commit"
  /\ TransactionId(p) \notin Transactions
  /\ Len(log) < MaxLog
  /\ packs' = packs \union {a}
  /\ view' = [view EXCEPT ![p] = a]
  /\ logLock' = p
  /\ overtaken' = (overtaken \/ Abandoned # {})
  /\ tip' = [tip EXCEPT ![p] = Len(log) + 1]
  /\ Goto(p, "publish")
  /\ UNCHANGED <<env, made, log, synced, ref, file, witness, repoLock, refsLock, mem,
                 prev, next, since, todo, stale>>

(* install_prepared_artifact, the commit point; the log lock goes to the    *)
(* worker that appends the view.                                            *)
Install(p) ==
  LET a == [tx |-> TransactionId(p), base |-> Len(log), new |-> next[p],
            prev |-> prev[p]]
  IN
  /\ pc[p] = "commit" /\ logLock = None
  /\ TransactionId(p) \notin Transactions
  /\ ~Conflict(p)
  /\ Len(log) < MaxLog
  /\ packs' = packs \union {a}
  /\ view' = [view EXCEPT ![p] = a]
  /\ logLock' = p
  /\ overtaken' = (overtaken \/ Abandoned # {})
  /\ tip' = [tip EXCEPT ![p] = Len(log) + 1]
  /\ Goto(p, "publish")
  /\ UNCHANGED <<env, made, log, synced, ref, file, witness, repoLock, refsLock, mem,
                 prev, next, since, todo, stale>>

(* An I/O error, or the last attempt, before the commit point. *)
CaptureFails(p) ==
  /\ pc[p] \in {"build", "recheck", "since", "commit"}
  /\ Goto(p, "idle")
  /\ EndCall(p)
  /\ UNCHANGED <<env, made, disk, logLock, mem, view, todo, history>>

(* The worker: append_entries_reconstructible, and its lock is dropped. *)
AppendView(p) ==
  /\ view[p] # None
  /\ log' = Append(log, BatchOf(view[p]))
  /\ view' = [view EXCEPT ![p] = None]
  /\ logLock' = None
  /\ UNCHANGED <<env, made, packs, synced, ref, file, witness, repoLock, refsLock, pc,
                 mem, call, todo, history>>

(* materialize_snapshot_thread_after_commit, whatever the thread is by now. *)
PublishSnapshot(p) ==
  /\ pc[p] = "publish" /\ refsLock = None
  /\ ref' = next[p]
  /\ mem' = [mem EXCEPT ![p] = tip[p]]
  /\ witness' = [tip |-> tip[p], state |-> next[p]]
  /\ Goto(p, "idle")
  /\ EndCall(p)
  /\ UNCHANGED <<env, made, packs, log, synced, file, logLock, view, todo, history>>

(* record_native_source or the publication fails: so does the capture,     *)
(* committed as it is.                                                      *)
PublishFails(p) ==
  /\ pc[p] = "publish"
  /\ Goto(p, "idle")
  /\ EndCall(p)
  /\ UNCHANGED <<env, made, disk, logLock, mem, view, todo, history>>

-----------------------------------------------------------------------------
Stored(s) == \E a \in packs : a.new = s

(* set_thread_recorded to another state: commit_and_publish takes the refs  *)
(* lock, publishes what the log has above the watermark, ...                *)
MoveLock(p, s) ==
  /\ p \in Movers
  /\ pc[p] = "idle" /\ refsLock = None
  /\ ReadEffect(p, FALSE)
  /\ Stored(s) /\ s # ReadValue(p, FALSE)
  /\ next' = [next EXCEPT ![p] = s]
  /\ refsLock' = p
  /\ Goto(p, "move")
  /\ UNCHANGED <<env, made, packs, log, synced, witness, repoLock, logLock, view, prev,
                 since, tip, todo, history>>

(* ... appends its record durably, ... *)
MoveCommit(p) ==
  /\ pc[p] = "move" /\ logLock = None
  /\ Len(log) < MaxLog
  /\ log' = Append(log, [tx |-> None, new |-> next[p], prev |-> ref])
  /\ synced' = Len(log')
  /\ overtaken' = (overtaken \/ Abandoned # {})
  /\ Goto(p, "moved")
  /\ UNCHANGED <<env, made, packs, ref, file, witness, locks, mem, view, call, todo, stale>>

(* ... and publishes. *)
MovePublish(p) ==
  /\ pc[p] = "moved"
  /\ ref' = next[p]
  /\ Goto(p, "idle")
  /\ EndCall(p)
  /\ UNCHANGED <<env, made, packs, log, synced, file, witness, logLock, mem, view, todo,
                 history>>

-----------------------------------------------------------------------------
(* The process of p is gone: its memory, its worker and its locks. *)
Gone(P) ==
  LET Reset(f, v) == [p \in Proc |-> IF p \in P THEN v ELSE f[p]]
      Release(l) == IF l \in P THEN None ELSE l
  IN
  /\ pc' = Reset(pc, "closed")
  /\ mem' = Reset(mem, 0)
  /\ view' = Reset(view, None)
  /\ prev' = Reset(prev, None) /\ next' = Reset(next, None)
  /\ since' = Reset(since, 0) /\ tip' = Reset(tip, 0)
  /\ todo' = Reset(todo, {})
  /\ repoLock' = Release(repoLock)
  /\ refsLock' = Release(refsLock)
  /\ logLock' = Release(logLock)

(* The process ends: Drop joins the worker. *)
Exit(p) ==
  /\ pc[p] = "idle" /\ view[p] = None
  /\ Gone({p})
  /\ UNCHANGED <<env, made, disk, history>>

Crash(p) ==
  /\ pc[p] # "closed"
  /\ Gone({p})
  /\ UNCHANGED <<env, made, disk, history>>

(* The machine stops: any unsynced views at the end of the log are gone. *)
PowerLoss ==
  /\ \E n \in synced..Len(log) :
       log' = SubSeq(log, 1, n) /\ synced' = n
  /\ Gone(Proc)
  /\ UNCHANGED <<env, made, packs, ref, file, witness, history>>

(* The user writes a new version of the file, or deletes it. *)
Edit ==
  /\ edits < MaxEdits
  /\ edits' = edits + 1
  /\ \E c \in {edits + 1} \union (IF Deletes THEN {0} ELSE {}) :
       c # worktree /\ worktree' = c
  /\ UNCHANGED <<made, disk, locks, pc, mem, view, call, todo, history>>

Next ==
  \/ \E p \in Proc :
       \/ OpenList(p) \/ OpenClassify(p) \/ RecoverNext(p) \/ GiveUp(p)
       \/ \E a \in todo[p] : Replay(p, a)
       \/ ReadThread(p) \/ ReadHead(p) \/ Build(p) \/ Recheck(p) \/ ReadSince(p)
       \/ AlreadyCommitted(p) \/ IsolationConflict(p) \/ Install(p) \/ CaptureFails(p)
       \/ AppendView(p)
       \/ PublishSnapshot(p) \/ PublishFails(p)
       \/ \E s \in State : MoveLock(p, s)
       \/ MoveCommit(p) \/ MovePublish(p)
       \/ Exit(p) \/ Crash(p)
  \/ PowerLoss
  \/ Edit

Spec == Init /\ [][Next]_vars

-----------------------------------------------------------------------------
(* A transaction commits once, however often a capture is retried, replayed *)
(* by several opens at once, or both (record_batch_exactly_once...).        *)
ExactlyOnce ==
  \A i, j \in 1..Len(log) : log[i].tx = log[j].tx /\ log[i].tx # None => i = j

(* The lost artifacts follow the log without a gap and none starts behind   *)
(* its head: an open can replay them.  Otherwise                            *)
(* recover_snapshot_artifact_views refuses this open and every later one.   *)
RecoverableAlways ==
  /\ {a.base : a \in Lost} = Len(log) .. Len(log) + Cardinality(Lost) - 1
  /\ \A p \in Proc : view[p] # None => view[p].base = Len(log)

(* That is so however often processes and the machine die, until a process  *)
(* that was open when another one died commits over what that one left.     *)
Recoverable == ~overtaken => RecoverableAlways

(* A replay puts a batch where it was first: log positions, and with them   *)
(* the watermarks and witnesses that name them, stay true across a loss,    *)
(* until a process commits over a lost batch.                               *)
SamePosition ==
  ~overtaken =>
    \A i \in 1..Len(log) : log[i].tx # None =>
      \E a \in packs : a.base = i - 1 /\ BatchOf(a) = log[i]

(* The persisted watermark, which a process that opens starts from, never   *)
(* covers a capture that the thread's file lacks, although captures publish *)
(* the file before their batch is in the log, or fail to publish it, and    *)
(* race with the reads of others.  As long as captures alone write the      *)
(* thread, none committed over a lost batch, and none answered an older     *)
(* state than the newest batch (OutputIsNewest, which the code does not     *)
(* keep: it publishes that state).                                          *)
PersistedClean ==
  ~overtaken /\ ~stale /\ Lost = {} /\ (\A i \in 1..Len(log) : log[i].tx # None)
    => (file >= Len(log) => ref = ValueAt(Len(log)))

(* refs_manager.rs, reconciled_load: when the watermark equals the tip the  *)
(* file is authoritative: it has the newest batch, or the one that a worker *)
(* is about to append.                                                      *)
RawAuthoritative ==
  \A p \in Proc :
    pc[p] \notin {"closed", "classify", "recover", "replay", "refused"}
      /\ mem[p] >= Len(log)
    => \/ ref = ValueAt(Len(log))
       \/ \E q \in Proc : view[q] # None /\ ref = view[q].new

(* repository_open.rs: an open is never refused, "another process commits   *)
(* after this snapshot was taken" included.                                 *)
OpenNotRefused == \A p \in Proc : pc[p] # "refused"

(* traits.rs, isolation_keys: CAS-on-commit.  A capture commits on the      *)
(* thread it was built from: no batch between is dropped from its history.  *)
ParentIsHead ==
  \A i \in 1..Len(log) : log[i].tx # None => log[i].prev = ValueAt(i - 1)

(* traits.rs, reconstruct_committed_output is "called ONLY on a             *)
(* crash-retry": what a capture answers is the newest batch.                *)
OutputIsNewest ==
  [][\A p \in Proc : AlreadyCommitted(p) => next'[p] = ValueAt(Len(log))]_vars
=============================================================================
