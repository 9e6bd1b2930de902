--------------------------- MODULE RefPublication ---------------------------
(***************************************************************************)
(* How ref files follow the operation log: crates/refs/src/refs            *)
(* (refs_manager.rs, refs_transactions.rs) over the reconciler and the     *)
(* committer of crates/repo/src/atomic.                                    *)
(*                                                                         *)
(* The log is the truth and the ref files are a view of it that may lag.   *)
(* A handle (one RefManager) keeps a watermark per ref class, the log      *)
(* position up to which it knows the class to be published; the watermarks *)
(* are also persisted, the shared one in the repository and the local one  *)
(* beside the HEAD of each worktree.  A read whose watermark covers the    *)
(* log tip reads the file without a lock.  Any other read, and every       *)
(* write, takes the refs lock and first publishes what the log has above   *)
(* the watermark.                                                          *)
(*                                                                         *)
(* Refs are threads (the shared class; markers and remote threads go the   *)
(* same way) and one HEAD per worktree (the local class), named by its     *)
(* worktree.  A HEAD holds a thread (attached) or a state (detached).  A   *)
(* log entry stands for one committed batch.                               *)
(***************************************************************************)
EXTENDS Integers, Sequences

CONSTANTS
  Client,      \* threads of execution that use a handle
  Handle,      \* RefManagers: of one process each, shared by its clients
  HandleOf,    \* [Client -> Handle]
  Worktree,    \* checkouts that share the repository
  WorktreeOf,  \* [Handle -> Worktree]
  Thread, State,
  Main,        \* the thread that HEAD is attached to in a new repository
  None,        \* Option::None: the thread has no ref
  Keep,        \* a batch, a fold or a plan leaves the ref alone
  Unread,      \* the client has not read the ref
  NoClient, NoRef,
  Uses,        \* [Client -> SUBSET Ref]: refs the client reads and writes
  Writers,       \* clients that write through commit_and_publish
  DirectWriters, \* clients that write through update_refs, unrecorded
  PersistFails,  \* BOOLEAN: writing a watermark file may fail
  MaxLog         \* bound: batches in the log

ASSUME RefPublicationAssumption ==
  /\ HandleOf \in [Client -> Handle]
  /\ WorktreeOf \in [Handle -> Worktree]
  /\ Main \in Thread
  /\ Thread \cap Worktree = {}
  /\ None \notin Thread \union State
  /\ Keep \notin Thread \union State \union {None}
  /\ Unread \notin Thread \union State \union {None}
  /\ NoClient \notin Client
  /\ NoRef \notin Thread \union Worktree
  /\ Uses \in [Client -> SUBSET (Thread \union Worktree)]
  /\ \A c \in Client : Uses[c] \cap Worktree \subseteq {WorktreeOf[HandleOf[c]]}
  /\ Writers \subseteq Client /\ DirectWriters \subseteq Client
  /\ Writers \cap DirectWriters = {}
  /\ PersistFails \in BOOLEAN
  /\ MaxLog \in Nat

Ref == Thread \union Worktree
Value == Thread \union State \union {None}
Class == {"local", "shared"}                        \* RefClass

VARIABLES
  log,      \* the committed batches; a batch's id is its position
  ref,      \* the ref files
  fileLocal,  \* RECONCILE_WATERMARK_LOCAL of each worktree
  fileShared, \* RECONCILE_WATERMARK_SHARED
  mem,      \* in-memory watermarks, per handle and class
  open,     \* handles that are open
  holder,   \* client that holds the refs lock
  pc,       \* where each client is
  class,    \* class it is materializing
  tip,      \* log tip it read, at the gate or under the lock
  want,     \* ref it is reading
  got,      \* values it has read: the expectations of its next write
  upd,      \* its write: a new value or Keep per ref
  plan,     \* refs it has still to publish
  saved,    \* ref files before the publish under way (rollback_updates)
  truth,    \* history: the value of the newest committed write of each ref
  last,     \* history: newest log position that writes the ref
  direct,   \* history: the newest write of the ref is an unrecorded one
  author,   \* history: worktree of the newest write of the ref, None at first
  foreign,  \* history: a HEAD fold published a thread that another worktree
            \*          wrote last
  unsaved,  \* history: writing a watermark file failed
  seen      \* history: values the wanted ref had since the read began

fileVars == <<fileLocal, fileShared>>
taskVars == <<class, tip, upd, plan, saved>>
readVars == <<want, got, seen>>
writes == <<truth, last, direct, author>>
history == <<writes, foreign, unsaved>>
vars == <<log, ref, fileVars, mem, open, holder, pc, taskVars, readVars, history>>

PcValues == {"idle", "gate", "raw", "locking", "tip", "publish", "validate",
             "commit", "apply"}

Entry == [scope : Worktree, upd : [Ref -> Value \union {Keep}]]

RepoTypeOK ==
  /\ log \in Seq(Entry) /\ Len(log) <= MaxLog
  /\ ref \in [Ref -> Value]
  /\ fileLocal \in [Worktree -> 0..MaxLog]
  /\ fileShared \in 0..MaxLog
  /\ mem \in [Handle -> [Class -> 0..MaxLog]]
  /\ open \in [Handle -> BOOLEAN]
  /\ holder \in Client \union {NoClient}

CallTypeOK ==
  /\ pc \in [Client -> PcValues]
  /\ class \in [Client -> Class]
  /\ tip \in [Client -> 0..MaxLog]
  /\ upd \in [Client -> [Ref -> Value \union {Keep}]]
  /\ plan \in [Client -> [Ref -> Value \union {Keep}]]
  /\ saved \in [Client -> [Ref -> Value]]
  /\ want \in [Client -> Ref \union {NoRef}]
  /\ got \in [Client -> [Ref -> Value \union {Unread}]]

HistoryTypeOK ==
  /\ truth \in [Ref -> Value]
  /\ last \in [Ref -> 0..MaxLog]
  /\ direct \in [Ref -> BOOLEAN]
  /\ author \in [Ref -> Worktree \union {None}]
  /\ foreign \in BOOLEAN /\ unsaved \in BOOLEAN
  /\ seen \in [Client -> SUBSET Value]

(* What the variables range over. *)
TypeOK == RepoTypeOK /\ CallTypeOK /\ HistoryTypeOK

Nothing == [r \in Ref |-> Keep]
Unseen == [r \in Ref |-> Unread]
InitialRefs == [r \in Ref |-> IF r \in Thread THEN None ELSE Main]

Init ==
  /\ log = <<>>
  /\ ref = InitialRefs
  /\ fileLocal = [w \in Worktree |-> 0]
  /\ fileShared = 0
  /\ mem = [h \in Handle |-> [k \in Class |-> 0]]
  /\ open = [h \in Handle |-> FALSE]
  /\ holder = NoClient
  /\ pc = [c \in Client |-> "idle"]
  /\ class = [c \in Client |-> "local"]
  /\ tip = [c \in Client |-> 0]
  /\ want = [c \in Client |-> NoRef]
  /\ got = [c \in Client |-> Unseen]
  /\ upd = [c \in Client |-> Nothing]
  /\ plan = [c \in Client |-> Nothing]
  /\ saved = [c \in Client |-> InitialRefs]
  /\ truth = InitialRefs
  /\ last = [r \in Ref |-> 0]
  /\ direct = [r \in Ref |-> FALSE]
  /\ author = [r \in Ref |-> None]
  /\ foreign = FALSE
  /\ unsaved = FALSE
  /\ seen = [c \in Client |-> {}]

-----------------------------------------------------------------------------
(* The worktree whose HEAD and local watermark client c works on. *)
Home(c) == WorktreeOf[HandleOf[c]]

(* LoadRequest::ref_class. *)
ClassOf(r) == IF r \in Thread THEN "shared" ELSE "local"

Watermark(c, k) == mem[HandleOf[c]][k]

(* read_single_watermark of the class's file. *)
Persisted(c, k) == IF k = "shared" THEN fileShared ELSE fileLocal[Home(c)]

Larger(a, b) == IF a >= b THEN a ELSE b

Reading(c) == want[c] # NoRef

(* The log positions that a fold of class k above `since` applies to ref r: *)
(* the whole tail for shared refs, the entries of the own scope for local.  *)
FoldTail(c, k, since, r) ==
  {i \in since + 1 .. Len(log) :
     /\ log[i].upd[r] # Keep
     /\ k = "local" => log[i].scope = Home(c)}

(* fold_batches: entries are applied in id order, the newest target wins. *)
FoldValue(c, k, since, r) ==
  LET S == FoldTail(c, k, since, r)
  IN  IF S = {} THEN Keep
      ELSE log[CHOOSE i \in S : \A j \in S : j <= i].upd[r]

(* class_materialization: a shared fold republishes every thread it holds;  *)
(* a local one republishes HEAD and, when that attaches HEAD to a thread    *)
(* that the same fold holds, the thread too.                                *)
Republish(c, k, since, r) ==
  LET head == FoldValue(c, "local", since, Home(c))
  IN  IF \/ k = "shared" /\ r \in Thread
         \/ k = "local" /\ r = Home(c)
         \/ k = "local" /\ r \in Thread /\ r = head
      THEN FoldValue(c, k, since, r)
      ELSE Keep

(* Mutant: a folded value only fills in a missing ref. *)
Lagging_FillIfAbsent(c, k, since) ==
  [r \in Ref |-> IF ref[r] = None THEN Republish(c, k, since, r) ELSE Keep]

(* plan_materialization: only refs whose file differs are published. *)
Lagging(c, k, since) ==
  [r \in Ref |-> IF Republish(c, k, since, r) = ref[r] THEN Keep
                 ELSE Republish(c, k, since, r)]

(* A plan for the own HEAD takes in a thread whose newest write was made in *)
(* another worktree: the fold has left that write out.                      *)
Strays(c, p) ==
  class[c] = "local" /\ \E r \in Thread : p[r] # Keep /\ author[r] # Home(c)

(* reconciled_value: a folded value is authoritative over the raw one. *)
Reconciled(c, k, since, r) ==
  LET v == FoldValue(c, k, since, r) IN IF v = Keep THEN ref[r] ELSE v

(* reconciled_value_under_lock. *)
CurrentUnderLock(c, r) ==
  IF Watermark(c, ClassOf(r)) >= Len(log) THEN ref[r]
  ELSE Reconciled(c, ClassOf(r), Watermark(c, ClassOf(r)), r)

Touched(u) == {r \in Ref : u[r] # Keep}

(* The batches a client can write: threads get a state or are deleted, the  *)
(* HEAD of the own worktree is attached or detached.                        *)
Batches(c) ==
  {u \in [Ref -> Value \union {Keep}] :
     /\ Touched(u) # {}
     /\ Touched(u) \subseteq Uses[c]
     /\ \A r \in Touched(u) : u[r] \in State \union (IF r \in Thread THEN {None}
                                                      ELSE Thread)}

(* The truth of some refs changes: reads under way may return either value. *)
Observe(t) ==
  seen' = [c \in Client |-> IF Reading(c)
                            THEN seen[c] \union {t[want[c]]} ELSE seen[c]]

Goto(c, l) == pc' = [pc EXCEPT ![c] = l]

(* The variables of the call of client c go out of scope. *)
ForgetTask(c) ==
  /\ class' = [class EXCEPT ![c] = "local"]
  /\ tip' = [tip EXCEPT ![c] = 0]
  /\ upd' = [upd EXCEPT ![c] = Nothing]
  /\ plan' = [plan EXCEPT ![c] = Nothing]
  /\ saved' = [saved EXCEPT ![c] = InitialRefs]
  /\ want' = [want EXCEPT ![c] = NoRef]
  /\ seen' = [seen EXCEPT ![c] = {}]

(* The call returns and drops the refs lock. *)
Return(c) ==
  /\ Goto(c, "idle")
  /\ holder' = NoClient
  /\ ForgetTask(c)

(* What a client read is of no use after a failed call or a write. *)
ForgetReads(c) == got' = [got EXCEPT ![c] = Unseen]

-----------------------------------------------------------------------------
(* with_reconciler and init_reconcile_watermark: both files exist since the *)
(* repository was created, so the handle starts from them.                  *)
Open(h) ==
  /\ ~open[h]
  /\ open' = [open EXCEPT ![h] = TRUE]
  /\ mem' = [mem EXCEPT ![h] = [k \in Class |->
                IF k = "shared" THEN fileShared ELSE fileLocal[WorktreeOf[h]]]]
  /\ UNCHANGED <<log, ref, fileVars, holder, pc, taskVars, readVars, history>>

(* The process of handle h ends, anywhere in the code of its clients.  The  *)
(* kernel drops its refs lock; a publish under way stays half done.         *)
Close(h) ==
  LET Mine(c) == HandleOf[c] = h
      Reset(f, v) == [c \in Client |-> IF Mine(c) THEN v ELSE f[c]]
  IN
  /\ open[h]
  /\ open' = [open EXCEPT ![h] = FALSE]
  /\ holder' = IF holder # NoClient /\ Mine(holder) THEN NoClient ELSE holder
  /\ mem' = [mem EXCEPT ![h] = [k \in Class |-> 0]]
  /\ pc' = Reset(pc, "idle")
  /\ class' = Reset(class, "local")
  /\ tip' = Reset(tip, 0)
  /\ upd' = Reset(upd, Nothing)
  /\ plan' = Reset(plan, Nothing)
  /\ saved' = Reset(saved, InitialRefs)
  /\ want' = Reset(want, NoRef)
  /\ seen' = Reset(seen, {})
  /\ got' = Reset(got, Unseen)
  /\ UNCHANGED <<log, ref, fileVars, history>>

(* reconciled_load reads the log tip: generation(). *)
BeginRead(c, r) ==
  /\ pc[c] = "idle" /\ open[HandleOf[c]]
  /\ r \in Uses[c]
  /\ want' = [want EXCEPT ![c] = r]
  /\ seen' = [seen EXCEPT ![c] = {truth[r]}]
  /\ tip' = [tip EXCEPT ![c] = Len(log)]
  /\ Goto(c, "gate")
  /\ UNCHANGED <<log, ref, fileVars, mem, open, holder, class, upd, plan, saved, got,
                 history>>

(* Mutant: the gate lets a read through that is one batch behind. *)
Gate_Loose(c) ==
  /\ pc[c] = "gate"
  /\ Goto(c, IF Watermark(c, ClassOf(want[c])) + 1 >= tip[c] THEN "raw" ELSE "locking")
  /\ tip' = [tip EXCEPT ![c] = 0]
  /\ UNCHANGED <<log, ref, fileVars, mem, open, holder, class, upd, plan, saved,
                 readVars, history>>

(* Its gate: the watermark is loaded later than the tip, which may have     *)
(* moved, and the watermark with it.  That tip is not used again.           *)
Gate(c) ==
  /\ pc[c] = "gate"
  /\ Goto(c, IF Watermark(c, ClassOf(want[c])) >= tip[c] THEN "raw" ELSE "locking")
  /\ tip' = [tip EXCEPT ![c] = 0]
  /\ UNCHANGED <<log, ref, fileVars, mem, open, holder, class, upd, plan, saved,
                 readVars, history>>

(* raw_load after the gate, without a lock. *)
RawRead(c) ==
  /\ pc[c] = "raw"
  /\ got' = [got EXCEPT ![c][want[c]] = ref[want[c]]]
  /\ Goto(c, "idle")
  /\ ForgetTask(c)
  /\ UNCHANGED <<log, ref, fileVars, mem, open, holder, history>>

(* set_thread_recorded, delete_thread_recorded, write_head_recorded and     *)
(* publish_clone_checkout: having read the refs, write the ones that differ *)
(* and expect the values that were read.                                    *)
BeginRecorded(c, u) ==
  /\ c \in Writers
  /\ pc[c] = "idle" /\ open[HandleOf[c]]
  /\ \A r \in Touched(u) : got[c][r] \notin {Unread, u[r]}
  /\ upd' = [upd EXCEPT ![c] = u]
  /\ Goto(c, "locking")
  /\ UNCHANGED <<log, ref, fileVars, mem, open, holder, class, tip, plan, saved,
                 readVars, history>>

(* set_thread and write_head: update_refs of one ref, whatever its value.   *)
BeginDirect(c, u) ==
  /\ c \in DirectWriters
  /\ pc[c] = "idle" /\ open[HandleOf[c]]
  /\ \A r, s \in Touched(u) : r = s
  /\ upd' = [upd EXCEPT ![c] = u]
  /\ Goto(c, "locking")
  /\ UNCHANGED <<log, ref, fileVars, mem, open, holder, class, tip, plan, saved,
                 readVars, history>>

(* Mutant: update_refs writes without materializing the tail first. *)
Lock_DirectSkipsTail(c) ==
  /\ pc[c] = "locking"
  /\ holder = NoClient
  /\ holder' = c
  /\ class' = [class EXCEPT ![c] = IF Reading(c) THEN ClassOf(want[c]) ELSE "local"]
  /\ Goto(c, IF c \in DirectWriters /\ ~Reading(c) THEN "validate" ELSE "tip")
  /\ UNCHANGED <<log, ref, fileVars, mem, open, tip, upd, plan, saved, readVars,
                 history>>

(* lock_refs.  A read materializes the class of its ref, a write both. *)
Lock(c) ==
  /\ pc[c] = "locking"
  /\ holder = NoClient
  /\ holder' = c
  /\ class' = [class EXCEPT ![c] = IF Reading(c) THEN ClassOf(want[c]) ELSE "local"]
  /\ Goto(c, "tip")
  /\ UNCHANGED <<log, ref, fileVars, mem, open, tip, upd, plan, saved, readVars,
                 history>>

(* lock_refs gives up after MAX_LOCK_WAIT_SECS, or reading the log, a ref    *)
(* file or the lock file fails: the call fails.                             *)
FailUnlocked(c) ==
  /\ pc[c] \in {"gate", "raw", "locking"}
  /\ Goto(c, "idle")
  /\ ForgetTask(c)
  /\ ForgetReads(c)
  /\ UNCHANGED <<log, ref, fileVars, mem, open, holder, history>>

(* The class is up to date: a read returns, a write goes on to the shared   *)
(* class and then to its own phases (materialize_committed_tail).           *)
Materialized(c) ==
  IF Reading(c)
  THEN Return(c)
  ELSE /\ Goto(c, IF class[c] = "local" THEN "tip" ELSE "validate")
       /\ class' = [class EXCEPT ![c] = "shared"]
       /\ UNCHANGED <<holder, tip, upd, plan, saved, want, seen>>

(* materialize_class, and reconciled_load under the lock, up to the publish: *)
(* read the tip, adopt a persisted watermark that is ahead of the own one,   *)
(* fold the tail above it and plan what differs.  A class that is not behind *)
(* is skipped.  The value of a read is projected out of the same fold.       *)
MaterializeClass(c) ==
  LET k == class[c]
      m == Larger(Watermark(c, k), Persisted(c, k))
      behind == m < Len(log)
  IN
  /\ pc[c] = "tip"
  /\ mem' = [mem EXCEPT ![HandleOf[c]][k] = m]
  /\ got' = IF Reading(c)
            THEN [got EXCEPT ![c][want[c]] =
                    IF behind THEN Reconciled(c, k, m, want[c]) ELSE ref[want[c]]]
            ELSE got
  /\ \/ /\ behind
        /\ tip' = [tip EXCEPT ![c] = Len(log)]
        /\ plan' = [plan EXCEPT ![c] = Lagging(c, k, m)]
        /\ saved' = [saved EXCEPT ![c] = ref]
        /\ Goto(c, "publish")
        /\ UNCHANGED <<holder, class, upd, want, seen>>
        /\ foreign' = (foreign \/ Strays(c, plan'[c]))
     \/ ~behind /\ Materialized(c) /\ UNCHANGED foreign
  /\ UNCHANGED <<log, ref, fileVars, open, writes, unsaved>>

(* One rename or removal of publish_ref_plans, of a materialization or of a *)
(* recorded write.                                                          *)
Publish(c, r) ==
  /\ pc[c] = "publish" \/ (pc[c] = "apply" /\ c \notin DirectWriters)
  /\ plan[c][r] # Keep
  /\ ref' = [ref EXCEPT ![r] = plan[c][r]]
  /\ plan' = [plan EXCEPT ![c][r] = Keep]
  /\ UNCHANGED <<log, fileVars, mem, open, holder, pc, class, tip, upd, saved,
                 readVars, history>>

(* An unrecorded write of a ref file takes effect in the file. *)
DirectWrite(c, r, v) ==
  /\ ref' = [ref EXCEPT ![r] = v]
  /\ truth' = [truth EXCEPT ![r] = v]
  /\ direct' = [direct EXCEPT ![r] = TRUE]
  /\ author' = [author EXCEPT ![r] = Home(c)]
  /\ Observe(truth')
  /\ UNCHANGED <<log, fileVars, mem, open, holder, pc, class, tip, upd, saved,
                 want, got, last, foreign, unsaved>>

(* The rename or removal of update_refs ... *)
PublishDirect(c, r) ==
  /\ pc[c] = "apply" /\ c \in DirectWriters
  /\ plan[c][r] # Keep
  /\ plan' = [plan EXCEPT ![c][r] = Keep]
  /\ DirectWrite(c, r, plan[c][r])

(* ... which rollback_updates takes back if the packed file cannot follow. *)
UndoDirect(c, r) ==
  /\ pc[c] = "apply" /\ c \in DirectWriters
  /\ plan[c] = Nothing /\ upd[c][r] # Keep
  /\ DirectWrite(c, r, saved[c][r])
  /\ UNCHANGED plan

(* publish_ref_plans of a materialization or of a recorded write fails.     *)
(* rollback_updates puts the old files back, unless it fails too; when only *)
(* the directory sync fails, nothing is put back.  A materialization fails  *)
(* the call; a recorded write has committed and reports success.            *)
PublishFail(c) ==
  /\ pc[c] = "publish" \/ (pc[c] = "apply" /\ c \notin DirectWriters)
  /\ \E back \in SUBSET Ref :
       ref' = [r \in Ref |-> IF r \in back THEN saved[c][r] ELSE ref[r]]
  /\ Return(c)
  /\ ForgetReads(c)
  /\ UNCHANGED <<log, fileVars, mem, open, history>>

(* Mutant: the watermark is stored one past the tip. *)
AdvanceWatermark_OffByOne(c) ==
  /\ pc[c] = "publish"
  /\ plan[c] = Nothing
  /\ mem' = [mem EXCEPT ![HandleOf[c]][class[c]] = tip[c] + 1]
  /\ Materialized(c)
  /\ UNCHANGED <<log, ref, fileVars, open, got, history>>

(* The class is materialized: watermark.store(tip), then                    *)
(* persist_reconcile_watermark writes both watermarks of the handle, the    *)
(* local one first and neither below its file.  Its errors are ignored.     *)
AdvanceWatermark(c) ==
  LET new == [mem[HandleOf[c]] EXCEPT ![class[c]] = tip[c]] IN
  /\ pc[c] = "publish"
  /\ plan[c] = Nothing
  /\ mem' = [mem EXCEPT ![HandleOf[c]] = new]
  /\ \/ /\ fileLocal' = [fileLocal EXCEPT ![Home(c)] = Larger(@, new["local"])]
        /\ \/ fileShared' = Larger(fileShared, new["shared"]) /\ UNCHANGED unsaved
           \/ PersistFails /\ UNCHANGED fileShared /\ unsaved' = TRUE
     \/ PersistFails /\ UNCHANGED fileVars /\ unsaved' = TRUE
  /\ Materialized(c)
  /\ UNCHANGED <<log, ref, open, got, writes, foreign>>

(* Mutant: the expectations are not checked. *)
Validate_NoCheck(c) ==
  /\ pc[c] = "validate" /\ c \notin DirectWriters
  /\ Goto(c, "commit")
  /\ UNCHANGED <<log, ref, fileVars, mem, open, holder, taskVars, readVars,
                 history>>

(* plan_ref_updates: every expectation against the reconciled value.  On a  *)
(* conflict the call fails (the callers read again and retry).              *)
Validate(c) ==
  /\ pc[c] = "validate" /\ c \notin DirectWriters
  /\ \A r \in Touched(upd[c]) : CurrentUnderLock(c, r) = got[c][r]
  /\ Goto(c, "commit")
  /\ UNCHANGED <<log, ref, fileVars, mem, open, holder, taskVars, readVars,
                 history>>

Conflict(c) ==
  /\ pc[c] = "validate" /\ c \notin DirectWriters
  /\ \E r \in Touched(upd[c]) : CurrentUnderLock(c, r) # got[c][r]
  /\ Return(c)
  /\ ForgetReads(c)
  /\ UNCHANGED <<log, ref, fileVars, mem, open, history>>

(* update_refs_with_lock: RefExpectation::Any accepts every value, and no   *)
(* record precedes the publish.                                             *)
PlanDirect(c) ==
  /\ pc[c] = "validate" /\ c \in DirectWriters
  /\ plan' = [plan EXCEPT ![c] = upd[c]]
  /\ saved' = [saved EXCEPT ![c] = ref]
  /\ Goto(c, "apply")
  /\ UNCHANGED <<log, ref, fileVars, mem, open, holder, class, tip, upd, readVars,
                 history>>

(* OplogRefCommitter::commit_records, the commit point: one batch is        *)
(* appended under the oplog lock, with no check of its own.                 *)
Commit(c) ==
  LET u == upd[c]
      n == Len(log) + 1
      Over(f, v) == [r \in Ref |-> IF u[r] = Keep THEN f[r] ELSE v]
  IN
  /\ pc[c] = "commit"
  /\ Len(log) < MaxLog
  /\ log' = Append(log, [scope |-> Home(c), upd |-> u])
  /\ plan' = [plan EXCEPT ![c] = u]
  /\ saved' = [saved EXCEPT ![c] = ref]
  /\ Goto(c, "apply")
  /\ truth' = [r \in Ref |-> IF u[r] = Keep THEN truth[r] ELSE u[r]]
  /\ last' = Over(last, n)
  /\ direct' = Over(direct, FALSE)
  /\ author' = Over(author, Home(c))
  /\ Observe(truth')
  /\ UNCHANGED <<ref, fileVars, mem, open, holder, class, tip, upd, want, got,
                 foreign, unsaved>>

(* A call fails under the lock before it has changed anything: reading the  *)
(* log or a file fails, commit_records fails (also where the model bounds   *)
(* the log), or the first rename of an unrecorded write does.               *)
FailLocked(c) ==
  /\ \/ pc[c] \in {"tip", "validate", "commit"}
     \/ pc[c] = "apply" /\ c \in DirectWriters
  /\ Return(c)
  /\ ForgetReads(c)
  /\ UNCHANGED <<log, ref, fileVars, mem, open, history>>

ApplyDone(c) ==
  /\ pc[c] = "apply"
  /\ plan[c] = Nothing
  /\ Return(c)
  /\ ForgetReads(c)
  /\ UNCHANGED <<log, ref, fileVars, mem, open, history>>

ClientNext(c) ==
  \/ \E r \in Ref : BeginRead(c, r) \/ Publish(c, r)
                 \/ PublishDirect(c, r) \/ UndoDirect(c, r)
  \/ \E u \in Batches(c) : BeginRecorded(c, u) \/ BeginDirect(c, u)
  \/ Gate(c) \/ RawRead(c) \/ Lock(c) \/ FailUnlocked(c)
  \/ MaterializeClass(c) \/ PublishFail(c) \/ AdvanceWatermark(c)
  \/ Validate(c) \/ Conflict(c) \/ PlanDirect(c)
  \/ Commit(c) \/ FailLocked(c) \/ ApplyDone(c)

Next ==
  \/ \E c \in Client : ClientNext(c)
  \/ \E h \in Handle : Open(h) \/ Close(h)

Spec == Init /\ [][Next]_vars

-----------------------------------------------------------------------------
(* Some watermark, in memory or on disk, vouches for the records of ref r   *)
(* up to position n.                                                        *)
Vouched(r, n) ==
  \/ \E h \in Handle : r \in Thread \union {WorktreeOf[h]} /\ n <= mem[h][ClassOf(r)]
  \/ n <= IF r \in Thread THEN fileShared ELSE fileLocal[r]

(* ... and for its newest one. *)
Covered(r) == Vouched(r, last[r])

(* A fold may have put an older record over a newer write.  A HEAD fold     *)
(* sees only the entries of its own worktree, so a thread that it publishes *)
(* with HEAD may have a newer write of another worktree; and an unrecorded  *)
(* write is safe from later folds only as the watermark files cover the     *)
(* records below it, so none may have failed to be written.                 *)
MayRevert == foreign \/ (unsaved /\ DirectWriters # {})

(* refs_manager.rs:377-378: a watermark is a known-materialized point.  A    *)
(* ref that a watermark covers has the value of its newest write in its      *)
(* file, at every moment of every publish, crash and rollback ...            *)
WatermarkSoundAlways == \A r \in Ref : Covered(r) => ref[r] = truth[r]

(* ... which is what the lock-free read relies on.  It holds for any number  *)
(* of processes and worktrees until the code lets a fold revert a write      *)
(* (MayRevert), and fails after that.                                        *)
WatermarkSound == ~MayRevert => WatermarkSoundAlways

(* refs_manager.rs:431-435: a logical read returns a value that the newest  *)
(* committed write of the ref had at some moment of the call, whether it    *)
(* read the file without a lock or folded the tail (except MayRevert).  The  *)
(* log of the model grows only under the refs lock: the writers here are the *)
(* RefManagers, and SnapshotCommit has the captures, which do not take it.   *)
ReadsFresh ==
  [][\A c \in Client :
       LET r == want[c] IN
       r # NoRef /\ want'[c] = NoRef /\ got'[c][r] # Unread
         => got'[c][r] \in seen[c] \/ MayRevert]_vars

(* refs_manager.rs:172-181: a write that passed its expectations appends    *)
(* its record on top of exactly the values it expects, also after another   *)
(* process committed and died before it published (except MayRevert).  As    *)
(* above, only writers that hold the refs lock append.                       *)
ExpectationsHold ==
  ~MayRevert =>
    \A c \in Client :
      pc[c] = "commit" => \A r \in Touched(upd[c]) : got[c][r] = truth[r]
=============================================================================
