---------------------------- MODULE ThreadStart -----------------------------
(***************************************************************************)
(* `heddle start <name>`, run by several processes on one thread name:     *)
(* start_thread (crates/cli/src/cli/commands/thread.rs), the StartThread   *)
(* mutation it executes (start_atomic.rs), and the executor, the rewind    *)
(* ledger and the exactly-once commit below it (crates/repo/src/atomic,    *)
(* crates/oplog).                                                          *)
(*                                                                         *)
(* A start reads the ref and the record, derives the transaction id, plans *)
(* the target, and then stages four effects, each visible at once and each *)
(* with an inverse on the ledger: the directory, the ref, the checkout and *)
(* the record.  One append to the operation log commits them.  An error, a *)
(* conflict or a duplicate runs the ledger backwards; a crash runs         *)
(* nothing.  The workspace mode is Solid, without the optional effects     *)
(* (manifest, cargo redirect, hydrate, mount), and no writer lease is      *)
(* active.                                                                 *)
(*                                                                         *)
(* States are numbered: 1 is the first state of main, and a commit at log  *)
(* position n makes state n + 1.  A log entry stands for one batch.        *)
(***************************************************************************)
EXTENDS Integers, Sequences

CONSTANTS
  Proc,         \* processes that run start
  Path,         \* checkout directories they are asked for
  NoProc, NoPath, NoRecord,
  Absent,       \* there is no directory at the path
  MaxAttempts,  \* MAX_ATTEMPTS
  Faults,       \* "crash"; "io": a step may fail before it has an effect;
                \* "rewind": an inverse may fail; "sync": the append may
                \* report an error after its batch is in the log
  MaxLog,       \* bound: batches in the log
  MaxClock,     \* bound: fresh start epochs
  MaxPresence   \* bound: presence entries of the thread

ASSUME ThreadStartAssumption ==
  /\ NoProc \notin Proc /\ NoPath \notin Path
  /\ \A files \in SUBSET {"meta", "tree"} : Absent # files
  /\ NoRecord \notin [epoch : Nat, path : Path, active : BOOLEAN]
  /\ MaxAttempts \in Nat \ {0}
  /\ Faults \subseteq {"crash", "io", "rewind", "sync"}
  /\ MaxLog \in Nat /\ MaxClock \in Nat /\ MaxPresence \in Nat

VARIABLES
  log,       \* the operation log, as far as it touches the thread or main
  main,      \* state of the thread that the start branches from
  ref,       \* the thread's ref file: a state or NoState
  genesis,   \* base that the name is bound to in local_thread_names
  record,    \* the thread's record (ThreadManager)
  dir,       \* the checkout directories
  presence,  \* presence entries of the thread (ActorPresenceStore)
  clock,     \* the last start epoch handed out
  pc,        \* where each process is
  path, existing, base, epoch,   \* the request: target, ref as read, base
  planNew,   \* the plan is to create the target
  attempt, since,   \* number of the attempt, and the log's length before it
  claim,     \* TargetDir of the attempt
  prior,     \* the record that stage_record replaced
  ledger,    \* the inverses registered with the transaction
  bad,       \* an inverse failed
  captured,  \* history: newest state captured on the thread
  live,      \* history: path of the newest committed start
  solo,      \* history: what the start that runs alone found
  unsure,    \* history: positions whose append reported an error
  crowded    \* history: starts have overlapped since no thread was live

repoVars == <<log, main, ref, genesis, record, dir, presence, clock>>
request == <<path, existing, base, epoch, planNew>>
txVars == <<attempt, since, claim, prior, ledger, bad>>
history == <<captured, live, solo, unsure, crowded>>
vars == <<repoVars, pc, request, txVars, history>>

NoState == 0
FirstState == 1
State == FirstState..(MaxLog + 1)
NoTx == <<0, 0>>
Tx == (State \X (1..MaxClock)) \union {NoTx}
Kind == {"create", "marker", "capture", "main", "delete"}
Entry == [tx : Tx, kind : Kind]
Record == {NoRecord} \union [epoch : 1..MaxClock, path : Path, active : BOOLEAN]
Full == {"meta", "tree"}                \* .heddle, and the files of the state
Dir == {Absent} \union SUBSET Full
Effect == {"dir", "ref", "checkout", "record"}

(* TargetDir.  The handle of a claim names a directory, not a path: a claim *)
(* is "gone" once the directory it was made on is removed.                  *)
Claim == {"none", "created", "adopted", "gone"}

Solo == [proc : Proc \union {NoProc}, ref : State \union {NoState},
         genesis : State \union {NoState}, record : Record,
         dir : [Path -> Dir], len : 0..MaxLog]

Nobody == [proc |-> NoProc, ref |-> NoState, genesis |-> NoState,
           record |-> NoRecord, dir |-> [d \in Path |-> Absent], len |-> 0]

Planning == {"epoch", "gate", "plan", "bind", "attempt"}
Staging == {"dir", "setref", "checkout", "meta", "tree", "snapshot", "record", "commit"}
Rewinding == {"error", "conflict", "dup"}       \* and why
PcValues == Planning \union Staging \union Rewinding \union
            {"idle", "committed", "done", "failed"}

(* What the variables range over. *)
TypeOK ==
  /\ log \in Seq(Entry) /\ Len(log) <= MaxLog
  /\ main \in State
  /\ ref \in State \union {NoState}
  /\ genesis \in State \union {NoState}
  /\ record \in Record
  /\ dir \in [Path -> Dir]
  /\ presence \in 0..MaxPresence
  /\ clock \in 0..MaxClock
  /\ pc \in [Proc -> PcValues]
  /\ path \in [Proc -> Path \union {NoPath}]
  /\ existing \in [Proc -> State \union {NoState}]
  /\ base \in [Proc -> State \union {NoState}]
  /\ epoch \in [Proc -> 0..MaxClock]
  /\ planNew \in [Proc -> BOOLEAN]
  /\ attempt \in [Proc -> 0..MaxAttempts]
  /\ since \in [Proc -> 0..MaxLog]
  /\ claim \in [Proc -> Claim]
  /\ prior \in [Proc -> Record]
  /\ ledger \in [Proc -> Seq(Effect)]
  /\ bad \in [Proc -> BOOLEAN]
  /\ captured \in State \union {NoState}
  /\ live \in Path \union {NoPath}
  /\ solo \in Solo
  /\ unsure \subseteq 1..MaxLog
  /\ crowded \in BOOLEAN

Init ==
  /\ log = <<>>
  /\ main = FirstState
  /\ ref = NoState
  /\ genesis = NoState
  /\ record = NoRecord
  /\ dir \in [Path -> {Absent, {}}]
  /\ presence = 0
  /\ clock = 0
  /\ pc = [p \in Proc |-> "idle"]
  /\ path = [p \in Proc |-> NoPath]
  /\ existing = [p \in Proc |-> NoState]
  /\ base = [p \in Proc |-> NoState]
  /\ epoch = [p \in Proc |-> 0]
  /\ planNew = [p \in Proc |-> FALSE]
  /\ attempt = [p \in Proc |-> 0]
  /\ since = [p \in Proc |-> 0]
  /\ claim = [p \in Proc |-> "none"]
  /\ prior = [p \in Proc |-> NoRecord]
  /\ ledger = [p \in Proc |-> <<>>]
  /\ bad = [p \in Proc |-> FALSE]
  /\ captured = NoState
  /\ live = NoPath
  /\ solo = Nobody
  /\ unsure = {}
  /\ crowded = FALSE

-----------------------------------------------------------------------------
(* The operation log. *)

(* start_transaction_id, with the scope and the name left out. *)
TransactionId(p) == <<base[p], epoch[p]>>

(* Mutant: only the newest batch is searched. *)
CommittedLast(tx) == log # <<>> /\ log[Len(log)].tx = tx

(* Mutant: the log is not searched. *)
NeverCommitted(tx) == FALSE

(* transaction_commit: the lookup of the id in the whole log. *)
Committed(tx) == \E i \in DOMAIN log : log[i].tx = tx

(* committed_batch_records: the batch without its marker. *)
CommittedRecords(tx) == {i \in DOMAIN log : log[i].tx = tx /\ log[i].kind # "marker"}

(* A batch that holds only a commit marker has no isolation key; every      *)
(* other one in this log has the key of the thread or of main.              *)
Conflicts(n) == \E i \in (n + 1)..Len(log) : log[i].kind # "marker"

Append1(tx, kind) ==
  /\ Len(log) < MaxLog
  /\ log' = Append(log, [tx |-> tx, kind |-> kind])

Goto(p, label) == pc' = [pc EXCEPT ![p] = label]

-----------------------------------------------------------------------------
(* start_thread up to execute. *)

Alone(p) == \A q \in Proc \ {p} : pc[q] = "idle"

(* A command begins: get_thread and select_thread_base, without --from.     *)
(* When no other one runs, what it finds is remembered.                     *)
Start(p) ==
  /\ pc[p] = "idle"
  /\ \E d \in Path : path' = [path EXCEPT ![p] = d]
  /\ existing' = [existing EXCEPT ![p] = ref]
  /\ base' = [base EXCEPT ![p] = IF ref = NoState THEN main ELSE ref]
  /\ Goto(p, "epoch")
  /\ crowded' = (~Alone(p) \/ (crowded /\ live # NoPath))
  /\ solo' = IF Alone(p)
             THEN [proc |-> p, ref |-> ref, genesis |-> genesis,
                   record |-> record, dir |-> dir, len |-> Len(log)]
             ELSE Nobody
  /\ UNCHANGED <<repoVars, epoch, planNew, txVars, captured, live, unsure>>

(* Mutant: the instant is read before it has moved. *)
StaleEpoch == clock

(* Utc::now: later than every epoch before. *)
FreshEpoch == clock + 1

(* resolve_start_epoch: the epoch of an active record, or a fresh instant.  *)
ResolveEpoch(p) ==
  /\ pc[p] = "epoch"
  /\ \/ /\ record # NoRecord /\ record.active
        /\ epoch' = [epoch EXCEPT ![p] = record.epoch]
        /\ UNCHANGED clock
     \/ /\ ~(record # NoRecord /\ record.active)
        /\ clock < MaxClock
        /\ clock' = FreshEpoch
        /\ epoch' = [epoch EXCEPT ![p] = FreshEpoch]
  /\ Goto(p, "gate")
  /\ UNCHANGED <<log, main, ref, genesis, record, dir, presence>>
  /\ UNCHANGED <<path, existing, base, planNew, txVars, history>>

(* The commit-detection gate: is this start's transaction in the log?       *)
CommitGate(p) ==
  /\ pc[p] = "gate"
  /\ Goto(p, IF CommittedRecords(TransactionId(p)) # {} THEN "committed" ELSE "plan")
  /\ UNCHANGED <<repoVars, request, txVars, history>>

(* finalize_committed_start: the bookkeeping, or an error without a record. *)
FinalizeCommitted(p) ==
  /\ pc[p] = "committed"
  /\ Goto(p, IF record = NoRecord THEN "failed" ELSE "done")
  /\ UNCHANGED <<repoVars, request, txVars, history>>

(* plan_worktree_target: absent or empty, else refused. *)
PlanTarget(p) ==
  /\ pc[p] = "plan"
  /\ Goto(p, IF dir[path[p]] \in {Absent, {}} THEN "bind" ELSE "failed")
  /\ planNew' = [planNew EXCEPT ![p] = (dir[path[p]] = Absent)]
  /\ UNCHANGED <<repoVars, path, existing, base, epoch, txVars, history>>

(* create_native_thread: the name is bound to its first base for good.      *)
BindGenesis(p) ==
  /\ pc[p] = "bind"
  /\ genesis' = IF genesis = NoState THEN base[p] ELSE genesis
  /\ Goto(p, IF genesis' = base[p] THEN "attempt" ELSE "failed")
  /\ UNCHANGED <<log, main, ref, record, dir, presence, clock>>
  /\ UNCHANGED <<request, txVars, history>>

-----------------------------------------------------------------------------
(* execute: the stages of StartThread::apply. *)

(* on_rewind: an inverse joins the ledger. *)
Push(p, effect) == ledger' = [ledger EXCEPT ![p] = Append(@, effect)]

(* The mutation's error: rewind_error. *)
Abort(p) == Goto(p, "error")

(* The head of the log is read before anything is staged. *)
Attempt(p) ==
  /\ pc[p] = "attempt"
  /\ since' = [since EXCEPT ![p] = Len(log)]
  /\ claim' = [claim EXCEPT ![p] = "none"]
  /\ Goto(p, "dir")
  /\ UNCHANGED <<repoVars, request, attempt, prior, ledger, bad, history>>

(* stage_target_dir: create the leaf, or adopt an empty directory.  Only a  *)
(* start that planned to create the leaf may; a leaf it planned to adopt    *)
(* and that is gone is refused.                                             *)
StageDir(p) ==
  /\ pc[p] = "dir"
  /\ LET target == dir[path[p]] IN
       \/ /\ target = Absent /\ planNew[p]
          /\ dir' = [dir EXCEPT ![path[p]] = {}]
          /\ claim' = [claim EXCEPT ![p] = "created"]
          /\ Push(p, "dir")
          /\ Goto(p, "setref")
       \/ /\ target = {}
          /\ claim' = [claim EXCEPT ![p] = "adopted"]
          /\ Push(p, "dir")
          /\ Goto(p, "setref")
          /\ UNCHANGED dir
       \/ /\ IF target = Absent THEN ~planNew[p] ELSE target # {}
          /\ Abort(p)
          /\ UNCHANGED <<dir, claim, ledger>>
  /\ UNCHANGED <<log, main, ref, genesis, record, presence, clock>>
  /\ UNCHANGED <<request, attempt, since, prior, bad, history>>

(* stage_ref: compare-and-set from the value start_thread read.             *)
StageRef(p) ==
  /\ pc[p] = "setref"
  /\ \/ /\ ref = existing[p]
        /\ ref' = base[p]
        /\ Push(p, "ref")
        /\ Goto(p, "checkout")
     \/ /\ ref # existing[p]
        /\ Abort(p)
        /\ UNCHANGED <<ref, ledger>>
  /\ UNCHANGED <<log, main, genesis, record, dir, presence, clock>>
  /\ UNCHANGED <<request, attempt, since, claim, prior, bad, history>>

(* The directory p claimed is still the one at its path. *)
StillAtPath(p) == claim[p] \in {"created", "adopted"}

(* stage_checkout registers its inverse first; then claimed_worktree_path   *)
(* and write_isolated_checkout refuse another directory and a .heddle.      *)
CheckCheckout(p) ==
  /\ pc[p] = "checkout"
  /\ Push(p, "checkout")
  /\ Goto(p, IF StillAtPath(p) /\ "meta" \notin dir[path[p]] THEN "meta" ELSE "error")
  /\ UNCHANGED <<repoVars, request, attempt, since, claim, prior, bad, history>>

(* A write through the handle of the claimed directory fails once that is   *)
(* removed.                                                                 *)
WriteCheckout(p, file, next) ==
  /\ \/ /\ StillAtPath(p)
        /\ dir' = [dir EXCEPT ![path[p]] = @ \union {file}]
        /\ Goto(p, next)
     \/ ~StillAtPath(p) /\ Abort(p) /\ UNCHANGED dir
  /\ UNCHANGED <<log, main, ref, genesis, record, presence, clock>>
  /\ UNCHANGED <<request, txVars, history>>

(* init_worktree: the .heddle of the checkout. *)
WriteMeta(p) == pc[p] = "meta" /\ WriteCheckout(p, "meta", "tree")

(* checkout_state_gated: the files of the base state. *)
WriteTree(p) == pc[p] = "tree" /\ WriteCheckout(p, "tree", "snapshot")

(* stage_record: snapshot_records, then the inverse, then converge_records. *)
SnapshotRecord(p) ==
  /\ pc[p] = "snapshot"
  /\ prior' = [prior EXCEPT ![p] = record]
  /\ Push(p, "record")
  /\ Goto(p, "record")
  /\ UNCHANGED <<repoVars, request, attempt, since, claim, bad, history>>

WriteRecord(p) ==
  /\ pc[p] = "record"
  /\ record' = [epoch |-> epoch[p], path |-> path[p], active |-> TRUE]
  /\ Goto(p, "commit")
  /\ UNCHANGED <<log, main, ref, genesis, dir, presence, clock>>
  /\ UNCHANGED <<request, txVars, history>>

(* Mutant: ThreadCreate is recorded for a thread that exists, too. *)
AlwaysCreate(p) == "create"

(* The batch: ThreadCreate and the marker when stage_ref found no ref, else *)
(* the marker alone.                                                        *)
StagedKind(p) == IF existing[p] = NoState THEN "create" ELSE "marker"

(* Mutant: the committed flag is not set, so the drop of Tx rewinds. *)
SealForgotten(p) == Goto(p, "dup") /\ live' = path[p]

(* The transaction is committed: the ledger is never run. *)
Seal(p) == Goto(p, "done") /\ live' = path[p]

(* Tx::commit.  Under the log's lock: an id that is in the log is a         *)
(* duplicate; a foreign batch on the start's keys since the attempt began   *)
(* is a conflict; else the batch is appended.                               *)
Commit(p) ==
  /\ pc[p] = "commit"
  /\ LET tx == TransactionId(p) IN
       \/ /\ Committed(tx)
          /\ Goto(p, "dup")
          /\ UNCHANGED <<log, live, unsure>>
       \/ /\ ~Committed(tx) /\ Conflicts(since[p])
          /\ Goto(p, "conflict")
          /\ UNCHANGED <<log, live, unsure>>
       \/ /\ ~Committed(tx) /\ ~Conflicts(since[p])
          /\ Append1(tx, StagedKind(p))
          /\ \/ Seal(p) /\ UNCHANGED unsure
             \/ /\ "sync" \in Faults
                /\ Abort(p)
                /\ unsure' = unsure \union {Len(log) + 1}
                /\ UNCHANGED live
  /\ UNCHANGED <<main, ref, genesis, record, dir, presence, clock>>
  /\ UNCHANGED <<request, txVars, captured, solo, crowded>>

(* An I/O error before the step at hand has an effect. *)
Fail(p) ==
  /\ "io" \in Faults
  /\ \/ pc[p] \in Planning /\ Goto(p, "failed")
     \/ pc[p] \in Staging \ {"checkout"} /\ Abort(p)
  /\ UNCHANGED <<repoVars, request, txVars, history>>

-----------------------------------------------------------------------------
(* rewind_all: the inverses, last registered first. *)

(* remove_claimed_created_dir_if_still_at_path: never an adopted directory, *)
(* another one, or one that is not empty.                                   *)
Removable(p) == claim[p] = "created" /\ dir[path[p]] = {}

RemoveDir(p) == dir' = IF Removable(p) THEN [dir EXCEPT ![path[p]] = Absent] ELSE dir

(* rewind_checkout: clear the claimed directory, whoever wrote into it; the *)
(* removal of a created one is the next step.                               *)
ClearDir(p) == dir' = IF StillAtPath(p) THEN [dir EXCEPT ![path[p]] = {}] ELSE dir

(* Mutant: the ref is reset without a comparison. *)
RollbackBlind(p) == ref' = existing[p]

(* Mutant: the ref has no inverse. *)
RollbackMissing(p) == UNCHANGED ref

(* cas_guarded_thread_ref_rollback: nothing unless the ref is as set.       *)
RollbackRef(p) == ref' = IF ref = base[p] THEN existing[p] ELSE ref

(* Mutant: the record is deleted instead of restored. *)
DeleteRecord(p) == record' = NoRecord

(* converge_records back to the snapshot. *)
RestoreRecord(p) == record' = prior[p]

Undo(p, effect) ==
  \/ effect = "dir" /\ RemoveDir(p) /\ UNCHANGED <<ref, record>>
  \/ effect = "checkout" /\ ClearDir(p) /\ UNCHANGED <<ref, record>>
  \/ effect = "ref" /\ RollbackRef(p) /\ UNCHANGED <<dir, record>>
  \/ effect = "record" /\ RestoreRecord(p) /\ UNCHANGED <<dir, ref>>

Newest(p) == ledger[p][Len(ledger[p])]
Older(p) == SubSeq(ledger[p], 1, Len(ledger[p]) - 1)

(* The ledger without its last inverse.  A cleared directory that the start *)
(* created is removed next, as the inverse of its creation does.            *)
Popped(p) ==
  IF Newest(p) = "checkout" /\ claim[p] = "created"
  THEN Append(Older(p), "dir") ELSE Older(p)

(* Removing a directory ends every claim on it. *)
Disclaimed(target) ==
  [q \in Proc |-> IF path[q] = target /\ claim[q] # "none" THEN "gone" ELSE claim[q]]

Rewind(p) ==
  /\ pc[p] \in Rewinding
  /\ ledger[p] # <<>>
  /\ Undo(p, Newest(p))
  /\ ledger' = [ledger EXCEPT ![p] = Popped(p)]
  /\ claim' = IF Newest(p) = "dir" /\ Removable(p) THEN Disclaimed(path[p]) ELSE claim
  /\ UNCHANGED <<log, main, genesis, presence, clock>>
  /\ UNCHANGED <<pc, request, attempt, since, prior, bad, history>>

(* An inverse fails; the others still run, and the error is reported.       *)
RewindFails(p) ==
  /\ pc[p] \in Rewinding
  /\ ledger[p] # <<>>
  /\ "rewind" \in Faults
  /\ ledger' = [ledger EXCEPT ![p] = Older(p)]
  /\ bad' = [bad EXCEPT ![p] = TRUE]
  /\ UNCHANGED <<repoVars, pc, request, attempt, since, claim, prior, history>>

(* execute_attempts, once the ledger is empty: another attempt after a      *)
(* conflict, while there are any.                                           *)
RewindDone(p) ==
  /\ pc[p] \in Rewinding
  /\ ledger[p] = <<>>
  /\ \/ /\ pc[p] = "error" \/ bad[p]
        /\ Goto(p, "failed")
        /\ UNCHANGED attempt
     \/ /\ pc[p] = "dup" /\ ~bad[p]
        /\ Goto(p, "done")
        /\ UNCHANGED attempt
     \/ /\ pc[p] = "conflict" /\ ~bad[p]
        /\ attempt' = [attempt EXCEPT ![p] = @ + 1]
        /\ Goto(p, IF attempt[p] + 1 < MaxAttempts THEN "attempt" ELSE "failed")
  /\ UNCHANGED <<repoVars, request, since, claim, prior, ledger, bad, history>>

-----------------------------------------------------------------------------
(* After the transaction. *)

(* The process ends, and with it everything it had in memory. *)
Leave(p) ==
  /\ Goto(p, "idle")
  /\ path' = [path EXCEPT ![p] = NoPath]
  /\ existing' = [existing EXCEPT ![p] = NoState]
  /\ base' = [base EXCEPT ![p] = NoState]
  /\ epoch' = [epoch EXCEPT ![p] = 0]
  /\ planNew' = [planNew EXCEPT ![p] = FALSE]
  /\ attempt' = [attempt EXCEPT ![p] = 0]
  /\ since' = [since EXCEPT ![p] = 0]
  /\ claim' = [claim EXCEPT ![p] = "none"]
  /\ prior' = [prior EXCEPT ![p] = NoRecord]
  /\ ledger' = [ledger EXCEPT ![p] = <<>>]
  /\ bad' = [bad EXCEPT ![p] = FALSE]
  /\ solo' = IF solo.proc = p THEN Nobody ELSE solo
  /\ UNCHANGED <<captured, live, unsure, crowded>>

(* finalize_thread_start: the presence entry; success. *)
Finalize(p) ==
  /\ pc[p] = "done"
  /\ presence < MaxPresence
  /\ presence' = presence + 1
  /\ Leave(p)
  /\ UNCHANGED <<log, main, ref, genesis, record, dir, clock>>

(* The presence entry cannot be written: the command reports an error.      *)
FinalizeFails(p) ==
  "io" \in Faults /\ pc[p] = "done" /\ Leave(p) /\ UNCHANGED repoVars

(* The command reports that it failed. *)
Return(p) == pc[p] = "failed" /\ Leave(p) /\ UNCHANGED repoVars

(* The process dies: what it staged stays, and no inverse runs. *)
Crash(p) ==
  "crash" \in Faults /\ pc[p] # "idle" /\ Leave(p) /\ UNCHANGED repoVars

-----------------------------------------------------------------------------
(* Other commands, each atomic here. *)

NewState == Len(log) + 2

(* A capture in a finished checkout, attached to the thread. *)
Capture ==
  /\ \E d \in Path : dir[d] = Full
  /\ ref # NoState
  /\ Append1(NoTx, "capture")
  /\ ref' = NewState
  /\ captured' = NewState
  /\ solo' = Nobody
  /\ UNCHANGED <<main, genesis, record, dir, presence, clock, pc, request, txVars>>
  /\ UNCHANGED <<live, unsure, crowded>>

(* A commit on the thread that starts branch from. *)
MainCommit ==
  /\ Append1(NoTx, "main")
  /\ main' = NewState
  /\ UNCHANGED <<ref, genesis, record, dir, presence, clock, pc, request, txVars, history>>

(* drop_thread_silent, while no start runs: remove the checkout, abandon    *)
(* the record, strip the presence entries and, on request, delete the ref.  *)
Drop(delete) ==
  /\ \A p \in Proc : pc[p] = "idle"
  /\ record # NoRecord
  /\ dir' = [dir EXCEPT ![record.path] = Absent]
  /\ record' = [record EXCEPT !.active = FALSE]
  /\ presence' = 0
  /\ live' = NoPath
  /\ IF delete /\ ref # NoState
       THEN /\ Append1(NoTx, "delete")
            /\ ref' = NoState
            /\ captured' = NoState
       ELSE UNCHANGED <<log, ref, captured>>
  /\ UNCHANGED <<main, genesis, clock, pc, request, txVars, solo, unsure, crowded>>

Run(p) ==
  \/ ResolveEpoch(p) \/ CommitGate(p) \/ FinalizeCommitted(p)
  \/ PlanTarget(p) \/ BindGenesis(p)
  \/ Attempt(p) \/ StageDir(p) \/ StageRef(p) \/ CheckCheckout(p)
  \/ WriteMeta(p) \/ WriteTree(p) \/ SnapshotRecord(p) \/ WriteRecord(p)
  \/ Commit(p) \/ Fail(p)
  \/ Rewind(p) \/ RewindFails(p) \/ RewindDone(p)
  \/ Finalize(p) \/ FinalizeFails(p) \/ Return(p)

Next ==
  \/ \E p \in Proc : Start(p) \/ Run(p) \/ Crash(p)
  \/ Capture \/ MainCommit
  \/ \E delete \in BOOLEAN : Drop(delete)

Spec == Init /\ [][Next]_vars

-----------------------------------------------------------------------------
(* Properties. *)

(* A start's transaction is in the log at most once, whatever crashes,      *)
(* conflicts, retries and concurrent starts do: the lookup and the append   *)
(* of record_batch_exactly_once_if_unchanged are one step.                  *)
ExactlyOnce ==
  \A i, j \in DOMAIN log : log[i].tx # NoTx /\ log[i].tx = log[j].tx => i = j

(* A state captured on the thread stays its tip: no start, and no inverse   *)
(* of a start that fails or loses, moves the ref off it (stage_ref and      *)
(* cas_guarded_thread_ref_rollback compare before they write).              *)
CapturesKept == captured # NoState => ref = captured

(* Two creations are recorded without a deletion between them. *)
Recreated(i, j) ==
  /\ i < j /\ log[i].kind = "create" /\ log[j].kind = "create"
  /\ \A k \in i..j : log[k].kind # "delete"

(* Of starts that race for a name without a ref, one records ThreadCreate,  *)
(* whatever fails and crashes; a second creation is only recorded after one *)
(* whose append left its batch and yet reported an error.                   *)
CreatedOnce == \A i, j \in DOMAIN log : Recreated(i, j) => i \in unsure

(* The same without the exception: what holds if an append that reports an  *)
(* error leaves nothing in the log.                                         *)
CreatedOnceAlways == \A i, j \in DOMAIN log : ~Recreated(i, j)

(* A start that ran alone and failed, and whose inverses all ran, left the  *)
(* ref, the record and every directory as it found them (rewind_all runs    *)
(* every inverse, the last registered first).                               *)
FailedStartUndone ==
  \A p \in Proc :
    pc[p] = "failed" /\ solo.proc = p /\ ~bad[p]
      => ref = solo.ref /\ record = solo.record /\ dir = solo.dir

(* And it left nothing in the log, unless its append left its batch and yet *)
(* reported an error: the contract of execute.                              *)
AllOrNothing ==
  /\ FailedStartUndone
  /\ \A p \in Proc :
       pc[p] = "failed" /\ solo.proc = p
         => \A i \in (solo.len + 1)..Len(log) : log[i].tx = NoTx \/ i \in unsure

(* The thread of the newest committed start: its ref and its active record, *)
(* and its checkout.                                                        *)
ThreadStands == live # NoPath => ref # NoState /\ record # NoRecord /\ record.active
CheckoutStands == live # NoPath => dir[live] = Full

(* The ref and the active record of the newest committed start stay until   *)
(* the thread is dropped, unless starts of the name have overlapped since   *)
(* the last one was.                                                        *)
ThreadStays == ~crowded => ThreadStands

(* So does its whole checkout. *)
CheckoutStays == ~crowded => CheckoutStands

(* The inverses of a start whose transaction turns out to be committed      *)
(* leave the committed thread in place: its replay is a no-op.              *)
DuplicateIsNoOp ==
  [][\A p \in Proc :
       /\ pc[p] = "dup" /\ ledger'[p] # ledger[p]
       /\ ThreadStands
       => ThreadStands']_vars

(* A start passes the commit-detection gate only with a transaction that is *)
(* not in the log, so that a start that committed and then crashed is       *)
(* completed and not refused for the checkout it made.                      *)
CommittedRetryRecognized ==
  \A p \in Proc : pc[p] = "plan" => ~Committed(TransactionId(p))

(* A started thread has one presence entry: the bookkeeping of a start is   *)
(* done once.                                                               *)
PresenceOnce == presence <= 1

(* The creation of a started thread is in the log, after its last deletion. *)
CreationRecorded ==
  live # NoPath =>
    \E i \in DOMAIN log :
      log[i].kind = "create" /\ \A j \in i..Len(log) : log[j].kind # "delete"

(* A name is refused for its genesis only if some start of it committed: a  *)
(* start that failed leaves the name as it was.                             *)
FailedStartFreesName ==
  \A p \in Proc :
    pc[p] = "bind" /\ genesis \notin {NoState, base[p]}
      => \E i \in DOMAIN log : log[i].tx # NoTx

=============================================================================
