# Heddle in TLA+

Heddle is a version control system written in Rust, for agents and people who
work side by side in many worktrees and many processes. This directory models
the part of it that keeps a repository correct while all of them act at once.
Paths below are relative to the root of the repository; `lock.rs` and the like
are file names within the crates they are introduced with.

## 1. Inventory

A repository is a directory of files with no server behind it: commands,
daemons, hooks and mounts are separate processes that meet only in the file
system. What keeps them apart and in order is:

| Part | State | Operations | Hard behaviour | Correct when |
|---|---|---|---|---|
| **Repository lock** `crates/fs-prims/src/lock.rs` | a lock file with flock; per process and path an owner, a depth, a gate mutex, a condition variable | `write`, `try_write`, `read`, `try_read`, guard drop, `handoff_to_current_thread` | threads and processes interleave, a barging thread overtakes a notified one, I/O errors, a process dies | writers exclude everybody, reads under the own write lock are covered, no waiter is forgotten |
| **Refs** `crates/refs/src/refs`, `crates/repo/src/atomic/{reconciler,committer}.rs` | one file per thread, marker and HEAD; a packed file; two watermark files; watermarks in memory | logical read, recorded write, unrecorded write, materialization, packing | the log commits first and files follow: a crash or a failed rename leaves files behind the log | a reader never sees a value the ref no longer had, a writer commits on what it expected |
| **Atomic transactions** `crates/repo/src/atomic/{tx,execute,traits}.rs` | ledger of staged operations, eager effects with compensators | enroll, commit attempt, retry, rewind | conflicts, retries after an unknown outcome, failing compensators | each transaction takes effect once or not at all |
| **Thread start** `crates/cli/src/cli/commands/{thread,start_atomic}.rs` | the thread's ref and record, the genesis its name is bound to, the checkout directory, presence entries | start; with it capture, drop and commits on the base thread | four visible effects before one commit; two starts of one name; a start that fails, dies, or finds that it has committed already | all or nothing, committed once, and no captured state or committed checkout is lost |
| **Operation log** `crates/oplog/src/oplog` | batches in containers, a manifest, undone flags, cached indexes | append, append if unchanged, mark undone, coalesce, read, sweep | readers race the sweep, a crash or power failure between container and manifest, a stale index | an appended batch stays, once, in order; a reader answers a log that was published |
| **Snapshot capture** `crates/repo/src/{repository_snapshot,repository_open,repository_capture_v4}.rs` | packs, their commit artifacts, the log and refs derived from them | capture, install, append, recovery at open | the pack is the commit point, the log follows on another thread | every installed capture is in the log once, where it was |
| **Object store** `crates/objects/src/store/fs` | packs and indexes, install journal, staging, commit markers, a lock per pack name | journaled install, snapshot install, recovery, sweep, prune | crash within an install, recovery beside a live install | an install that returned Ok stays, and nothing is left behind |
| **Checkout writers** `crates/objects/src/store/writer_lease.rs`, `crates/repo/src/checkout_writer.rs` | lease files, a credential per checkout, a lock per checkout | reserve, bind, claim, heartbeat, capture, release, reap | a lease expires or is taken over while its holder works | one owner; no authority ends under a capture |
| **Device run outbox** `crates/repo/src/{device_runs,device_run_outbox}.rs`, `hosted/timeline_drain.rs` | SQLite rows per run, a queue of requests, a position map | publish, drain, register, upload, acknowledge, repair a gap, deny | lost, late and repeated calls, a server that loses writes, a full outbox | the hosted timeline is a prefix of the local one, and what stays behind is reported |
| **Repository services** `crates/repo/src` | operation ids, merge state, presence, stash, undo and redo | the commands of the CLI | retries of commands, restarts | each command takes effect once; not modelled yet |
| **Everything else** | | merge engine, semantic index, mount, Git projection and ingest, hosted client, verification of capabilities, CI, CLI | pure computation, third-party formats or network I/O | not modelled; `PROJECT.json` has the reason for each |

How the parts interact: a command takes the repository lock (a capture gives it
up while it reads the worktree, and takes it again), stages operations in an
atomic transaction, and appends one batch to the operation log under the log's
own lock. That append is the commit point. Refs are a view of the log: the refs
lock serialises publishing, and every reader checks a watermark against the log
before it trusts a file. A capture commits by installing a pack; its log entry
and ref are derived from the pack, by the same process or by the next one that
opens the repository.

The hazards this brings are listed in `PROJECT.json`, each at its line, with the
properties that would catch it going wrong or a note on why none does.

## 2. Modules

### RepoLock

One lock path and the threads of several processes. The gate mutex is held over
a blocking `lock_exclusive` and over nothing else that blocks, so `gate` names
the thread blocked there and every other critical section of the gate is one
action. `owner`, `depth` and `flock` are the fields of `GateState`; `writes`,
`reads` and `covered` count the guards each thread holds. `flock(2)` is external:
a shared or an exclusive lock is granted when no conflicting description holds
one, in any order. `Condvar` is external too: `notify_one` wakes any one waiter,
and a wait may return without being notified.

Callers are constrained by two rules that the lexical scopes in the repository
obey, and that the module marks "client rule": a thread drops the no-op read
guards it took under its write lock before it gives the lock up, and a thread
with a real read guard does not call `read` or `write` again.

### RefPublication

Refs as a view of the log. A handle is a `RefManager` of one process. A log
entry is a committed batch: its worktree (`scope`) and a new value, a deletion
or nothing per ref. A logical read goes through `BeginRead` (read the tip),
`Gate` (compare with the watermark) and `RawRead`, each a step of its own because
no lock is held; or it takes the refs lock, adopts a persisted watermark that is
ahead, folds the tail (`MaterializeClass`), renames the files that lag one by one
(`Publish`) and advances the watermark (`AdvanceWatermark`). A recorded write
(`commit_and_publish`) materializes both classes, validates its expectations,
appends its batch (`Commit`) and renames its files; a failure after `Commit` is
reported as success, as in the code. An unrecorded write (`update_refs`) does the
same without validation and without a record. `Close` is the end of a process at
any of these points, `PublishFail` and `UndoDirect` the failure paths with their
rollback, `FailUnlocked` and `FailLocked` every other early return.

`truth`, `last`, `direct`, `author` and `seen` are history variables: the newest
write of each ref, its log position, whether it was an unrecorded one, the worktree
it came from, and the values a ref had while a read was under way. `foreign` records
that the fold of a worktree's HEAD published a thread whose newest write another
worktree made, which the fold leaves out; `unsaved` that a watermark file was not
written. No guard reads them. The code lets a fold take a write back after such a
fold, and after an unwritten watermark file if processes write without a record:
`MayRevert`. The properties hold until then; `WatermarkSoundAlways` is the claim of
the comments, without the exception. The log of the model grows only under the refs
lock, as with `commit_and_publish`; the capture, which appends without it, is
`SnapshotCommit`.

Abstractions: threads stand for markers and remote threads too, which go the
same way; one entry is one batch; a rename is atomic; a rollback restores any
subset of the files, which covers a rollback that fails midway. Not modelled:
the canonical HEAD fold, entries flagged undone, the snapshot publish, the packed
file and the summary index, and power loss (files that were renamed but not
synced).

### ThreadStart

`heddle start <name>`, run by several processes on one name: the command
(`start_thread`), the `StartThread` mutation it executes, and below it the
executor, the ledger of inverses and the exactly-once append.

`Start` reads the ref and picks the base, `ResolveEpoch` takes the epoch of an
active record or a fresh instant (both make up the transaction id), `CommitGate`
asks the log whether this start has committed, `PlanTarget` looks at the
directory and `BindGenesis` binds the name. Nothing is locked across these.
`Attempt` reads the head of the log; `StageDir`, `StageRef`, `CheckCheckout`,
`WriteMeta`, `WriteTree`, `SnapshotRecord` and `WriteRecord` stage the effects,
each visible at once and each with an inverse on `ledger`; `Commit` is the one
append, with its lookup of the id and its conflict check under the log's lock;
`Finalize` adds the presence entry. An error, a conflict or a duplicate goes to
`pc` "error", "conflict" or "dup", where `Rewind` runs the newest inverse and
`RewindDone` decides: fail, try again, or report success. `Crash` is possible
everywhere and runs no inverse. `Faults` says which failures an instance has.

The claim on a directory is a handle, not a path: removing the directory turns
every claim on it to "gone", as a handle outlives its name. A log entry is one
batch: its transaction id and what it records. States are numbered by the log
position that made them. `captured`, `live`, `solo`, `unsure` and `crowded` are
history variables that no guard reads: the newest captured state, the path of the
newest committed start, what a start found that began while no other one ran, the
batches whose append reported an error although they are in the log, and whether
starts have overlapped since no thread was live. The last two are what `CreatedOnce`,
`AllOrNothing`, `ThreadStays` and `CheckoutStays` except.

Abstractions: solid checkouts only, so without the manifest, cargo redirect,
hydrate and mount effects; no writer lease and no `--from`; the parent and the
intent that enter a genesis are the same in all starts; captures, commits on the
base thread and drops are one step each, and a drop runs while no start does and
finds a record; `MAX_ATTEMPTS` is a constant, two or one in the runs.

### OplogEntries, DurableLog and SegmentedOplog

`OplogEntries` has what an entry is and the two rewrites of existing entries (a
batch marked undone, two batches made one). `DurableLog` is what the log
promises: a sequence that grows at its end, is rewritten only in these two ways,
and comes back from a power failure as a value it had since it was last synced, or
`damaged`, for good.

`SegmentedOplog` is how `segmented.rs` keeps it. A container is named by level,
range and generation and never changes; the manifest lists a base and segments.
`BeginAppend` and `BeginRewrite` take the log's lock and open the index, or reuse
the cached one when `matches_file_on_disk` says so; `WriteContainer` writes the
new segment with the tail segments a binary counter carries into it, or the new
base; `WriteManifest` renames the manifest; `SyncManifest` is the directory sync
a durable write makes; `SweepAndReturn` unlinks what the manifest no longer lists
and is old enough. A reader (`ReadManifest`, `OpenContainer` one by one,
`ReadReturns`) takes no lock; when a container is gone (`ContainerGone`) it reads
once more under the lock. `WriteFails`, `Crash` and `PowerLoss` may follow any
step.

Storage: a rename is visible at once; renames and unlinks reach the disk in
order, at the latest with a directory sync, and `past` holds the states a power
failure may leave. The container of a capture's view (`save_reconstructible`) is
not synced: it is not in `solid`, and a power failure may put it in `torn`. The log
is `Damaged` when the manifest lists such a container, which may also have been
listed, or merged with others, before a durable append: the log is then lost
whatever was appended after. `published` and `kept` are history variables. The
refinement `ImplementsLog` maps the log to the entries of the listed containers,
`possible` to those of the states in `past`, and `damaged` to `Damaged`. Not modelled: `recover` with its
quarantine of a damaged suffix, the sweep of stale temporaries, and batches of
several entries (a batch is one entry; after `Coalesce` a batch spans two).

### SnapshotCommit

A capture, from the read of the head (`ReadHead`, under the repository lock)
through the building of the tree without it (`Build`), the second look
(`Recheck`), `ReadSince`, and `Install`, which under the log's lock checks for a
duplicate and a conflict and installs the pack: the commit point.
`AppendView` is the worker that appends the batch with the log's lock handed to
it; `PublishSnapshot` writes the thread's file and advances the watermark;
`PublishFails` is its error, reported although the capture is committed.
`OpenList`, `OpenClassify`, `RecoverNext`, `Replay` and `GiveUp` are
`recover_snapshot_artifact_views` of a process that opens. `ReadThread` is the
`get_thread` of any command. `MoveLock`, `MoveCommit` and `MovePublish`
are a writer that moves the same thread through
`commit_and_publish`. `PowerLoss` takes any unsynced tail of the log, because the
worker's append is not synced. `Crash` kills a process at any point, alone or
beside others, and the kernel drops its locks.

Two history variables record the two events after which the code gives its promises
up: `overtaken`, that a process got the log's lock and went on while the batch of a
dead worker waited for an open to replay it, and `stale`, that a capture answered
the state of an older batch with the same transaction id. No guard reads them. `Deletes`,
whether the tracked file may be deleted and made again, is a bound for TLC.

Abstractions: one thread with HEAD attached to it; reads of the ref are one step
(`RefPublication` has their interleavings); content is a version of one tracked
file, from which the tree's salt and the transaction id follow. Not modelled:
merge captures, supplied trees, detached HEAD, an I/O error of the worker.

### PackInstall

Several processes publish pairs of pack and index. The journaled install
(`Start` .. `RemoveIntent`) stages, takes the lock of the pack's name, writes an
intent, publishes the pack and then the index; the snapshot install
(`SnapshotStart` .. `SnapshotMark`) publishes under the lock without an intent
and creates the commit marker last. `reload_packs` recovers intents (`ListIntents`
.. `RecoverDone`), sweeps old staging (`SweepCheck`, `SweepRemove`) and prunes
packs without an index (`PruneList`, `PruneOne`). `Stop` is a crash or an error at
any step: both leave the files and drop the flock. `Age` passes the TTL.

A file is absent, good or bad (its digest does not check). Bad files exist at
the start only. Nothing keeps a prune and a publication apart: `PruneOne` may remove
a pack that got its index since it was listed. The history variable `raced` has the
packs taken in this way from a pair or from a publication under way, until an
install publishes them anew; the properties of `pack_install` except these packs, and
`pack_prune` shows the pack of a completed install among them.

### TimelineOutbox

Hooks publish the events of agent runs (`Publish`: one SQLite transaction with
the new events and the upload request for them, `AppendInTx`); the network daemon
drains (`DrainBegin`, `DrainRepair`, `DrainPick`, `Register`, `SendUpload`, then
`Acknowledge` with `ScanAfterAck`, `RepairGap`, `Deny`, `UploadFails`). Each is
one transaction or one call, and `Stop` comes between any two. The server is
external and modelled from what the client relies on; `Serve`, `Refuse` and
`ServerLoses` are its steps, and a call that timed out stays in `net` and may be
served late. `high` is a history variable. A request carries the events of the
hosted positions from `first` up to `next`; the row `up[r].map` (the event map) has
the local position of each, `Ascending` over the scanned events with a hosted form,
and `Events` is what the requests the server applied make up.

`AttachAcceptance` is an owner who accepts any request of a run that is not
terminal. The history variables `unscanned` and `replaced` have the runs of which
the daemon acknowledged a request and stopped before `repair_timeline_upload`
scanned for more, and those whose reason in `upload_incomplete` replaced that of a
final refusal (`deny_registration`, or an acceptance for which there was no room).
These, and a request that such an acceptance left at `due_millis` = MAX (`Parked`),
are the cases in which the code neither uploads nor reports events, and
`ReachedOrReported` excepts them.

Assumptions: calls of a server that lost its writes are lost with it; the daemon
connects to the deployment of each run. (A client of another deployment fails an
`ensure!` in each drain, timeline_drain.rs:74-84: it uploads nothing, and nothing
is reported for the runs.)

### WriterLease

Commands of several processes act on the leases of the checkouts of one lane, and on
leases without a checkout (`path` is `None`), which cover them all and which no
checkout lock protects:
`Reserve`, `Fanout`, `Install` (the credential of a device), `Heartbeat`,
`Release` with `Clean`, `List`, `AbandonThread`, the hook of a harness
(`HookBind`, `HookClaim`, `HookBindNew`, `HookNothing`) and a capture
(`StartSave`, `SaveLock`, `DeviceLock`, `SaveAuthenticate` or `SaveClaim`,
`SaveFinish`). A store operation runs under the store's lock and is one step; the
checkout lock is a variable, because it is held across steps. Time is a flag: a
heartbeat is recent or not. A process that died may be started again with its
old pid. Not modelled: PID namespaces and births, prepared reservations,
`delete_for_tasks`, lanes without a native thread.

## 3. Runs

| Run | Question | Result |
|---|---|---|
| `repo_lock` | three threads in one process and one in another, two calls each, depth 2, one I/O error, crashes: exclusion, covered reads, and does a blocked `write` return unless a call failed | holds |
| `ref_publication` | two processes, one worktree, one thread and HEAD, two batches, both write through the log, and a watermark file may fail to be written | holds |
| `ref_direct` | one worktree, every watermark file written; one process writes through the log, the other writes files without a record: does no fold take such a write back | holds |
| `thread_start` | one start at a time, two paths, three batches, every fault: is a failed start undone, do the thread and the checkout of a committed one stay | holds |
| `thread_start_race` | two processes start one name in one directory, crashes at every step, appends that fail after the fact, one attempt each: committed once, created once and all or nothing for the one that ran alone but for a batch whose append reported an error, captures kept | holds |
| `segmented_oplog` | two handles, three generations, durable appends and unsynced views, one failure of any kind: do readers answer published logs, do durable records stay unless a listed container of a view is torn, do the files implement `DurableLog` | holds |
| `snapshot_commit` | two processes capture, one also moves the thread, power losses and crashes of either process at any step: is a lost log entry replayed once, at its position, and does the persisted watermark never hide it, until a process commits over the batch of a dead one | holds |
| `snapshot_crash` | the same without that exception: can every open finish | **violated**: a process dies while another has the repository open, and every later open is refused |
| `pack_install` | two processes, two journaled installs and any number of snapshot installs and reloads, one crash or failed step, prunes that race publications: do installed pairs stay, does a marker have its pair, is a live install left alone, but for a pack that a prune took; is residue cleared in the end | holds |
| `pack_prune` | the same without that exception | **violated**: an installed pack is removed |
| `timeline_outbox` | one run, two faults, a limit of three requests: is the hosted timeline faithful, is nothing dropped, does each acknowledgement fit, does the limit hold, is every run uploaded or reported but for the three cases of section 2 | holds |
| `writer_lease` | two processes of two harnesses, one checkout, two leases with or without it, expiry and deaths: one owner, the authority of a checkout's lease kept during a capture, a harness's lane written by its own processes, no credential of a released lease | holds |

The two violations are disagreements between the code and its comments, quoted
under `findings`:

- *A capture that blocks the repository.* Process A installs its pack and dies
  before its worker appends. The kernel drops the log's lock. Process B, open all
  along, captures: it finds the log unchanged and installs a pack for the same
  position. Whoever opens the repository next finds A's artifact "behind current
  head" and gives up, and so does every later open. The recovery only looks at
  artifacts when a repository is opened, and the worker's lock protects the gap
  only while the worker lives.
- *A pruned pack.* Process A has published its pack and not yet its index.
  Process B lists the pack as unpaired. A publishes the index and returns Ok. B
  removes the pack. The prune looks at neither the intent nor the lock of the name.

### Further configurations

These ask further questions of the same modules, to be run by hand with `tlc`:

| Configuration | Result |
|---|---|
| `MCRepoLockError` | one I/O error: a woken waiter whose open of the lock file fails notifies nobody, and another sleeps on a free lock |
| `MCRefTwoWorktrees` | `WatermarkSoundAlways` violated: two worktrees share a thread, and the local fold of one republishes an older value of it over a newer one |
| `MCRefPersistFails` | `WatermarkSoundAlways` violated: an unwritten watermark file and unrecorded writes: an old record is folded over an unrecorded write |
| `MCRefWorktrees` | two worktrees, `WatermarkSound`, `ExpectationsHold` and `ReadsFresh` with their exception: hold (654,275 states) |
| `MCThreadStartRetry` | a start on an existing ref commits its marker alone; its retry does not recognise it |
| `MCThreadStartCheckout` | `CheckoutStands` violated: of two starts, the loser clears the committed checkout of the winner |
| `MCThreadStartRef` | `ThreadStands` violated: of two starts, the rollback of one deletes the ref the other has set to the same value and committed |
| `MCThreadStartDuplicate` | a start that finds itself a duplicate at its commit runs inverses over what the committed one left |
| `MCThreadStartSync` | `CreatedOnceAlways` violated: an append fails after its batch is visible, the effects are undone, the batch stays, and the next start records the creation again |
| `MCThreadStartUnrecorded` | the ref of a start that died makes the next one record no creation |
| `MCThreadStartName` | a failed start leaves its name bound to its base |
| `MCThreadStartPresence` | a start of a running thread adds a second presence entry |
| `MCSegmentedOplogLive` | `ReadsFinish`, two generations: holds |
| `MCSegmentedOplogPower` | `NeverDamaged` violated: the container of a capture is not synced, and after a power failure the manifest lists it torn; every entry it holds is lost, durable ones included; `docs/adr/0050-segmented-oplog-publication.md:13-17` says "a durable manifest must never select a segment whose directory entry or bytes did not survive" |
| `MCSnapshotOpen` | an open is refused because another process commits while it replays; a second open succeeds |
| `MCSnapshotRaw` | a process opens while another captures, publishes and dies: its watermark equals the tip while the file lacks it |
| `MCSnapshotParent` | a batch is appended between the recheck and the read of the log's head: the capture's parent is not the head it lands on |
| `MCSnapshotOutput` | an old tree captured again: the capture answers with its old state, although a newer one is the thread's |
| `MCTimelineOutboxShared` | two runs share the limit of the outbox, one fault: the properties of `timeline_outbox` hold (513,159 states) |
| `MCWriterLeasePathless` | `AuthorityAlways` violated: a lease without a checkout is retired beside a running capture, against `writer_lease.rs:304` |

### Bounds

Two batches are enough for every relation between a record, its successor and a
watermark (below both, between, above both), and two clients for every pair of a
writer that dies or fails and a successor. The refs lock makes a third client
matter only as another reader; the proofs cover any number. One thread suffices
with one worktree because refs interact only through watermarks and batches that
write a thread and HEAD together. Two worktrees need a second thread, since HEAD
starts attached to the first. The log bound is a guard of `Commit`; a full log
makes the call fail. For the lock, two calls per thread let a thread barge in
between another's two calls, and depth 2 distinguishes the outermost guard.

Starts interact through the ref, the record, the log and a shared directory, so
two of them race in one directory; `thread_start` has two directories, for a
record that points elsewhere than the request. Two fresh epochs are a start and a
later one that is not its retry. Three batches are a creation, a capture or a
deletion and a second start; in the race two suffice for a conflict and for a
duplicate, and a start that meets a conflict does not try again (`thread_start` and
the proofs have the second attempt). A full log, a clock at its bound or a presence entry too many stops the
process that needs more; it can still crash, and so nothing deadlocks. The race
with I/O errors, or on two paths, is beyond what TLC finishes; the proofs have
neither bound.

The log's three generations are an append, a carry of its segment and a rewrite,
or a write that fails and its two successors. With two captures and a move the
snapshot runs have every order of two artifacts and a foreign batch. Two
processes and two journaled installs of one pack name suffice for an install, a
recovery and a prune of the same files, as names do not interact; snapshot
installs are unbounded. One edit of the tracked file gives the snapshot run two
contents (with two edits, 7.5 million states, the properties hold as well); files that
are deleted and made again (`Deletes`) are in `MCSnapshotOutput`, and the proofs have
them. The outbox has `MaxPending` three, below what its events
need, so that overflow, repair at the limit and a scan that stops early all
happen; `LongAfter` tells a delay that ends within a drain from one that does
not. Two leases are an owner and its successor; a search with three (eight million
states, not exhausted) met nothing new. The two-process symmetry exchanges the
processes together with their harnesses.

### Fairness

`RepoLock`: weak fairness of a woken thread resuming, of the kernel granting a
lock that is free, and of guards being dropped at the end of their scope. No
call, error, crash or handoff is obliged to happen.

`PackInstall`: weak fairness of every step of a call that has begun and of time;
strong fairness of `StartReload`, since an idle process reloads with its next
install or gc. No install and no crash is obliged to happen. `EventuallyClean`
excepts prunes that take packs from publications again and again: a pack may then be
installed without end, and recovery need never find the lock of its name free.

`TimelineOutbox`: weak fairness of the drain, which `run_timeline_drain` repeats
every 30 seconds, of delays ending, and of the server answering some call. No
publication and no fault is obliged to happen, and faults are bounded.

`SegmentedOplog` (`MCSegmentedOplogLive` only): weak fairness of the steps of a
call that has begun, and strong fairness of the read under the lock, which
`flock` grants again and again.

Deadlock is checked everywhere but in `repo_lock` and `writer_lease`, where a
bounded number of calls or leases ends, and in the configurations that say so.

## 4. Proofs

`RepoLock_proofs` proves `TypeOK`, `Exclusion` and `CoveredReadsProtected` for any
set of threads and processes and any bounds. The inductive invariant relates the
guards to the gate state: the owner of a process, and nobody else in it, holds
write guards, as many as `depth`; a process with an owner has the flock; two
processes never have it at once; no shared flock is out while an exclusive one
is; covered reads belong to owners. `Exclusion` alone is not inductive because it
does not say that a guard implies a flock.

`RefPublication_proofs` proves `TypeOK`, `WatermarkSound`, `ExpectationsHold` and
`ReadsFresh` for any number of processes, clients, worktrees, threads and batches, and
for every failure. The exception that the last three make, `MayRevert`, is an event of
the run and no assumption: two of the further configurations show that it is needed.
The invariant is `MayRevert \/ IndInv`, and once raised `MayRevert` stays. The
argument: a ref file that no watermark covers can only lag behind records above every
watermark, and every step that makes a watermark larger has just published what lies
between; a fold of a worktree's HEAD, which sees its own batches only, publishes
threads whose newest batch is its own. The
strengthening states for each phase of a call what its plan and saved files are
in terms of the log, that only the holder of the refs lock is in such a phase,
that a rollback restores only what no watermark vouches for, and that an
unrecorded write of a ref implies that every record of the ref is below the
watermarks any process can start from. `ReadsFresh` follows for a read through
the gate because a watermark that covers the tip read earlier covers the last
write at that moment, so the file is then either that write's value or a newer
one.

`ThreadStart_proofs` proves, for any number of processes, paths, attempts and
batches:

- `TypeOK`, with what each phase knows of its locals (a request is complete from
  `Start` on, a claim that is not "gone" has a directory at its path, the ledger
  holds known effects). The claim part is what makes a write through a handle
  well-typed, and it needs that a removal ends every claim on the directory.
- `ExactlyOnce`, under every fault: the lookup and the append are one step, and
  every other batch carries no transaction id.
- `CapturesKept`, under every fault. The strengthening says where states come from:
  a captured state was made by a capture's batch, the base of a start that found no
  ref by a batch of the base thread. So the rollback of a creating start, which
  writes only over its own base, never meets a captured state; a start on an
  existing ref writes back the value it found.
- `CreatedOnce`, under every fault: at most one start is between creating the ref and
  its commit or rollback, the ref is there while it is, and there is none while a
  recorded creation stands undeleted whose append did not report an error. It
  rests on where in the ledger the ref's inverse is. After an append that reported an
  error (`unsure`) the batch may stay, the ref is rolled back, and the next start
  creates it again: that pair the property excepts.
- `FailedStartUndone`, under every fault: a start that ran alone and failed, with
  every inverse run, left the ref, the record and the directories as it found them.
  The invariant says at each step of the attempt what differs from what the start
  found and that an inverse on the ledger restores it: the ledger has the inverses
  of the directory, the ref, the checkout and the record, in this order; the value
  each writes back is the one that was found; and a directory that the start
  adopted was empty, which is why the checkout's inverse may clear it. Running the
  newest inverse keeps the invariant with a shorter ledger, and with an empty one it
  says that nothing differs. It holds across retries, as an attempt begins only when
  the ledger of the one before is empty.
- `AllOrNothing`, under every fault: moreover the log has no batch of the failed
  start but one whose append reported an error.
- `ThreadStays` and `CheckoutStays`, for any number of processes: whatever later starts
  of the name do, the ref, the record and the checkout of a started thread stay until
  it is dropped, unless starts overlapped since no thread was live (`crowded`). A start
  that begins while another one runs raises that flag, so while it is down at most
  one process is starting the thread (`LoneInv`). The invariants say that a later start has found the ref and keeps the valid
  record it found for its inverse, that it claims no directory in which the checkout
  stands, and that what it commits has been staged in full. `MCThreadStartRef` and
  `MCThreadStartCheckout` show that of overlapping starts these are false.

`SegmentedOplog_proofs` proves, for any number of handles, records and failures,
`TypeOK`, `ListedIntact`, `CachedSound`, `DurableKept` and the refinement: `Spec`
implies `ImplementsLog`, every step on containers and manifest is a step of
`DurableLog` or leaves its variables alone. The lemmas below it are about
manifests: an entry of a well-formed one has exactly one home among the listed
containers; what an append and a rewrite publish is well-formed; and the log it
makes up is the old one with the new entry, or the rewritten one. The inductive
invariant says that each state a power failure may leave is well-formed and complete,
that its log, read from containers that are not torn, is the one that was published under its
generation and holds every kept record, and it says what a writer between its
container and its manifest is about to publish, and a reader between two
containers has read so far. None of the five is inductive alone: that the
manifest a writer renames into place lists only readable containers, for one, needs
that nobody else writes or unlinks between the writer's look at the old manifest
and that rename. It speaks of the logs as they are while no container is torn; a second
part says that damage lasts: once the manifest lists a torn container no writer opens
the log, and a writer that had opened it before holds no lock after the power failure.
That is what `DurableKept` and the step `Damage` of `DurableLog` except.

`SnapshotCommit_proofs` proves, for any number of processes, states and batches:

- `TypeOK` and `ExactlyOnce`, without assumptions. The batch that a worker is about
  to append is under the log's lock until it is there (`ViewAt`), so no other
  append of the same transaction comes between.
- `SamePosition` and `Recoverable`, whatever crashes or loses power, until `overtaken`
  (`snapshot_crash` shows what then happens). The invariant: the packs that the log
  lacks have the positions from its length to `Top`, one each; a process that is to
  replay one of them is to replay all before it; and the unsynced tail of the log
  holds captures only, which have packs. A power loss or the death of a worker moves
  batches to the lost packs and leaves `Top` alone; a commit while something is lost
  is what raises `overtaken`, and any other adds `Top` itself.
- `PersistedClean`, while moreover the log has captures alone and none of them was
  `stale`. The invariant (`CleanInv`): a persisted watermark equal to `Top` goes with a
  file that has the state of the pack below `Top`, and so does what any capture is
  about to publish. `AlreadyCommitted`, which publishes the state of an older batch
  with the same transaction id, keeps it unless that batch is not the newest: then
  `stale` is raised.

`PackInstall_proofs` proves `TypeOK` (with which call holds which lock), `Installed`,
`MarkerImpliesPair` and `LiveInstallKept`, beside prunes that race publications. The
invariant says that what an install has published so far is there unless a prune took
it (`raced`), and that what it makes room for is no pair; an install id belongs to one
install, its intent is written under the lock of the name, and so a recovery of a
running install waits for that lock.

`WriterLease_proofs` proves `TypeOK`, `OneOwner`, `AuthorityKept`, `HarnessOnly` and
`ReleasedGone` for any number of processes, checkouts and leases, with and without a
checkout. The key lemmas: a lease of a checkout is ended or bound only by the holder of
its lock, or while nobody holds that lock; and a lease without a checkout, which ends
at any time, disturbs none that has one, as only temporary leases of captures are active beside it.
From it follows that what a capture found under the lock stays true until it releases
it, which the invariant states for each phase; `ReleasedGone` needs that a credential is
written only under the same lock and for an active lease. `AuthorityKept` and
`ReleasedGone` speak of leases of a checkout: `MCWriterLeasePathless` shows that the first is
false of the others.

`TimelineOutbox_proofs` proves `TypeOK`, `Faithful`, `NothingDropped`,
`AckContinues` and `PendingBounded`, without assumptions beyond those on the
constants, for any number of runs, events and faults and any limits. In parts, the
inductive invariant `OutboxInv` says:

- `MapInv`: the event map of a run lists, in order, the events with a hosted form
  among those scanned. That a set of numbers can be listed in order in exactly one
  way (`RisingExists`, `RisingUnique`), and that scanning further only appends to
  the list (`ProjectedList`), is proved first.
- `KnownInv`: every request, in the outbox, in a call or on the server, carries
  exactly the events that the map has at its positions, and an operation id belongs
  to one request. A retry therefore repeats a request and never changes it.
- `QueueInv`: no request in the outbox begins before the acknowledged prefix, and of
  two requests of a run the older one is the earlier one, or the younger one repairs
  a gap before it.
- `CoverInv`, `DroppedInv`: a hosted position that is not acknowledged is in a queued
  request, or the server does not have it; beyond what the server ever held every
  position is in a queued request.
- `NetInv`, `ServerInv`: a call that the server has not seen belongs to a queued or a
  served request; the served requests of a run lie one behind the other from 0 on.
- `PickedInv`, `AnswerInv`: the request of the drain is queued and the first of its
  run until it is answered; if the answer is an acknowledgement it begins where the
  acknowledged prefix ends, and if it is a gap the server is behind it.

`AckContinues` alone is not inductive. A server that acknowledges a request has
everything before it; the request is the first queued one of its run, so by
`CoverInv` nothing unacknowledged lies before it, and it begins at `acked_position`
(`AckedIsFirst`). Until the drain acts on the answer, hooks only queue requests
behind it. `Faithful` follows from `ServerInv` (which request has a
position), `KnownInv` (what it has there) and `MapInv` (that this is the local
event). `PendingBounded` is inductive beside `OutboxInv`: a step counts at most one
request, acceptance or registration more than before, and only with room for it.

Assumptions on constants are next to their declarations. Three are about
model values: that harness sessions are not processes (`LeaseAssumption`), that `None`
is not an artifact (`NoneAssumption`), and that it is neither a run nor a request
(`OutboxAssumption`, which also has the runs finite).

Only model-checked: the liveness properties (`WriteReturnsUnlessError`,
`EventuallyClean`, `ReachedOrReported`): liveness under fairness is out of the
prover's reach. Every safety property of the passing runs is proved, with no other
hypothesis than the assumptions on the constants. Where the code breaks a promise after
a certain event, the property itself excepts what follows that event; the event is
recorded by a history variable at the step of the code that makes it. For the safety
properties a run or a further configuration shows that the promise fails without the
exception.

## 5. Not modelled

- *Ref storage files* (loose and packed files behind one ref, packing, deletion
  order) and the summary index: `RefPublication` has one file per ref.
- *Repack and compaction*: retires packs while readers have them open; the reader
  side is mapped memory and file handles.
- *Operation deduplication, undo and redo, merge state, stash, presence, goto*:
  one command's reads and writes under the repository lock, on top of the
  transactions `ThreadStart` and `SnapshotCommit` have; planned.
- *Collaboration store, hosted client, agent relay*: protocols whose other end is
  not in the repository. The timeline upload is modelled because the client alone
  decides its retries and repairs.
- *Merge engine, semantic index, object formats, Git projection and ingest,
  mount, CLI contract and rendering*: computation on contents, third-party formats
  and kernel interfaces. They make up most of the repository's lines and have
  little state of their own that steps of several actors could reach.

`PROJECT.json` has a note for each component.

## 6. Plan

1. `RefFiles`: loose and packed files behind one ref, deletion order, packing.
2. Undo and redo over the log; operation deduplication; merge state.
3. Repack and compaction beside `PackInstall`.
4. Starts that overlap: which part of `ThreadStays` and `CheckoutStays` two starts of
   different directories keep, without the exception of `crowded`.
