---------------------------- MODULE PackInstall ----------------------------
(***************************************************************************)
(* Publication of a pack and its index in the object store                 *)
(* (objects/src/store/fs/pack_install_journal.rs).  A reader uses a pack   *)
(* only when both files are there, so an install must make the pair        *)
(* appear, whichever step it stops at.                                     *)
(*                                                                         *)
(* The journaled install stages both files, takes the lock of the pack's   *)
(* name, records an intent, publishes pack and index, and removes staging  *)
(* and intent.  The snapshot install publishes under the lock without an   *)
(* intent and then drops the marker that commits the capture.  reload_packs*)
(* recovers the intents it lists, sweeps old staging directories without   *)
(* an intent and prunes packs that have no index; only the recovery takes  *)
(* the locks, so a prune can take a pack that is just being published.     *)
(*                                                                         *)
(* Packs are named by the hash of their bytes, so "good" pack and index    *)
(* bytes of one name are always the same; "bad" stands for a file whose    *)
(* hash or format does not check.  Whether the intent says prepared or     *)
(* pack_published is not kept, because recovery treats both alike; time is *)
(* the set of installs older than the TTL.                                 *)
(***************************************************************************)
EXTENDS Naturals, FiniteSets

CONSTANTS
  Proc,          \* processes
  Pack,          \* content-addressed pack names
  None,          \* no process, no pack
  MaxInstalls,   \* bound: journaled installs that stage files
  MaxStops       \* bound: crashes and failed steps

ASSUME PackInstallAssumption ==
  /\ None \notin Proc \union Pack
  /\ MaxInstalls \in Nat \ {0}
  /\ MaxStops \in Nat

VARIABLES
  pack,      \* pack[k], idx[k]: the final files, absent, good or bad
  idx,
  marker,    \* packs with a snapshot-commit marker
  staged,    \* staged[i]: files in the staging directory of install i
  intent,    \* intent[i]: pack named by the intent of install i, or None
  aged,      \* installs whose intent and staging are older than the TTL
  lock,      \* lock[k]: process holding the lock of the pack name k
  pr,        \* the call each process is in
  next,      \* next install id
  ok,        \* packs for which an install has returned Ok
  raced,     \* history: packs that a prune took from a pair, or from a publication,
             \*   and that have not been published since
  stops      \* crashes and failures so far

disk == <<pack, idx, marker, staged, intent>>
vars == <<pack, idx, marker, staged, intent, aged, lock, pr, next, ok, raced, stops>>

File == {"none", "good", "bad"}
Id == 1 .. MaxInstalls
NoId == 0

(* Where a process is; the first two sets hold the lock of their pack.     *)
Journaled == {"repair", "repairIdx", "intent", "pack", "mark", "idx"}
Snapshot == {"sRepair", "sRepairIdx", "sPack", "sIdx", "sMark"}
Recovering == {"decide", "complete"}
Cleaning == {"clean", "unintent"}
Locked == Journaled \union Snapshot \union Recovering \union Cleaning
Unlocked == {"idle", "stagePack", "stageIdx", "lock", "sLock", "sAdd", "reload",
             "recover", "tryLock", "sweep", "sweepRemove", "pruneList", "prune"}

Idle == [at |-> "idle", pack |-> None, id |-> NoId, installing |-> FALSE,
         todo |-> {}, unpaired |-> {}]

Goto(p, label) == pr' = [pr EXCEPT ![p].at = label]

(* The same call goes on with what it still has to recover.                *)
Onward(p, label) == pr' = [pr EXCEPT ![p] = [Idle EXCEPT !.at = label, !.todo = pr[p].todo]]

(* existing_pair_matches_digest: both files there, hashed and parsed.      *)
Complete(k) == pack[k] = "good" /\ idx[k] = "good"

(* Both files are there, whatever they hold.                               *)
Present(k) == pack[k] # "none" /\ idx[k] # "none"

Unpaired(k) == pack[k] # "none" /\ idx[k] = "none"

(* Between the rename of the pack and the rename of the index.             *)
Publishing(p, k) == pr[p].at \in {"mark", "idx", "sIdx"} /\ pr[p].pack = k

(* The index arrives: a pair, unless its pack has been taken meanwhile.    *)
Paired(k) ==
  /\ idx' = [idx EXCEPT ![k] = "good"]
  /\ raced' = IF pack[k] = "good" THEN raced \ {k} ELSE raced

(* A repository can hold pairs and a pair that no longer checks.           *)
Init ==
  /\ \E rotten \in SUBSET Pack, f \in {"pack", "idx"} :
       /\ pack = [k \in Pack |-> IF k \notin rotten THEN "none"
                                 ELSE IF f = "pack" THEN "bad" ELSE "good"]
       /\ idx = [k \in Pack |-> IF k \notin rotten THEN "none"
                                ELSE IF f = "idx" THEN "bad" ELSE "good"]
  /\ marker = {}
  /\ staged = [i \in Id |-> {}]
  /\ intent = [i \in Id |-> None]
  /\ aged = {}
  /\ lock = [k \in Pack |-> None]
  /\ pr = [p \in Proc |-> Idle]
  /\ next = 1
  /\ ok = {}
  /\ raced = {}
  /\ stops = 0

-----------------------------------------------------------------------------
(* The journaled install.                                                  *)

(* The pair is already there: Ok without the lock, then reload_packs.      *)
StartExisting(p, k) ==
  /\ pr[p].at = "idle"
  /\ Complete(k)
  /\ ok' = ok \union {k}
  /\ Goto(p, "reload")
  /\ UNCHANGED <<disk, aged, lock, next, raced, stops>>

(* A new install id and its staging directory.                             *)
Start(p, k) ==
  /\ pr[p].at = "idle"
  /\ ~Complete(k)
  /\ next \in Id
  /\ next' = next + 1
  /\ pr' = [pr EXCEPT ![p] = [Idle EXCEPT !.at = "stagePack", !.pack = k,
                                          !.id = next, !.installing = TRUE]]
  /\ UNCHANGED <<disk, aged, lock, ok, raced, stops>>

Stage(p, at, file, label) ==
  /\ pr[p].at = at
  /\ staged' = [staged EXCEPT ![pr[p].id] = @ \union {file}]
  /\ Goto(p, label)
  /\ UNCHANGED <<pack, idx, marker, intent, aged, lock, next, ok, raced, stops>>

StagePack(p) == Stage(p, "stagePack", "pack", "stageIdx")

StageIdx(p) == Stage(p, "stageIdx", "idx", "lock")

(* Another install finished first: its own staging is dropped.             *)
LockExisting(p) ==
  LET k == pr[p].pack IN
  /\ pr[p].at = "lock"
  /\ lock[k] = None
  /\ Complete(k)
  /\ staged' = [staged EXCEPT ![pr[p].id] = {}]
  /\ ok' = ok \union {k}
  /\ Onward(p, "reload")
  /\ UNCHANGED <<pack, idx, marker, intent, aged, lock, next, raced, stops>>

LockMissing_NoRecheck(p) ==
  LET k == pr[p].pack IN
  /\ pr[p].at = "lock"
  /\ lock[k] = None
  /\ lock' = [lock EXCEPT ![k] = p]
  /\ Goto(p, "repair")
  /\ UNCHANGED <<disk, aged, next, ok, raced, stops>>

LockMissing(p) ==
  LET k == pr[p].pack IN
  /\ pr[p].at = "lock"
  /\ lock[k] = None
  /\ ~Complete(k)
  /\ lock' = [lock EXCEPT ![k] = p]
  /\ Goto(p, "repair")
  /\ UNCHANGED <<disk, aged, next, ok, raced, stops>>

(* A pack without index, or a pair that does not check, makes room.        *)
Repair(p) ==
  LET k == pr[p].pack IN
  /\ pr[p].at = "repair"
  /\ pack' = [pack EXCEPT ![k] = "none"]
  /\ Goto(p, IF Present(k) THEN "repairIdx" ELSE "intent")
  /\ UNCHANGED <<idx, marker, staged, intent, aged, lock, next, ok, raced, stops>>

RepairIdx(p) ==
  /\ pr[p].at = "repairIdx"
  /\ idx' = [idx EXCEPT ![pr[p].pack] = "none"]
  /\ Goto(p, "intent")
  /\ UNCHANGED <<pack, marker, staged, intent, aged, lock, next, ok, raced, stops>>

(* The intent is written before anything is published and rewritten as     *)
(* pack_published between the two files.                                   *)
WriteIntent(p) ==
  /\ pr[p].at \in {"intent", "mark"}
  /\ intent' = [intent EXCEPT ![pr[p].id] = pr[p].pack]
  /\ Goto(p, IF pr[p].at = "intent" THEN "pack" ELSE "idx")
  /\ UNCHANGED <<pack, idx, marker, staged, aged, lock, next, ok, raced, stops>>

PublishPack(p) ==
  LET i == pr[p].id IN
  /\ pr[p].at = "pack"
  /\ "pack" \in staged[i]
  /\ pack' = [pack EXCEPT ![pr[p].pack] = "good"]
  /\ staged' = [staged EXCEPT ![i] = @ \ {"pack"}]
  /\ Goto(p, "mark")
  /\ UNCHANGED <<idx, marker, intent, aged, lock, next, ok, raced, stops>>

PublishIdx(p) ==
  LET i == pr[p].id IN
  /\ pr[p].at = "idx"
  /\ "idx" \in staged[i]
  /\ Paired(pr[p].pack)
  /\ staged' = [staged EXCEPT ![i] = @ \ {"idx"}]
  /\ Goto(p, "clean")
  /\ UNCHANGED <<pack, marker, intent, aged, lock, next, ok, stops>>

(* publish_file_durable finds its source swept: the install returns Err    *)
(* and leaves its intent.                                                  *)
StagingGone(p) ==
  LET i == pr[p].id IN
  /\ \/ pr[p].at = "pack" /\ "pack" \notin staged[i]
     \/ pr[p].at = "idx" /\ "idx" \notin staged[i]
  /\ lock' = [lock EXCEPT ![pr[p].pack] = None]
  /\ pr' = [pr EXCEPT ![p] = Idle]
  /\ UNCHANGED <<disk, aged, next, ok, raced, stops>>

(* remove_staging, then remove_intent: the end of an install, of a         *)
(* completed recovery and of an abort.                                     *)
RemoveStaging(p) ==
  /\ pr[p].at = "clean"
  /\ staged' = [staged EXCEPT ![pr[p].id] = {}]
  /\ Goto(p, "unintent")
  /\ UNCHANGED <<pack, idx, marker, intent, aged, lock, next, ok, raced, stops>>

RemoveIntent_KeepsLock(p) ==
  LET c == pr[p] IN
  /\ c.at = "unintent"
  /\ intent' = [intent EXCEPT ![c.id] = None]
  /\ ok' = IF c.installing THEN ok \union {c.pack} ELSE ok
  /\ Onward(p, IF c.installing THEN "reload" ELSE "recover")
  /\ UNCHANGED <<pack, idx, marker, staged, aged, lock, next, raced, stops>>

RemoveIntent(p) ==
  LET c == pr[p] IN
  /\ c.at = "unintent"
  /\ intent' = [intent EXCEPT ![c.id] = None]
  /\ lock' = [lock EXCEPT ![c.pack] = None]
  /\ ok' = IF c.installing THEN ok \union {c.pack} ELSE ok
  /\ Onward(p, IF c.installing THEN "reload" ELSE "recover")
  /\ UNCHANGED <<pack, idx, marker, staged, aged, next, raced, stops>>
-----------------------------------------------------------------------------
(* The snapshot install: the capture's commit point is the marker.         *)

SnapshotStart(p, k) ==
  /\ pr[p].at = "idle"
  /\ pr' = [pr EXCEPT ![p] = [Idle EXCEPT !.at = "sLock", !.pack = k, !.installing = TRUE]]
  /\ UNCHANGED <<disk, aged, lock, next, ok, raced, stops>>

SnapshotExisting(p) ==
  LET k == pr[p].pack IN
  /\ pr[p].at = "sLock"
  /\ lock[k] = None
  /\ Complete(k)
  /\ marker' = marker \union {k}
  /\ Goto(p, "sAdd")
  /\ UNCHANGED <<pack, idx, staged, intent, aged, lock, next, ok, raced, stops>>

SnapshotLock(p) ==
  LET k == pr[p].pack IN
  /\ pr[p].at = "sLock"
  /\ lock[k] = None
  /\ ~Complete(k)
  /\ lock' = [lock EXCEPT ![k] = p]
  /\ Goto(p, "sRepair")
  /\ UNCHANGED <<disk, aged, next, ok, raced, stops>>

SnapshotRepair(p) ==
  /\ pr[p].at = "sRepair"
  /\ pack' = [pack EXCEPT ![pr[p].pack] = "none"]
  /\ Goto(p, "sRepairIdx")
  /\ UNCHANGED <<idx, marker, staged, intent, aged, lock, next, ok, raced, stops>>

SnapshotRepairIdx(p) ==
  /\ pr[p].at = "sRepairIdx"
  /\ idx' = [idx EXCEPT ![pr[p].pack] = "none"]
  /\ Goto(p, "sPack")
  /\ UNCHANGED <<pack, marker, staged, intent, aged, lock, next, ok, raced, stops>>

SnapshotPack_MarksEarly(p) ==
  /\ pr[p].at = "sPack"
  /\ pack' = [pack EXCEPT ![pr[p].pack] = "good"]
  /\ marker' = marker \union {pr[p].pack}
  /\ Goto(p, "sIdx")
  /\ UNCHANGED <<idx, staged, intent, aged, lock, next, ok, raced, stops>>

(* Both files are staged and synced as temporaries, then renamed.          *)
SnapshotPack(p) ==
  /\ pr[p].at = "sPack"
  /\ pack' = [pack EXCEPT ![pr[p].pack] = "good"]
  /\ Goto(p, "sIdx")
  /\ UNCHANGED <<idx, marker, staged, intent, aged, lock, next, ok, raced, stops>>

SnapshotIdx(p) ==
  /\ pr[p].at = "sIdx"
  /\ Paired(pr[p].pack)
  /\ Goto(p, "sMark")
  /\ UNCHANGED <<pack, marker, staged, intent, aged, lock, next, ok, stops>>

(* The marker is created new.                                              *)
SnapshotMark(p) ==
  LET k == pr[p].pack IN
  /\ pr[p].at = "sMark"
  /\ k \notin marker
  /\ marker' = marker \union {k}
  /\ lock' = [lock EXCEPT ![k] = None]
  /\ Goto(p, "sAdd")
  /\ UNCHANGED <<pack, idx, staged, intent, aged, next, ok, raced, stops>>

(* One of this name is an error.                                           *)
SnapshotMarkExists(p) ==
  LET k == pr[p].pack IN
  /\ pr[p].at = "sMark"
  /\ k \in marker
  /\ lock' = [lock EXCEPT ![k] = None]
  /\ pr' = [pr EXCEPT ![p] = Idle]
  /\ UNCHANGED <<disk, aged, next, ok, raced, stops>>

(* add_pack opens the pair before the capture is told it is stored.        *)
AddPack(p) ==
  LET k == pr[p].pack IN
  /\ pr[p].at = "sAdd"
  /\ ok' = IF Complete(k) THEN ok \union {k} ELSE ok
  /\ pr' = [pr EXCEPT ![p] = Idle]
  /\ UNCHANGED <<disk, aged, lock, next, raced, stops>>
-----------------------------------------------------------------------------
(* reload_packs: recovery of the intents, the sweep of staging, the prune. *)

StartReload(p) ==
  /\ pr[p].at = "idle"
  /\ Goto(p, "reload")
  /\ UNCHANGED <<disk, aged, lock, next, ok, raced, stops>>

ListIntents(p) ==
  /\ pr[p].at = "reload"
  /\ pr' = [pr EXCEPT ![p] = [Idle EXCEPT !.at = "recover",
                              !.todo = {i \in Id : intent[i] # None}]]
  /\ UNCHANGED <<disk, aged, lock, next, ok, raced, stops>>

(* An intent that has gone since the listing is only counted as an error.  *)
LoadIntent(p, i) ==
  /\ pr[p].at = "recover"
  /\ i \in pr[p].todo
  /\ pr' = IF intent[i] = None
            THEN [pr EXCEPT ![p].todo = @ \ {i}]
            ELSE [pr EXCEPT ![p].todo = @ \ {i}, ![p].at = "tryLock",
                            ![p].id = i, ![p].pack = intent[i]]
  /\ UNCHANGED <<disk, aged, lock, next, ok, raced, stops>>

TryLock_Ignored(p) ==
  /\ pr[p].at = "tryLock"
  /\ Goto(p, "decide")
  /\ lock' = [lock EXCEPT ![pr[p].pack] = p]
  /\ UNCHANGED <<disk, aged, next, ok, raced, stops>>

(* A lock that is held means an install in progress: skipped.              *)
TryLock(p) ==
  LET k == pr[p].pack IN
  /\ pr[p].at = "tryLock"
  /\ IF lock[k] = None
     THEN Goto(p, "decide") /\ lock' = [lock EXCEPT ![k] = p]
     ELSE Onward(p, "recover") /\ UNCHANGED lock
  /\ UNCHANGED <<disk, aged, next, ok, raced, stops>>

(* The pair is there: what is left of the install is cleaned up.           *)
RecoverPresent(p) ==
  /\ pr[p].at = "decide"
  /\ Present(pr[p].pack)
  /\ Goto(p, "clean")
  /\ UNCHANGED <<disk, aged, lock, next, ok, raced, stops>>

(* Only the index is missing and it is staged: completed, whatever its age.*)
RecoverUnpaired(p) ==
  /\ pr[p].at = "decide"
  /\ Unpaired(pr[p].pack)
  /\ "idx" \in staged[pr[p].id]
  /\ Goto(p, "complete")
  /\ UNCHANGED <<disk, aged, lock, next, ok, raced, stops>>

(* complete_from_staging: the pack may have been pruned since it was seen. *)
CompleteFromStaging(p) ==
  LET i == pr[p].id IN
  /\ pr[p].at = "complete"
  /\ "idx" \in staged[i]
  /\ Paired(pr[p].pack)
  /\ staged' = [staged EXCEPT ![i] = @ \ {"idx"}]
  /\ Goto(p, "clean")
  /\ UNCHANGED <<pack, marker, intent, aged, lock, next, ok, stops>>

Incomplete(i, k) == ~Present(k) /\ ~(Unpaired(k) /\ "idx" \in staged[i])

AbortInstall_KeepsIntent(p) ==
  LET i == pr[p].id  k == pr[p].pack IN
  /\ \/ pr[p].at = "decide" /\ i \in aged
     \/ pr[p].at = "complete"
  /\ Incomplete(i, k)
  /\ pack' = [pack EXCEPT ![k] = IF Unpaired(k) THEN "none" ELSE @]
  /\ staged' = [staged EXCEPT ![i] = {}]
  /\ lock' = [lock EXCEPT ![k] = None]
  /\ Onward(p, "recover")
  /\ UNCHANGED <<idx, marker, intent, aged, next, ok, raced, stops>>

(* An install that has expired, or whose completion finds the pack or the  *)
(* staged index gone, is undone.                                           *)
AbortInstall(p) ==
  LET i == pr[p].id  k == pr[p].pack IN
  /\ \/ pr[p].at = "decide" /\ i \in aged
     \/ pr[p].at = "complete"
  /\ Incomplete(i, k)
  /\ pack' = [pack EXCEPT ![k] = IF Unpaired(k) THEN "none" ELSE @]
  /\ Goto(p, "clean")
  /\ UNCHANGED <<idx, marker, staged, intent, aged, lock, next, ok, raced, stops>>

SkipFresh(p) ==
  LET k == pr[p].pack IN
  /\ pr[p].at = "decide"
  /\ Incomplete(pr[p].id, k)
  /\ pr[p].id \notin aged
  /\ lock' = [lock EXCEPT ![k] = None]
  /\ Onward(p, "recover")
  /\ UNCHANGED <<disk, aged, next, ok, raced, stops>>

(* The staged index is swept after the last look at it: the publication    *)
(* fails, and the recovery goes on with the other intents.                 *)
CompleteFails(p) ==
  /\ pr[p].at = "complete"
  /\ "idx" \notin staged[pr[p].id]
  /\ lock' = [lock EXCEPT ![pr[p].pack] = None]
  /\ Onward(p, "recover")
  /\ UNCHANGED <<disk, aged, next, ok, raced, stops>>

RecoverDone(p) ==
  /\ pr[p].at = "recover"
  /\ pr[p].todo = {}
  /\ Goto(p, "sweep")
  /\ UNCHANGED <<disk, aged, lock, next, ok, raced, stops>>

(* sweep_orphan_staging: no intent and past the TTL, checked without lock. *)
Sweepable(i) == staged[i] # {} /\ intent[i] = None /\ i \in aged

SweepCheck(p, i) ==
  /\ pr[p].at = "sweep"
  /\ Sweepable(i)
  /\ pr' = [pr EXCEPT ![p].at = "sweepRemove", ![p].id = i]
  /\ UNCHANGED <<disk, aged, lock, next, ok, raced, stops>>

SweepRemove(p) ==
  /\ pr[p].at = "sweepRemove"
  /\ staged' = [staged EXCEPT ![pr[p].id] = {}]
  /\ Onward(p, "sweep")
  /\ UNCHANGED <<pack, idx, marker, intent, aged, lock, next, ok, raced, stops>>

SweepDone(p) ==
  /\ pr[p].at = "sweep"
  /\ \A i \in Id : ~Sweepable(i)
  /\ Goto(p, "pruneList")
  /\ UNCHANGED <<disk, aged, lock, next, ok, raced, stops>>

(* prune_unpaired_pack_files lists without a lock and without looking at   *)
(* the intents, and removes what it has listed, which by then may be a     *)
(* pair or half of one.                                                    *)
PruneList(p) ==
  /\ pr[p].at = "pruneList"
  /\ pr' = [pr EXCEPT ![p].at = "prune", ![p].unpaired = {k \in Pack : Unpaired(k)}]
  /\ UNCHANGED <<disk, aged, lock, next, ok, raced, stops>>

Taken(k) == pack[k] # "none" /\ (idx[k] # "none" \/ \E q \in Proc : Publishing(q, k))

PruneOne(p, k) ==
  /\ pr[p].at = "prune"
  /\ k \in pr[p].unpaired
  /\ pack' = [pack EXCEPT ![k] = "none"]
  /\ pr' = [pr EXCEPT ![p].unpaired = @ \ {k}]
  /\ raced' = IF Taken(k) THEN raced \union {k} ELSE raced
  /\ UNCHANGED <<idx, marker, staged, intent, aged, lock, next, ok, stops>>

PruneDone(p) ==
  /\ pr[p].at = "prune"
  /\ pr[p].unpaired = {}
  /\ pr' = [pr EXCEPT ![p] = Idle]
  /\ UNCHANGED <<disk, aged, lock, next, ok, raced, stops>>
-----------------------------------------------------------------------------
(* Time, crashes and failures.                                             *)

(* The TTL of an intent and of a staging directory passes.                 *)
Age(i) ==
  /\ i \notin aged
  /\ intent[i] # None \/ staged[i] # {}
  /\ aged' = aged \union {i}
  /\ UNCHANGED <<disk, lock, pr, next, ok, raced, stops>>

(* The process dies, or a step fails and the call returns its error: the   *)
(* files stay as they are and the flock goes with the guard.               *)
Stop(p) ==
  /\ stops < MaxStops
  /\ pr[p].at # "idle"
  /\ stops' = stops + 1
  /\ lock' = [k \in Pack |-> IF lock[k] = p THEN None ELSE lock[k]]
  /\ pr' = [pr EXCEPT ![p] = Idle]
  /\ UNCHANGED <<disk, aged, next, ok, raced>>

-----------------------------------------------------------------------------
Install(p) ==
  \/ StagePack(p) \/ StageIdx(p) \/ LockExisting(p) \/ LockMissing(p)
  \/ Repair(p) \/ RepairIdx(p) \/ WriteIntent(p) \/ PublishPack(p)
  \/ PublishIdx(p) \/ StagingGone(p) \/ RemoveStaging(p) \/ RemoveIntent(p)

SnapshotInstall(p) ==
  \/ SnapshotExisting(p) \/ SnapshotLock(p) \/ SnapshotRepair(p)
  \/ SnapshotRepairIdx(p) \/ SnapshotPack(p) \/ SnapshotIdx(p) \/ SnapshotMark(p)
  \/ SnapshotMarkExists(p) \/ AddPack(p)

Reload(p) ==
  \/ ListIntents(p) \/ TryLock(p) \/ RecoverPresent(p) \/ RecoverUnpaired(p)
  \/ CompleteFromStaging(p) \/ CompleteFails(p) \/ AbortInstall(p) \/ SkipFresh(p) \/ RecoverDone(p) \/ SweepRemove(p)
  \/ SweepDone(p) \/ PruneList(p) \/ PruneDone(p)
  \/ \E i \in Id : LoadIntent(p, i) \/ SweepCheck(p, i)
  \/ \E k \in Pack : PruneOne(p, k)

Step(p) == Install(p) \/ SnapshotInstall(p) \/ Reload(p)

Begin(p) ==
  \/ StartReload(p)
  \/ \E k \in Pack : StartExisting(p, k) \/ Start(p, k) \/ SnapshotStart(p, k)

Next ==
  \/ \E p \in Proc : Step(p) \/ Begin(p) \/ Stop(p)
  \/ \E i \in Id : Age(i)

Spec == Init /\ [][Next]_vars

(* Fairness: a call that has begun goes on while it can; time passes; and  *)
(* a process that is idle again and again reloads some time, as every      *)
(* journaled install and every gc does.                                    *)
FairSpec ==
  /\ Spec
  /\ \A p \in Proc :
       WF_vars(Step(p)) /\ SF_vars(StartReload(p))
  /\ \A i \in Id : WF_vars(Age(i))
-----------------------------------------------------------------------------
(* The variables have their types, and the lock of a pack name is held by  *)
(* exactly the process that is between taking and releasing it             *)
(* (acquire_pack_name_lock, try_acquire_pack_name_lock).                   *)
TypeOK ==
  /\ pack \in [Pack -> File] /\ idx \in [Pack -> File]
  /\ marker \subseteq Pack /\ ok \subseteq Pack /\ raced \subseteq Pack
  /\ aged \subseteq Id
  /\ staged \in [Id -> SUBSET {"pack", "idx"}]
  /\ intent \in [Id -> Pack \union {None}]
  /\ next \in 1 .. MaxInstalls + 1 /\ stops \in 0 .. MaxStops
  /\ pr \in [Proc -> [at : Locked \union Unlocked, pack : Pack \union {None},
                      id : Id \union {NoId}, installing : BOOLEAN,
                      todo : SUBSET Id, unpaired : SUBSET Pack]]
  /\ \A k \in Pack, p \in Proc :
       lock[k] = p <=> pr[p].at \in Locked /\ pr[p].pack = k

(* A pack whose install returned Ok stays a readable pair: no recovery,    *)
(* abort or repair of another process takes one of its files, and a prune  *)
(* only a pack that it listed before its index came; such a pack (raced) is*)
(* whole again when an install has published it anew                       *)
(* (install_pack_bytes_journaled, install_committed_snapshot_pack_bytes).  *)
Installed == \A k \in ok \ raced : Complete(k)

(* The commit marker of a capture never stands without the pack it commits:*)
(* open replays a marker's artifact, so the marker is the commit point     *)
(* (install_snapshot_pack_bytes_inner).  A pack that a prune took from its *)
(* publication (raced) leaves its marker behind.                           *)
MarkerImpliesPair == \A k \in marker \ raced : Complete(k)

(* An install that holds its lock and has not outlived the TTL finds its   *)
(* staged files and the pack it published: recovery in another process     *)
(* neither finishes nor undoes it (try_lock and SkipFresh); the published  *)
(* pack may be taken by a prune only (raced).                              *)
LiveInstallKept ==
  \A p \in Proc :
    LET i == pr[p].id IN
    i \notin aged =>
      /\ pr[p].at = "pack" => "pack" \in staged[i]
      /\ pr[p].at \in {"pack", "mark", "idx"} => "idx" \in staged[i]
      /\ pr[p].at \in {"mark", "idx"} /\ pr[p].pack \notin raced => pack[pr[p].pack] = "good"

(* What the comment on prune_unpaired_pack_files says: "Safe for           *)
(* correctness: loaders never open unpaired packs."  An installed pack is  *)
(* there, whatever is pruned.                                              *)
PruneIsSafe == \A k \in ok : Complete(k)

(* Whatever installs, crashes and failed steps leave behind is cleared in  *)
(* the end: no intent and no staged file outlives the reloads that follow  *)
(* its TTL (recover_one_intent, sweep_orphan_staging), unless prunes take  *)
(* packs from publications again and again: a recovery then may never find *)
(* the lock of a pack free that is installed without end.                  *)
EventuallyClean ==
  \/ <>[](\A i \in Id : intent[i] = None /\ staged[i] = {})
  \/ []<><<\E p \in Proc, k \in Pack : PruneOne(p, k) /\ Taken(k)>>_vars
=============================================================================
