--------------------------- MODULE SegmentedOplog ---------------------------
(***************************************************************************)
(* The on-disk operation log of crates/oplog: immutable containers (a base *)
(* and append segments), and a manifest, replaced by rename, that lists    *)
(* the ones that make up the log.                                          *)
(*                                                                         *)
(* Writers hold the oplog lock.  An append writes one segment that also    *)
(* takes in the tail segments a binary counter would carry, then a         *)
(* manifest; marking a batch undone and coalescing two batches rewrite the *)
(* whole log as a new base.  Each then unlinks containers that the         *)
(* manifest no longer lists.  Readers take no lock: they read the manifest *)
(* and open its containers one by one, and only when one is gone do they   *)
(* open again under the lock.                                              *)
(*                                                                         *)
(* A handle (OpLog) is used by one thread.  A batch has one entry.         *)
(*                                                                         *)
(* Storage.  A rename is visible at once.  Renames and unlinks reach the   *)
(* disk in their order, at the latest when a directory is synced; "past"   *)
(* holds the metadata states a power failure may leave.  The container of  *)
(* a capture's view is not synced before its rename, so that a power       *)
(* failure may tear it: the log is then damaged, whatever was appended     *)
(* after it.  How validate_current or an explicit recovery goes on from    *)
(* there is not modelled: writers and readers get an error.                *)
(***************************************************************************)
EXTENDS OplogEntries, FiniteSets

CONSTANTS
  Procs,      \* handles on one repository's log
  Readers,    \* bound: the handles that also read
  None,       \* no lock owner
  MaxGen,     \* bound: manifest generations
  MaxFails    \* bound: I/O errors, crashes and power failures

ASSUME OplogAssumption ==
  /\ None \notin Procs
  /\ Readers \subseteq Procs
  /\ Recs \subseteq Nat
  /\ MaxGen \in Nat
  /\ MaxFails \in Nat

VARIABLES
  manifest,   \* what the manifest file lists
  disk,       \* the containers that exist, by name
  torn,       \* containers that cannot be read
  solid,      \* containers whose bytes survive a power failure
  past,       \* manifest and directory as a power failure may leave them
  lock,       \* owner of locks/oplog.lock
  pc,         \* where each handle is
  index,      \* the index a writer opened under the lock
  op,         \* what a writer publishes: kind, record and resulting log
  cached,     \* OpLog::cached
  want,       \* the manifest a lock-free reader read
  got,        \* the containers it opened so far
  used,       \* records handed to appends so far: 1, 2, ...
  kept,       \* records whose durable append returned
  published,  \* the log each generation was published with
  fails       \* failures so far, bounded by MaxFails

fileVars == <<manifest, disk, torn, solid, past>>
readVars == <<want, got>>
histVars == <<used, kept, published>>
vars == <<fileVars, lock, pc, index, op, cached, readVars, histVars, fails>>

(***************************************************************************)
(* Containers and manifests.                                               *)
(***************************************************************************)
BaseLevel == -1

(* "segment-l{level}-{start}-{head}-g{generation}", "base-{head}-g{..}" *)
Name(level, lo, hi, gen) == [level |-> level, lo |-> lo, hi |-> hi, gen |-> gen]
Names == [level : Int, lo : Nat, hi : Nat, gen : Nat]

(* oplog.bin: the base while there is no manifest: init() leaves it empty *)
Canonical == Name(BaseLevel, 1, 0, 0)

Manifests == [gen : Nat, base : Names, segments : Seq(Names), head : Nat]

(* The order in which open() opens the containers *)
Count(m) == Len(m.segments) + 1
ContainerAt(m, k) == IF k = 1 THEN m.base ELSE m.segments[k - 1]
Listed(m) == {m.base} \union {m.segments[k] : k \in DOMAIN m.segments}

Holds(n, i) == n.lo <= i /\ i <= n.hi

(* An entry that no readable container holds *)
Lost == [rec |-> 0, batch |-> 0, undone |-> FALSE]

(* The entry with id i: materialize_entries over the containers listed *)
EntryAt(m, d, t, i) ==
  LET home == {n \in Listed(m) : Holds(n, i) /\ n \in DOMAIN d /\ n \notin t}
  IN IF home = {} THEN Lost ELSE d[CHOOSE n \in home : TRUE][i]

LogOf(m, d, t) == [i \in 1..m.head |-> EntryAt(m, d, t, i)]

(* validate_container_sequence, and every container opens *)
Contiguous(m) ==
  /\ m.base.lo = 1
  /\ LET s == m.segments
     IN /\ \A k \in 1..Len(s) : s[k].lo <= s[k].hi
        /\ \A k \in 1..Len(s) : s[k].lo = IF k = 1 THEN m.base.hi + 1
                                                   ELSE s[k - 1].hi + 1
        /\ \A k \in 2..Len(s) : s[k - 1].level > s[k].level
        /\ m.head = IF s = << >> THEN m.base.hi ELSE s[Len(s)].hi

Opens(m, d, t) ==
  /\ Contiguous(m)
  /\ Listed(m) \subseteq DOMAIN d \ t

(* A power failure tore a container that the manifest lists *)
Damaged == torn \cap Listed(manifest) # {}

(* The loop of append_entries_inner pops k tail segments: levels k-1 .. 0 *)
Carries(s, k) ==
  /\ \A j \in 1..k : s[Len(s) - j + 1].level = j - 1
  /\ k < Len(s) => s[Len(s) - k].level # k

AppendName(m, k) ==
  Name(k, IF k = 0 THEN m.head + 1 ELSE m.segments[Len(m.segments) - k + 1].lo,
       m.head + 1, m.gen + 1)
AppendManifest(m, k) ==
  [m EXCEPT !.gen = @ + 1, !.head = @ + 1,
            !.segments = Append(SubSeq(@, 1, Len(@) - k), AppendName(m, k))]

BaseName_NoGeneration(m) == Name(BaseLevel, 1, m.head, 0)
BaseName(m) == Name(BaseLevel, 1, m.head, m.gen + 1)
BaseManifest(m) ==
  [gen |-> m.gen + 1, base |-> BaseName(m), segments |-> << >>, head |-> m.head]

(* The container and the manifest that publish o over the index m *)
ContainerFor(m, o) == IF o.kind = "rewrite" THEN BaseName(m) ELSE AppendName(m, o.carry)
ManifestFor(m, o) == IF o.kind = "rewrite" THEN BaseManifest(m) ELSE AppendManifest(m, o.carry)

Put(d, n, c) == [x \in DOMAIN d \union {n} |-> IF x = n THEN c ELSE d[x]]
Remove(d, S) == [x \in DOMAIN d \ S |-> d[x]]

Now == [man |-> manifest, disk |-> disk]
Log == LogOf(manifest, disk, torn)

(***************************************************************************)
(* States.                                                                 *)
(***************************************************************************)
Logs == Seq(Entry)
Indexes == [man : Manifests, log : Logs]
Ops == [kind : {"append", "view", "rewrite"}, rec : Nat,
        carry : Nat, log : Logs]
NoOp == [kind |-> "rewrite", rec |-> 0, carry |-> 0, log |-> << >>]

WriterPcs == {"container", "manifest", "manifestSync", "sweep"}
PcValues == {"idle", "opening", "retry"} \union WriterPcs

NoManifest == [gen |-> 0, base |-> Canonical, segments |-> << >>, head |-> 0]
NoIndex == [man |-> NoManifest, log |-> << >>]

Init ==
  /\ manifest = NoManifest
  /\ disk = Put([x \in {} |-> << >>], Canonical, << >>)
  /\ torn = {}
  /\ solid = {Canonical}
  /\ past = {Now}
  /\ lock = None
  /\ pc = [p \in Procs |-> "idle"]
  /\ index = [p \in Procs |-> NoIndex]
  /\ op = [p \in Procs |-> NoOp]
  /\ cached = [p \in Procs |-> {}]
  /\ want = [p \in Procs |-> NoManifest]
  /\ got = [p \in Procs |-> << >>]
  /\ used = 0
  /\ kept = {}
  /\ published = [g \in 0..MaxGen |-> << >>]
  /\ fails = 0

(***************************************************************************)
(* Writers.                                                                *)
(***************************************************************************)

(* open_index_for_write: the cached index if its manifest is the one on    *)
(* disk (matches_file_on_disk), else a new one                             *)
Reusable_HeadOnly(p) == {x \in cached[p] : x.man.head = manifest.head}
Reusable(p) == {x \in cached[p] : x.man = manifest}
IndexForWrite(p) ==
  IF Reusable(p) # {} THEN CHOOSE x \in Reusable(p) : TRUE
                      ELSE [man |-> manifest, log |-> Log]

WriteLock(p) ==
  /\ pc[p] = "idle"
  /\ lock = None
  /\ manifest.gen < MaxGen
  /\ Opens(manifest, disk, torn)
  /\ lock' = p
  /\ pc' = [pc EXCEPT ![p] = "container"]
  /\ UNCHANGED <<fileVars, cached, readVars, kept, published, fails>>

(* record_batch_scoped and its kin ("append"), or the worker of            *)
(* commit_reconstructible_batch_if_unchanged ("view"), up to the carry     *)
BeginAppend(p) ==
  /\ WriteLock(p)
  /\ index' = [index EXCEPT ![p] = IndexForWrite(p)]
  /\ used + 1 \in Recs
  /\ used' = used + 1
  /\ \E kind \in {"append", "view"}, k \in 0..Len(index'[p].man.segments) :
       /\ Carries(index'[p].man.segments, k)
       /\ op' = [op EXCEPT ![p] =
                   [kind |-> kind, rec |-> used', carry |-> k,
                    log |-> Append(index'[p].log, NewEntry(index'[p].log, used'))]]

(* update_batch_undone_state and coalesce_batches: load_fresh_for_write *)
BeginRewrite(p) ==
  /\ WriteLock(p)
  /\ index' = [index EXCEPT ![p] = [man |-> manifest, log |-> Log]]
  /\ \E l \in Rewrites(Log) :
       op' = [op EXCEPT ![p] = [kind |-> "rewrite", rec |-> 0, carry |-> 0, log |-> l]]
  /\ UNCHANGED used

WriteContainer_DropsCarry(p) ==
  LET n == ContainerFor(index[p].man, op[p])
  IN /\ pc[p] = "container"
     /\ disk' = Put(disk, n, [i \in {n.hi} |-> op[p].log[i]])
     /\ torn' = torn \ {n}
     /\ solid' = IF op[p].kind = "view" THEN solid \ {n} ELSE solid \union {n}
     /\ past' = {[man |-> manifest, disk |-> disk']}
                  \union (IF op[p].kind = "view" THEN past ELSE {})
     /\ pc' = [pc EXCEPT ![p] = "manifest"]
     /\ UNCHANGED <<manifest, lock, index, op, cached, readVars, histVars, fails>>

(* PackedOpLog::save, which ends with sync_directory, or                   *)
(* save_reconstructible, which does not.  Nobody lists the container yet,  *)
(* so a power failure between its rename and the sync leaves what one      *)
(* before or after both would.                                             *)
WriteContainer(p) ==
  LET n == ContainerFor(index[p].man, op[p])
  IN /\ pc[p] = "container"
     /\ disk' = Put(disk, n, [i \in n.lo..n.hi |-> op[p].log[i]])
     /\ torn' = torn \ {n}
     /\ solid' = IF op[p].kind = "view" THEN solid \ {n} ELSE solid \union {n}
     /\ past' = {[man |-> manifest, disk |-> disk']}
                  \union (IF op[p].kind = "view" THEN past ELSE {})
     /\ pc' = [pc EXCEPT ![p] = "manifest"]
     /\ UNCHANGED <<manifest, lock, index, op, cached, readVars, histVars, fails>>

(* sync_directory, the end of durable_rename, after the manifest is seen *)
SyncManifest(p) ==
  /\ pc[p] = "manifestSync"
  /\ pc' = [pc EXCEPT ![p] = "sweep"]
  /\ past' = {Now}
  /\ UNCHANGED <<manifest, disk, torn, solid, lock, index, op, cached, readVars, histVars, fails>>

WriteManifest_NoSync(p) ==
  /\ pc[p] = "manifest"
  /\ manifest' = ManifestFor(index[p].man, op[p])
  /\ past' = past \union {[man |-> manifest', disk |-> disk]}
  /\ published' = [published EXCEPT ![manifest'.gen] = op[p].log]
  /\ pc' = [pc EXCEPT ![p] = "sweep"]
  /\ UNCHANGED <<disk, torn, solid, lock, index, op, cached, readVars, used, kept, fails>>

(* write_manifest or write_manifest_reconstructible *)
WriteManifest(p) ==
  /\ pc[p] = "manifest"
  /\ manifest' = ManifestFor(index[p].man, op[p])
  /\ past' = past \union {[man |-> manifest', disk |-> disk]}
  /\ published' = [published EXCEPT ![manifest'.gen] = op[p].log]
  /\ pc' = [pc EXCEPT ![p] = IF op[p].kind = "view" THEN "sweep" ELSE "manifestSync"]
  /\ UNCHANGED <<disk, torn, solid, lock, index, op, cached, readVars, used, kept, fails>>

(* Unlisted, and not of a later generation.  Which of them go depends on   *)
(* their age, on the kind of write and on unlinks that fail.               *)
Sweepable_KeepBase(m) == {n \in DOMAIN disk \ {m.base} : n.gen <= m.gen}
Sweepable(m) == {n \in DOMAIN disk \ Listed(m) : n.gen <= m.gen}

Idle(p) ==
  /\ pc' = [pc EXCEPT ![p] = "idle"]
  /\ index' = [index EXCEPT ![p] = NoIndex]
  /\ op' = [op EXCEPT ![p] = NoOp]

(* An I/O error, a crash or a power failure happens at most MaxFails times *)
Failure ==
  /\ fails < MaxFails
  /\ fails' = fails + 1

(* sweep_unlisted_containers, then the call returns *)
SweepAndReturn(p) ==
  /\ pc[p] = "sweep"
  /\ \E S \in SUBSET Sweepable(ManifestFor(index[p].man, op[p])) :
       disk' = Remove(disk, S)
  /\ past' = past \union {[man |-> manifest, disk |-> disk']}
  /\ cached' = [cached EXCEPT ![p] =
                  {[man |-> ManifestFor(index[p].man, op[p]), log |-> op[p].log]}]
  /\ kept' = IF op[p].kind = "append" THEN kept \union {op[p].rec} ELSE kept
  /\ lock' = None
  /\ Idle(p)
  /\ UNCHANGED <<manifest, torn, solid, readVars, used, published, fails>>

(* An I/O error: the call returns it and leaves the cache as it was *)
WriteFails(p) ==
  /\ Failure
  /\ pc[p] \in {"container", "manifest", "manifestSync"}
  /\ lock' = None
  /\ Idle(p)
  /\ UNCHANGED <<fileVars, cached, readVars, histVars>>

(***************************************************************************)
(* Readers: refresh_cached, open_index_for_read.                           *)
(***************************************************************************)
ReadManifest(p) ==
  /\ p \in Readers
  /\ pc[p] = "idle"
  /\ want' = [want EXCEPT ![p] = manifest]
  /\ pc' = [pc EXCEPT ![p] = "opening"]
  /\ UNCHANGED <<fileVars, lock, index, op, cached, got, histVars, fails>>

EndRead(p) ==
  /\ pc' = [pc EXCEPT ![p] = "idle"]
  /\ want' = [want EXCEPT ![p] = NoManifest]
  /\ got' = [got EXCEPT ![p] = << >>]

OpenContainer(p) ==
  LET n == ContainerAt(want[p], Len(got[p]) + 1)
  IN /\ pc[p] = "opening"
     /\ Len(got[p]) < Count(want[p])
     /\ n \in DOMAIN disk \ torn
     /\ got' = [got EXCEPT ![p] = Append(@, disk[n])]
     /\ UNCHANGED <<fileVars, lock, pc, index, op, cached, want, histVars, fails>>

ContainerGone(p) ==
  LET n == ContainerAt(want[p], Len(got[p]) + 1)
  IN /\ pc[p] = "opening"
     /\ Len(got[p]) < Count(want[p])
     /\ n \notin DOMAIN disk \ torn
     /\ pc' = [pc EXCEPT ![p] = "retry"]
     /\ want' = [want EXCEPT ![p] = NoManifest]
     /\ got' = [got EXCEPT ![p] = << >>]
     /\ UNCHANGED <<fileVars, lock, index, op, cached, histVars, fails>>

(* The entries of the containers opened *)
ReadLog(m, g) ==
  [i \in 1..m.head |->
     LET k == CHOOSE k \in DOMAIN g : i \in DOMAIN g[k] IN g[k][i]]

ReadReturns(p) ==
  /\ pc[p] = "opening"
  /\ Len(got[p]) = Count(want[p])
  /\ cached' = [cached EXCEPT ![p] = {[man |-> want[p], log |-> ReadLog(want[p], got[p])]}]
  /\ EndRead(p)
  /\ UNCHANGED <<fileVars, lock, index, op, histVars, fails>>

(* Under the lock nothing else changes the files.  A damaged log answers   *)
(* with an error.                                                          *)
ReadUnderLock(p) ==
  /\ pc[p] = "retry"
  /\ lock = None
  /\ \/ /\ Opens(manifest, disk, torn)
        /\ cached' = [cached EXCEPT ![p] = {[man |-> manifest, log |-> Log]}]
     \/ ~Opens(manifest, disk, torn) /\ UNCHANGED cached
  /\ pc' = [pc EXCEPT ![p] = "idle"]
  /\ UNCHANGED <<fileVars, lock, index, op, readVars, histVars, fails>>

(***************************************************************************)
(* Failures.                                                               *)
(***************************************************************************)
Crash(p) ==
  /\ Failure
  /\ pc[p] # "idle"
  /\ lock' = IF lock = p THEN None ELSE lock
  /\ Idle(p)
  /\ cached' = [cached EXCEPT ![p] = {}]
  /\ want' = [want EXCEPT ![p] = NoManifest]
  /\ got' = [got EXCEPT ![p] = << >>]
  /\ UNCHANGED <<fileVars, histVars>>

(* What the disk then holds, no later power failure takes back *)
PowerLoss ==
  /\ Failure
  /\ \E s \in past :
       /\ manifest' = s.man
       /\ disk' = s.disk
       /\ \E t \in SUBSET (DOMAIN s.disk \ (solid \union torn)) :
            torn' = (torn \cap DOMAIN s.disk) \union t
       /\ solid' = solid \union (DOMAIN s.disk \ torn')
       /\ past' = {s}
  /\ lock' = None
  /\ pc' = [p \in Procs |-> "idle"]
  /\ index' = [p \in Procs |-> NoIndex]
  /\ op' = [p \in Procs |-> NoOp]
  /\ cached' = [p \in Procs |-> {}]
  /\ want' = [p \in Procs |-> NoManifest]
  /\ got' = [p \in Procs |-> << >>]
  /\ UNCHANGED histVars

Write(p) == WriteContainer(p) \/ SyncManifest(p) \/ WriteManifest(p) \/ SweepAndReturn(p)
Read(p) == OpenContainer(p) \/ ContainerGone(p) \/ ReadReturns(p) \/ ReadUnderLock(p)

Next ==
  \/ \E p \in Procs :
       \/ BeginAppend(p) \/ BeginRewrite(p) \/ Write(p) \/ WriteFails(p)
       \/ ReadManifest(p) \/ Read(p)
       \/ Crash(p)
  \/ PowerLoss

Spec == Init /\ [][Next]_vars

(* A handle that is running keeps running; flock is granted again and again *)
Fairness == \A p \in Procs : WF_vars(Write(p)) /\ WF_vars(Read(p)) /\ SF_vars(ReadUnderLock(p))
FairSpec == Spec /\ Fairness

(***************************************************************************)
(* Properties.                                                             *)
(***************************************************************************)

(* What the variables range over. *)
TypeOK ==
  /\ manifest \in Manifests
  /\ DOMAIN disk \subseteq Names
  /\ \A n \in DOMAIN disk : disk[n] \in [n.lo..n.hi -> Entry]
  /\ torn \subseteq Names
  /\ solid \subseteq Names
  /\ \E s \in past : s.man = manifest /\ s.disk = disk
  /\ lock \in Procs \union {None}
  /\ pc \in [Procs -> PcValues]
  /\ index \in [Procs -> Indexes]
  /\ op \in [Procs -> Ops]
  /\ \A p \in Procs : cached[p] \subseteq Indexes
  /\ want \in [Procs -> Manifests]
  /\ used \in Nat /\ kept \subseteq 1..used
  /\ published \in [0..MaxGen -> Logs]
  /\ fails \in 0..MaxFails

(* The manifest never lists a container that a sweep removed, that was not *)
(* yet written, or that does not fit the others, and neither does a state  *)
(* of the files that a power failure may leave: what stays between a log   *)
(* and its next open is only the bytes of a capture's unsynced container.  *)
ListedIntact ==
  /\ Opens(manifest, disk, {})
  /\ \A s \in past : Opens(s.man, s.disk, {})

(* What a handle's index answers is the log exactly as its generation was  *)
(* published, although the reader opened the containers one by one while   *)
(* writers merged, rewrote and unlinked them, and a power failure tore     *)
(* some.                                                                   *)
CachedSound ==
  \A p \in Procs : \A x \in cached[p] : x.log = published[x.man.gen]

(* A record whose durable append returned stays in the log: through        *)
(* merges, rewrites, crashes and power failures, whatever other handles    *)
(* were doing; unless the power failure tore a listed container, that of   *)
(* a capture's view before the append, or one that took the record over.   *)
DurableKept ==
  Damaged \/ \A r \in kept : \E i \in DOMAIN Log : Log[i].rec = r

(* No power failure tears a container that the manifest lists              *)
(* (docs/adr/0050-segmented-oplog-publication.md:14-17).                   *)
NeverDamaged == ~Damaged

(* A read returns: a reader whose containers vanish is not left retrying.  *)
ReadsFinish ==
  \A p \in Procs : pc[p] \in {"opening", "retry"} ~> pc[p] = "idle"

(* The files implement the log: the containers listed make up its value,   *)
(* a power failure may leave what the states in "past" make up, and the    *)
(* log is lost once a listed container is torn.                            *)
Abs == INSTANCE DurableLog
         WITH log <- Log, possible <- {LogOf(s.man, s.disk, {}) : s \in past},
              damaged <- Damaged

ImplementsLog == Abs!Spec
=============================================================================
