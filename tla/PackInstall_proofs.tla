------------------------ MODULE PackInstall_proofs ------------------------
(***************************************************************************)
(* Proofs about PackInstall, for any number of processes, packs, installs  *)
(* and stops, with prunes that race publications as they do in the code: a *)
(* pack that a prune has taken is excepted by name until it is published   *)
(* anew, and no other pack is harmed.                                      *)
(***************************************************************************)
EXTENDS PackInstall, TLAPS

(* Where a call has a pack, and where it has an install id *)
HasPack == Locked \union {"stagePack", "stageIdx", "lock", "sLock", "sAdd", "tryLock"}
HasId == Journaled \union Recovering \union Cleaning
           \union {"stagePack", "stageIdx", "lock", "tryLock", "sweepRemove"}

CallOK ==
  \A p \in Proc : /\ pr[p].at \in HasPack => pr[p].pack \in Pack
                  /\ pr[p].at \in HasId => pr[p].id \in Id

TypeInv == TypeOK /\ lock \in [Pack -> Proc \union {None}] /\ CallOK

(* The parts of TypeInv *)
FilesOK ==
  /\ pack \in [Pack -> File] /\ idx \in [Pack -> File]
  /\ marker \subseteq Pack /\ ok \subseteq Pack /\ raced \subseteq Pack /\ aged \subseteq Id
  /\ staged \in [Id -> SUBSET {"pack", "idx"}]
  /\ intent \in [Id -> Pack \union {None}]
  /\ next \in 1 .. MaxInstalls + 1 /\ stops \in 0 .. MaxStops

Label == Locked \union Unlocked

Calls == [at : Label, pack : Pack \union {None}, id : Id \union {NoId},
          installing : BOOLEAN, todo : SUBSET Id, unpaired : SUBSET Pack]

Holding ==
  /\ lock \in [Pack -> Proc \union {None}]
  /\ \A k \in Pack, p \in Proc : lock[k] = p <=> pr[p].at \in Locked /\ pr[p].pack = k

(***************************************************************************)
(* Pairs.                                                                  *)
(***************************************************************************)

(* What an install makes room for is no pair *)
RepairsBroken ==
  \A p \in Proc : pr[p].at \in {"repair", "repairIdx", "sRepair", "sRepairIdx"}
                    => ~Complete(pr[p].pack)

(* A recovery is not an install *)
RecoveryInstallsNothing ==
  \A p \in Proc : pr[p].at \in {"recover", "tryLock", "decide", "complete"}
                    => ~pr[p].installing

(* What an install has published so far is there, but for what was pruned *)
PublishedKept ==
  \A p \in Proc : pr[p].pack \notin raced =>
    /\ pr[p].at \in {"mark", "idx", "sIdx"} => pack[pr[p].pack] = "good"
    /\ pr[p].at = "sMark" => Complete(pr[p].pack)
    /\ pr[p].at \in Cleaning /\ pr[p].installing => Complete(pr[p].pack)

PairInv ==
  /\ RepairsBroken /\ RecoveryInstallsNothing /\ PublishedKept
  /\ Installed /\ MarkerImpliesPair

(***************************************************************************)
(* Staging.                                                                *)
(***************************************************************************)
Installer(p) ==
  \/ pr[p].at \in Journaled \union {"stagePack", "stageIdx", "lock"}
  \/ pr[p].at \in Cleaning /\ pr[p].installing

Recoverer(p) ==
  \/ pr[p].at \in {"tryLock", "decide", "complete"}
  \/ pr[p].at \in Cleaning /\ ~pr[p].installing

HasIntent(p) == pr[p].at \in {"pack", "mark", "idx"} \union Cleaning

(* An install id is used by one install only, and by recoveries of it *)
IdsFresh ==
  /\ \A i \in Id : intent[i] # None => i < next
  /\ \A p \in Proc : Installer(p) \/ Recoverer(p) => pr[p].id < next
  /\ \A p, q \in Proc : Installer(p) /\ Installer(q) /\ pr[p].id = pr[q].id => p = q

(* An intent names the pack of its install and is not written before the   *)
(* lock is held, so a recovery of a running install waits for its lock     *)
IntentsOwned ==
  \A p \in Proc : Installer(p) =>
    /\ intent[pr[p].id] # None => HasIntent(p) /\ intent[pr[p].id] = pr[p].pack
    /\ \A q \in Proc : Recoverer(q) /\ pr[q].id = pr[p].id
                         => HasIntent(p) /\ pr[q].pack = pr[p].pack

SweepsAged == \A p \in Proc : pr[p].at = "sweepRemove" => pr[p].id \in aged

StagedKept ==
  \A p \in Proc : pr[p].id \notin aged =>
    /\ pr[p].at \in {"stageIdx", "lock", "repair", "repairIdx", "intent", "pack"}
         => "pack" \in staged[pr[p].id]
    /\ pr[p].at \in {"lock", "repair", "repairIdx", "intent", "pack", "mark", "idx"}
         => "idx" \in staged[pr[p].id]

StageInv == IdsFresh /\ IntentsOwned /\ SweepsAged /\ StagedKept

IInv == TypeInv /\ PairInv /\ StageInv

-----------------------------------------------------------------------------
(* A call that goes on at a label, or that starts over, is a call *)
LEMMA Labels ==
  /\ {"idle", "stagePack", "stageIdx", "lock", "sLock", "sAdd", "reload", "recover", "tryLock",
      "sweep", "sweepRemove", "pruneList", "prune", "repair", "repairIdx", "intent", "pack",
      "mark", "idx", "sRepair", "sRepairIdx", "sPack", "sIdx", "sMark", "decide", "complete",
      "clean", "unintent"} \subseteq Label
  /\ Idle \in Calls
  BY PackInstallAssumption DEF Label, Locked, Unlocked, Journaled, Snapshot, Recovering, Cleaning,
     Idle, Calls, NoId

LEMMA GotoCall ==
  ASSUME pr \in [Proc -> Calls], NEW p \in Proc, NEW l \in Label
  PROVE  [pr EXCEPT ![p].at = l] \in [Proc -> Calls]
  BY DEF Calls

LEMMA OnwardCall ==
  ASSUME pr \in [Proc -> Calls], NEW p \in Proc, NEW l \in Label
  PROVE  [pr EXCEPT ![p] = [Idle EXCEPT !.at = l, !.todo = pr[p].todo]] \in [Proc -> Calls]
  BY Labels DEF Calls

LEMMA TypeParts ==
  /\ TypeInv <=> FilesOK /\ pr \in [Proc -> Calls] /\ Holding /\ CallOK
  /\ TypeInv' <=> FilesOK' /\ pr' \in [Proc -> Calls] /\ Holding' /\ CallOK'
<1>1. TypeInv <=> FilesOK /\ pr \in [Proc -> Calls] /\ Holding /\ CallOK
  BY DEF TypeInv, TypeOK, FilesOK, Calls, Label, Holding
<1>2. TypeInv' <=> FilesOK' /\ pr' \in [Proc -> Calls] /\ Holding' /\ CallOK'
  BY DEF TypeInv, TypeOK, FilesOK, Calls, Label, Holding
<1> QED
  BY <1>1, <1>2

(* Every step keeps the types and the correspondence of locks and calls. *)
LEMMA TypeStep == TypeInv /\ [Next]_vars => TypeInv'
<1> SUFFICES ASSUME TypeInv, [Next]_vars PROVE TypeInv'
  OBVIOUS
<1>a. FilesOK /\ pr \in [Proc -> Calls] /\ Holding /\ CallOK
  BY TypeParts
<1> USE <1>a, PackInstallAssumption
        DEF Locked, Journaled, Snapshot, Recovering, Cleaning, Id, NoId, Paired
<1>1. ASSUME NEW p \in Proc, StagePack(p) PROVE TypeInv'
  <2> USE <1>1 DEF StagePack, Stage, Goto
  <2>1. FilesOK'
    BY DEF FilesOK, File, disk, CallOK, HasPack, HasId
  <2>2. pr' \in [Proc -> Calls]
    BY GotoCall, Labels
  <2>3. Holding'
    BY DEF Holding, Calls, CallOK, HasPack, HasId, disk
  <2>4. CallOK'
    BY DEF CallOK, Calls, HasPack, HasId, FilesOK, disk
  <2> QED
    BY <2>1, <2>2, <2>3, <2>4, TypeParts
<1>2. ASSUME NEW p \in Proc, StageIdx(p) PROVE TypeInv'
  <2> USE <1>2 DEF StageIdx, Stage, Goto
  <2>1. FilesOK'
    BY DEF FilesOK, File, disk, CallOK, HasPack, HasId
  <2>2. pr' \in [Proc -> Calls]
    BY GotoCall, Labels
  <2>3. Holding'
    BY DEF Holding, Calls, CallOK, HasPack, HasId, disk
  <2>4. CallOK'
    BY DEF CallOK, Calls, HasPack, HasId, FilesOK, disk
  <2> QED
    BY <2>1, <2>2, <2>3, <2>4, TypeParts
<1>3. ASSUME NEW p \in Proc, LockExisting(p) PROVE TypeInv'
  <2> USE <1>3 DEF LockExisting, Onward, Idle
  <2>1. FilesOK'
    BY DEF FilesOK, File, disk, CallOK, HasPack, HasId
  <2>2. pr' \in [Proc -> Calls]
    BY OnwardCall, Labels DEF Idle
  <2>3. Holding'
    BY DEF Holding, Calls, CallOK, HasPack, HasId, disk
  <2>4. CallOK'
    BY DEF CallOK, Calls, HasPack, HasId, FilesOK, disk
  <2> QED
    BY <2>1, <2>2, <2>3, <2>4, TypeParts
<1>4. ASSUME NEW p \in Proc, LockMissing(p) PROVE TypeInv'
  <2> USE <1>4 DEF LockMissing, Goto
  <2>1. FilesOK'
    BY DEF FilesOK, File, disk, CallOK, HasPack, HasId
  <2>2. pr' \in [Proc -> Calls]
    BY GotoCall, Labels
  <2>3. Holding'
    BY DEF Holding, Calls, CallOK, HasPack, HasId, disk
  <2>4. CallOK'
    BY DEF CallOK, Calls, HasPack, HasId, FilesOK, disk
  <2> QED
    BY <2>1, <2>2, <2>3, <2>4, TypeParts
<1>5. ASSUME NEW p \in Proc, Repair(p) PROVE TypeInv'
  <2> USE <1>5 DEF Repair, Goto
  <2>1. FilesOK'
    BY DEF FilesOK, File, disk, CallOK, HasPack, HasId
  <2>2. pr' \in [Proc -> Calls]
    BY GotoCall, Labels
  <2>3. Holding'
    BY DEF Holding, Calls, CallOK, HasPack, HasId, disk
  <2>4. CallOK'
    BY DEF CallOK, Calls, HasPack, HasId, FilesOK, disk
  <2> QED
    BY <2>1, <2>2, <2>3, <2>4, TypeParts
<1>6. ASSUME NEW p \in Proc, RepairIdx(p) PROVE TypeInv'
  <2> USE <1>6 DEF RepairIdx, Goto
  <2>1. FilesOK'
    BY DEF FilesOK, File, disk, CallOK, HasPack, HasId
  <2>2. pr' \in [Proc -> Calls]
    BY GotoCall, Labels
  <2>3. Holding'
    BY DEF Holding, Calls, CallOK, HasPack, HasId, disk
  <2>4. CallOK'
    BY DEF CallOK, Calls, HasPack, HasId, FilesOK, disk
  <2> QED
    BY <2>1, <2>2, <2>3, <2>4, TypeParts
<1>7. ASSUME NEW p \in Proc, WriteIntent(p) PROVE TypeInv'
  <2> USE <1>7 DEF WriteIntent, Goto
  <2>1. FilesOK'
    BY DEF FilesOK, File, disk, CallOK, HasPack, HasId
  <2>2. pr' \in [Proc -> Calls]
    BY GotoCall, Labels
  <2>3. Holding'
    BY DEF Holding, Calls, CallOK, HasPack, HasId, disk
  <2>4. CallOK'
    BY DEF CallOK, Calls, HasPack, HasId, FilesOK, disk
  <2> QED
    BY <2>1, <2>2, <2>3, <2>4, TypeParts
<1>8. ASSUME NEW p \in Proc, PublishPack(p) PROVE TypeInv'
  <2> USE <1>8 DEF PublishPack, Goto
  <2>1. FilesOK'
    BY DEF FilesOK, File, disk, CallOK, HasPack, HasId
  <2>2. pr' \in [Proc -> Calls]
    BY GotoCall, Labels
  <2>3. Holding'
    BY DEF Holding, Calls, CallOK, HasPack, HasId, disk
  <2>4. CallOK'
    BY DEF CallOK, Calls, HasPack, HasId, FilesOK, disk
  <2> QED
    BY <2>1, <2>2, <2>3, <2>4, TypeParts
<1>9. ASSUME NEW p \in Proc, PublishIdx(p) PROVE TypeInv'
  <2> USE <1>9 DEF PublishIdx, Goto
  <2>1. FilesOK'
    BY DEF FilesOK, File, disk, CallOK, HasPack, HasId
  <2>2. pr' \in [Proc -> Calls]
    BY GotoCall, Labels
  <2>3. Holding'
    BY DEF Holding, Calls, CallOK, HasPack, HasId, disk
  <2>4. CallOK'
    BY DEF CallOK, Calls, HasPack, HasId, FilesOK, disk
  <2> QED
    BY <2>1, <2>2, <2>3, <2>4, TypeParts
<1>10. ASSUME NEW p \in Proc, StagingGone(p) PROVE TypeInv'
  <2> USE <1>10 DEF StagingGone, Idle
  <2>1. FilesOK'
    BY DEF FilesOK, File, disk, CallOK, HasPack, HasId
  <2>2. pr' \in [Proc -> Calls]
    BY Labels DEF Calls, FilesOK, Idle, CallOK
  <2>3. Holding'
    BY DEF Holding, Calls, CallOK, HasPack, HasId, disk
  <2>4. CallOK'
    BY DEF CallOK, Calls, HasPack, HasId, FilesOK, disk
  <2> QED
    BY <2>1, <2>2, <2>3, <2>4, TypeParts
<1>11. ASSUME NEW p \in Proc, RemoveStaging(p) PROVE TypeInv'
  <2> USE <1>11 DEF RemoveStaging, Goto
  <2>1. FilesOK'
    BY DEF FilesOK, File, disk, CallOK, HasPack, HasId
  <2>2. pr' \in [Proc -> Calls]
    BY GotoCall, Labels
  <2>3. Holding'
    BY DEF Holding, Calls, CallOK, HasPack, HasId, disk
  <2>4. CallOK'
    BY DEF CallOK, Calls, HasPack, HasId, FilesOK, disk
  <2> QED
    BY <2>1, <2>2, <2>3, <2>4, TypeParts
<1>12. ASSUME NEW p \in Proc, RemoveIntent(p) PROVE TypeInv'
  <2> USE <1>12 DEF RemoveIntent, Onward, Idle
  <2>1. FilesOK'
    BY DEF FilesOK, File, disk, CallOK, HasPack, HasId
  <2>2. pr' \in [Proc -> Calls]
    BY OnwardCall, Labels DEF Idle
  <2>3. Holding'
    BY DEF Holding, Calls, CallOK, HasPack, HasId, disk
  <2>4. CallOK'
    BY DEF CallOK, Calls, HasPack, HasId, FilesOK, disk
  <2> QED
    BY <2>1, <2>2, <2>3, <2>4, TypeParts
<1>13. ASSUME NEW p \in Proc, SnapshotExisting(p) PROVE TypeInv'
  <2> USE <1>13 DEF SnapshotExisting, Goto
  <2>1. FilesOK'
    BY DEF FilesOK, File, disk, CallOK, HasPack, HasId
  <2>2. pr' \in [Proc -> Calls]
    BY GotoCall, Labels
  <2>3. Holding'
    BY DEF Holding, Calls, CallOK, HasPack, HasId, disk
  <2>4. CallOK'
    BY DEF CallOK, Calls, HasPack, HasId, FilesOK, disk
  <2> QED
    BY <2>1, <2>2, <2>3, <2>4, TypeParts
<1>14. ASSUME NEW p \in Proc, SnapshotLock(p) PROVE TypeInv'
  <2> USE <1>14 DEF SnapshotLock, Goto
  <2>1. FilesOK'
    BY DEF FilesOK, File, disk, CallOK, HasPack, HasId
  <2>2. pr' \in [Proc -> Calls]
    BY GotoCall, Labels
  <2>3. Holding'
    BY DEF Holding, Calls, CallOK, HasPack, HasId, disk
  <2>4. CallOK'
    BY DEF CallOK, Calls, HasPack, HasId, FilesOK, disk
  <2> QED
    BY <2>1, <2>2, <2>3, <2>4, TypeParts
<1>15. ASSUME NEW p \in Proc, SnapshotRepair(p) PROVE TypeInv'
  <2> USE <1>15 DEF SnapshotRepair, Goto
  <2>1. FilesOK'
    BY DEF FilesOK, File, disk, CallOK, HasPack, HasId
  <2>2. pr' \in [Proc -> Calls]
    BY GotoCall, Labels
  <2>3. Holding'
    BY DEF Holding, Calls, CallOK, HasPack, HasId, disk
  <2>4. CallOK'
    BY DEF CallOK, Calls, HasPack, HasId, FilesOK, disk
  <2> QED
    BY <2>1, <2>2, <2>3, <2>4, TypeParts
<1>16. ASSUME NEW p \in Proc, SnapshotRepairIdx(p) PROVE TypeInv'
  <2> USE <1>16 DEF SnapshotRepairIdx, Goto
  <2>1. FilesOK'
    BY DEF FilesOK, File, disk, CallOK, HasPack, HasId
  <2>2. pr' \in [Proc -> Calls]
    BY GotoCall, Labels
  <2>3. Holding'
    BY DEF Holding, Calls, CallOK, HasPack, HasId, disk
  <2>4. CallOK'
    BY DEF CallOK, Calls, HasPack, HasId, FilesOK, disk
  <2> QED
    BY <2>1, <2>2, <2>3, <2>4, TypeParts
<1>17. ASSUME NEW p \in Proc, SnapshotPack(p) PROVE TypeInv'
  <2> USE <1>17 DEF SnapshotPack, Goto
  <2>1. FilesOK'
    BY DEF FilesOK, File, disk, CallOK, HasPack, HasId
  <2>2. pr' \in [Proc -> Calls]
    BY GotoCall, Labels
  <2>3. Holding'
    BY DEF Holding, Calls, CallOK, HasPack, HasId, disk
  <2>4. CallOK'
    BY DEF CallOK, Calls, HasPack, HasId, FilesOK, disk
  <2> QED
    BY <2>1, <2>2, <2>3, <2>4, TypeParts
<1>18. ASSUME NEW p \in Proc, SnapshotIdx(p) PROVE TypeInv'
  <2> USE <1>18 DEF SnapshotIdx, Goto
  <2>1. FilesOK'
    BY DEF FilesOK, File, disk, CallOK, HasPack, HasId
  <2>2. pr' \in [Proc -> Calls]
    BY GotoCall, Labels
  <2>3. Holding'
    BY DEF Holding, Calls, CallOK, HasPack, HasId, disk
  <2>4. CallOK'
    BY DEF CallOK, Calls, HasPack, HasId, FilesOK, disk
  <2> QED
    BY <2>1, <2>2, <2>3, <2>4, TypeParts
<1>19. ASSUME NEW p \in Proc, SnapshotMark(p) PROVE TypeInv'
  <2> USE <1>19 DEF SnapshotMark, Goto
  <2>1. FilesOK'
    BY DEF FilesOK, File, disk, CallOK, HasPack, HasId
  <2>2. pr' \in [Proc -> Calls]
    BY GotoCall, Labels
  <2>3. Holding'
    BY DEF Holding, Calls, CallOK, HasPack, HasId, disk
  <2>4. CallOK'
    BY DEF CallOK, Calls, HasPack, HasId, FilesOK, disk
  <2> QED
    BY <2>1, <2>2, <2>3, <2>4, TypeParts
<1>20. ASSUME NEW p \in Proc, AddPack(p) PROVE TypeInv'
  <2> USE <1>20 DEF AddPack, Idle
  <2>1. FilesOK'
    BY DEF FilesOK, File, disk, CallOK, HasPack, HasId
  <2>2. pr' \in [Proc -> Calls]
    BY Labels DEF Calls, FilesOK, Idle, CallOK
  <2>3. Holding'
    BY DEF Holding, Calls, CallOK, HasPack, HasId, disk
  <2>4. CallOK'
    BY DEF CallOK, Calls, HasPack, HasId, FilesOK, disk
  <2> QED
    BY <2>1, <2>2, <2>3, <2>4, TypeParts
<1>21. ASSUME NEW p \in Proc, ListIntents(p) PROVE TypeInv'
  <2> USE <1>21 DEF ListIntents, Idle
  <2>1. FilesOK'
    BY DEF FilesOK, File, disk, CallOK, HasPack, HasId
  <2>2. pr' \in [Proc -> Calls]
    BY Labels DEF Calls, FilesOK, Idle, CallOK
  <2>3. Holding'
    BY DEF Holding, Calls, CallOK, HasPack, HasId, disk
  <2>4. CallOK'
    BY DEF CallOK, Calls, HasPack, HasId, FilesOK, disk
  <2> QED
    BY <2>1, <2>2, <2>3, <2>4, TypeParts
<1>22. ASSUME NEW p \in Proc, TryLock(p) PROVE TypeInv'
  <2>1. FilesOK'
    BY <1>22 DEF TryLock, FilesOK, disk
  <2>2. CASE lock[pr[p].pack] = None
    <3> USE <1>22, <2>2 DEF TryLock, Goto
    <3>1. pr' \in [Proc -> Calls]
      BY GotoCall, Labels
    <3>2. Holding'
      BY DEF Holding, Calls, CallOK, HasPack, HasId
    <3>3. CallOK'
      BY DEF CallOK, Calls, HasPack, HasId
    <3> QED
      BY <2>1, <3>1, <3>2, <3>3, TypeParts
  <2>3. CASE lock[pr[p].pack] # None
    <3>0. /\ pr[p].at = "tryLock" /\ lock' = lock
          /\ pr' = [pr EXCEPT ![p] = [Idle EXCEPT !.at = "recover", !.todo = pr[p].todo]]
      BY <1>22, <2>3 DEF TryLock, Onward
    <3>1. pr' \in [Proc -> Calls]
      BY <3>0, OnwardCall, Labels
    <3>2. Holding'
      BY <3>0 DEF Holding, Calls, Idle
    <3>3. CallOK'
      BY <3>0 DEF CallOK, Calls, Idle, HasPack, HasId
    <3> QED
      BY <2>1, <3>1, <3>2, <3>3, TypeParts
  <2> QED
    BY <2>2, <2>3
<1>23. ASSUME NEW p \in Proc, RecoverPresent(p) PROVE TypeInv'
  <2> USE <1>23 DEF RecoverPresent, Goto
  <2>1. FilesOK'
    BY DEF FilesOK, File, disk, CallOK, HasPack, HasId
  <2>2. pr' \in [Proc -> Calls]
    BY GotoCall, Labels
  <2>3. Holding'
    BY DEF Holding, Calls, CallOK, HasPack, HasId, disk
  <2>4. CallOK'
    BY DEF CallOK, Calls, HasPack, HasId, FilesOK, disk
  <2> QED
    BY <2>1, <2>2, <2>3, <2>4, TypeParts
<1>24. ASSUME NEW p \in Proc, CompleteFromStaging(p) PROVE TypeInv'
  <2> USE <1>24 DEF CompleteFromStaging, Goto
  <2>1. FilesOK'
    BY DEF FilesOK, File, disk, CallOK, HasPack, HasId
  <2>2. pr' \in [Proc -> Calls]
    BY GotoCall, Labels
  <2>3. Holding'
    BY DEF Holding, Calls, CallOK, HasPack, HasId, disk
  <2>4. CallOK'
    BY DEF CallOK, Calls, HasPack, HasId, FilesOK, disk
  <2> QED
    BY <2>1, <2>2, <2>3, <2>4, TypeParts
<1>25. ASSUME NEW p \in Proc, AbortInstall(p) PROVE TypeInv'
  <2> USE <1>25 DEF AbortInstall, Goto
  <2>1. FilesOK'
    BY DEF FilesOK, File, disk, CallOK, HasPack, HasId
  <2>2. pr' \in [Proc -> Calls]
    BY GotoCall, Labels
  <2>3. Holding'
    BY DEF Holding, Calls, CallOK, HasPack, HasId, disk
  <2>4. CallOK'
    BY DEF CallOK, Calls, HasPack, HasId, FilesOK, disk
  <2> QED
    BY <2>1, <2>2, <2>3, <2>4, TypeParts
<1>26. ASSUME NEW p \in Proc, SkipFresh(p) PROVE TypeInv'
  <2> USE <1>26 DEF SkipFresh, Onward, Idle
  <2>1. FilesOK'
    BY DEF FilesOK, File, disk, CallOK, HasPack, HasId
  <2>2. pr' \in [Proc -> Calls]
    BY OnwardCall, Labels DEF Idle
  <2>3. Holding'
    BY DEF Holding, Calls, CallOK, HasPack, HasId, disk
  <2>4. CallOK'
    BY DEF CallOK, Calls, HasPack, HasId, FilesOK, disk
  <2> QED
    BY <2>1, <2>2, <2>3, <2>4, TypeParts
<1>27. ASSUME NEW p \in Proc, RecoverDone(p) PROVE TypeInv'
  <2> USE <1>27 DEF RecoverDone, Goto
  <2>1. FilesOK'
    BY DEF FilesOK, File, disk, CallOK, HasPack, HasId
  <2>2. pr' \in [Proc -> Calls]
    BY GotoCall, Labels
  <2>3. Holding'
    BY DEF Holding, Calls, CallOK, HasPack, HasId, disk
  <2>4. CallOK'
    BY DEF CallOK, Calls, HasPack, HasId, FilesOK, disk
  <2> QED
    BY <2>1, <2>2, <2>3, <2>4, TypeParts
<1>28. ASSUME NEW p \in Proc, SweepRemove(p) PROVE TypeInv'
  <2> USE <1>28 DEF SweepRemove, Onward, Idle
  <2>1. FilesOK'
    BY DEF FilesOK, File, disk, CallOK, HasPack, HasId
  <2>2. pr' \in [Proc -> Calls]
    BY OnwardCall, Labels DEF Idle
  <2>3. Holding'
    BY DEF Holding, Calls, CallOK, HasPack, HasId, disk
  <2>4. CallOK'
    BY DEF CallOK, Calls, HasPack, HasId, FilesOK, disk
  <2> QED
    BY <2>1, <2>2, <2>3, <2>4, TypeParts
<1>29. ASSUME NEW p \in Proc, SweepDone(p) PROVE TypeInv'
  <2> USE <1>29 DEF SweepDone, Goto
  <2>1. FilesOK'
    BY DEF FilesOK, File, disk, CallOK, HasPack, HasId
  <2>2. pr' \in [Proc -> Calls]
    BY GotoCall, Labels
  <2>3. Holding'
    BY DEF Holding, Calls, CallOK, HasPack, HasId, disk
  <2>4. CallOK'
    BY DEF CallOK, Calls, HasPack, HasId, FilesOK, disk
  <2> QED
    BY <2>1, <2>2, <2>3, <2>4, TypeParts
<1>30. ASSUME NEW p \in Proc, PruneList(p) PROVE TypeInv'
  <2> USE <1>30 DEF PruneList
  <2>1. FilesOK'
    BY DEF FilesOK, File, disk, CallOK, HasPack, HasId
  <2>2. pr' \in [Proc -> Calls]
    BY Labels DEF Calls, FilesOK, Idle, CallOK
  <2>3. Holding'
    BY DEF Holding, Calls, CallOK, HasPack, HasId, disk
  <2>4. CallOK'
    BY DEF CallOK, Calls, HasPack, HasId, FilesOK, disk
  <2> QED
    BY <2>1, <2>2, <2>3, <2>4, TypeParts
<1>31. ASSUME NEW p \in Proc, PruneDone(p) PROVE TypeInv'
  <2> USE <1>31 DEF PruneDone, Idle
  <2>1. FilesOK'
    BY DEF FilesOK, File, disk, CallOK, HasPack, HasId
  <2>2. pr' \in [Proc -> Calls]
    BY Labels DEF Calls, FilesOK, Idle, CallOK
  <2>3. Holding'
    BY DEF Holding, Calls, CallOK, HasPack, HasId, disk
  <2>4. CallOK'
    BY DEF CallOK, Calls, HasPack, HasId, FilesOK, disk
  <2> QED
    BY <2>1, <2>2, <2>3, <2>4, TypeParts
<1>32. ASSUME NEW p \in Proc, NEW i \in Id, LoadIntent(p, i) PROVE TypeInv'
  <2> USE <1>32 DEF LoadIntent
  <2>1. FilesOK'
    BY DEF FilesOK, File, disk, CallOK, HasPack, HasId
  <2>2. pr' \in [Proc -> Calls]
    <3>1. CASE intent[i] = None
      <4>1. pr' = [pr EXCEPT ![p].todo = pr[p].todo \ {i}]
        BY <3>1
      <4> QED
        BY <4>1 DEF Calls
    <3>2. CASE intent[i] # None
      <4>1. intent[i] \in Pack /\ "tryLock" \in Label
        BY <3>2, Labels DEF FilesOK
      <4>2. pr' = [pr EXCEPT ![p].todo = pr[p].todo \ {i}, ![p].at = "tryLock",
                             ![p].id = i, ![p].pack = intent[i]]
        BY <3>2
      <4> QED
        BY <4>1, <4>2 DEF Calls
    <3> QED
      BY <3>1, <3>2
  <2>3. Holding'
    BY DEF Holding, Calls, CallOK, HasPack, HasId, disk
  <2>4. CallOK'
    BY DEF CallOK, Calls, HasPack, HasId, FilesOK, disk
  <2> QED
    BY <2>1, <2>2, <2>3, <2>4, TypeParts
<1>33. ASSUME NEW p \in Proc, NEW i \in Id, SweepCheck(p, i) PROVE TypeInv'
  <2> USE <1>33 DEF SweepCheck
  <2>1. FilesOK'
    BY DEF FilesOK, File, disk, CallOK, HasPack, HasId
  <2>2. pr' \in [Proc -> Calls]
    BY Labels DEF Calls, FilesOK, Idle, CallOK
  <2>3. Holding'
    BY DEF Holding, Calls, CallOK, HasPack, HasId, disk
  <2>4. CallOK'
    BY DEF CallOK, Calls, HasPack, HasId, FilesOK, disk
  <2> QED
    BY <2>1, <2>2, <2>3, <2>4, TypeParts
<1>34. ASSUME NEW p \in Proc, NEW k \in Pack, PruneOne(p, k) PROVE TypeInv'
  <2> USE <1>34 DEF PruneOne
  <2>1. FilesOK'
    BY DEF FilesOK, File, disk, CallOK, HasPack, HasId
  <2>2. pr' \in [Proc -> Calls]
    BY Labels DEF Calls, FilesOK, Idle, CallOK
  <2>3. Holding'
    BY DEF Holding, Calls, CallOK, HasPack, HasId, disk
  <2>4. CallOK'
    BY DEF CallOK, Calls, HasPack, HasId, FilesOK, disk
  <2> QED
    BY <2>1, <2>2, <2>3, <2>4, TypeParts
<1>35. ASSUME NEW p \in Proc, StartReload(p) PROVE TypeInv'
  <2> USE <1>35 DEF StartReload, Goto
  <2>1. FilesOK'
    BY DEF FilesOK, File, disk, CallOK, HasPack, HasId
  <2>2. pr' \in [Proc -> Calls]
    BY GotoCall, Labels
  <2>3. Holding'
    BY DEF Holding, Calls, CallOK, HasPack, HasId, disk
  <2>4. CallOK'
    BY DEF CallOK, Calls, HasPack, HasId, FilesOK, disk
  <2> QED
    BY <2>1, <2>2, <2>3, <2>4, TypeParts
<1>36. ASSUME NEW p \in Proc, NEW k \in Pack, StartExisting(p, k) PROVE TypeInv'
  <2> USE <1>36 DEF StartExisting, Goto
  <2>1. FilesOK'
    BY DEF FilesOK, File, disk, CallOK, HasPack, HasId
  <2>2. pr' \in [Proc -> Calls]
    BY GotoCall, Labels
  <2>3. Holding'
    BY DEF Holding, Calls, CallOK, HasPack, HasId, disk
  <2>4. CallOK'
    BY DEF CallOK, Calls, HasPack, HasId, FilesOK, disk
  <2> QED
    BY <2>1, <2>2, <2>3, <2>4, TypeParts
<1>37. ASSUME NEW p \in Proc, NEW k \in Pack, Start(p, k) PROVE TypeInv'
  <2> USE <1>37 DEF Start, Idle
  <2>1. FilesOK'
    BY DEF FilesOK, File, disk, CallOK, HasPack, HasId
  <2>2. pr' \in [Proc -> Calls]
    BY Labels DEF Calls, FilesOK, Idle, CallOK
  <2>3. Holding'
    BY DEF Holding, Calls, CallOK, HasPack, HasId, disk
  <2>4. CallOK'
    BY DEF CallOK, Calls, HasPack, HasId, FilesOK, disk
  <2> QED
    BY <2>1, <2>2, <2>3, <2>4, TypeParts
<1>38. ASSUME NEW p \in Proc, NEW k \in Pack, SnapshotStart(p, k) PROVE TypeInv'
  <2> USE <1>38 DEF SnapshotStart, Idle
  <2>1. FilesOK'
    BY DEF FilesOK, File, disk, CallOK, HasPack, HasId
  <2>2. pr' \in [Proc -> Calls]
    BY Labels DEF Calls, FilesOK, Idle, CallOK
  <2>3. Holding'
    BY DEF Holding, Calls, CallOK, HasPack, HasId, disk
  <2>4. CallOK'
    BY DEF CallOK, Calls, HasPack, HasId, FilesOK, disk
  <2> QED
    BY <2>1, <2>2, <2>3, <2>4, TypeParts
<1>39. ASSUME NEW p \in Proc, Stop(p) PROVE TypeInv'
  <2> USE <1>39 DEF Stop, Idle
  <2>1. FilesOK'
    BY DEF FilesOK, File, disk, CallOK, HasPack, HasId
  <2>2. pr' \in [Proc -> Calls]
    BY Labels DEF Calls, FilesOK, Idle, CallOK
  <2>3. Holding'
    BY DEF Holding, Calls, CallOK, HasPack, HasId, disk
  <2>4. CallOK'
    BY DEF CallOK, Calls, HasPack, HasId, FilesOK, disk
  <2> QED
    BY <2>1, <2>2, <2>3, <2>4, TypeParts
<1>40. ASSUME NEW i \in Id, Age(i) PROVE TypeInv'
  <2> USE <1>40 DEF Age
  <2>1. FilesOK'
    BY DEF FilesOK, File, disk, CallOK, HasPack, HasId
  <2>2. pr' \in [Proc -> Calls]
    BY Labels DEF Calls, FilesOK, Idle, CallOK
  <2>3. Holding'
    BY DEF Holding, Calls, CallOK, HasPack, HasId, disk
  <2>4. CallOK'
    BY DEF CallOK, Calls, HasPack, HasId, FilesOK, disk
  <2> QED
    BY <2>1, <2>2, <2>3, <2>4, TypeParts
<1>42. ASSUME NEW p \in Proc, SnapshotMarkExists(p) PROVE TypeInv'
  <2> USE <1>42 DEF SnapshotMarkExists, Idle
  <2>1. FilesOK'
    BY DEF FilesOK, File, disk, CallOK, HasPack, HasId
  <2>2. pr' \in [Proc -> Calls]
    BY Labels DEF Calls, FilesOK, Idle, CallOK
  <2>3. Holding'
    BY DEF Holding, Calls, CallOK, HasPack, HasId, disk
  <2>4. CallOK'
    BY DEF CallOK, Calls, HasPack, HasId, FilesOK, disk
  <2> QED
    BY <2>1, <2>2, <2>3, <2>4, TypeParts
<1>43. ASSUME NEW p \in Proc, RecoverUnpaired(p) PROVE TypeInv'
  <2> USE <1>43 DEF RecoverUnpaired, Goto
  <2>1. FilesOK'
    BY DEF FilesOK, File, disk, CallOK, HasPack, HasId
  <2>2. pr' \in [Proc -> Calls]
    BY GotoCall, Labels
  <2>3. Holding'
    BY DEF Holding, Calls, CallOK, HasPack, HasId, disk
  <2>4. CallOK'
    BY DEF CallOK, Calls, HasPack, HasId, FilesOK, disk
  <2> QED
    BY <2>1, <2>2, <2>3, <2>4, TypeParts
<1>44. ASSUME NEW p \in Proc, CompleteFails(p) PROVE TypeInv'
  <2> USE <1>44 DEF CompleteFails, Onward, Idle
  <2>1. FilesOK'
    BY DEF FilesOK, File, disk, CallOK, HasPack, HasId
  <2>2. pr' \in [Proc -> Calls]
    BY OnwardCall, Labels DEF Idle
  <2>3. Holding'
    BY DEF Holding, Calls, CallOK, HasPack, HasId, disk
  <2>4. CallOK'
    BY DEF CallOK, Calls, HasPack, HasId, FilesOK, disk
  <2> QED
    BY <2>1, <2>2, <2>3, <2>4, TypeParts
<1>41. CASE UNCHANGED vars
  BY <1>41 DEF vars, TypeInv, TypeOK, CallOK
<1> QED
  BY <1>1, <1>2, <1>3, <1>4, <1>5, <1>6, <1>7, <1>8, <1>9, <1>10, <1>11,
     <1>12, <1>13, <1>14, <1>15, <1>16, <1>17, <1>18, <1>19, <1>20, <1>21,
     <1>22, <1>23, <1>24, <1>25, <1>26, <1>27, <1>28, <1>29, <1>30, <1>31,
     <1>32, <1>33, <1>34, <1>35, <1>36, <1>37, <1>38, <1>39, <1>40, <1>41,
     <1>42, <1>43, <1>44
     DEF Next, Step, Install, SnapshotInstall, Reload, Begin

LEMMA TypeInit == Init => TypeInv
<1> SUFFICES ASSUME Init PROVE TypeInv
  OBVIOUS
<1>1. FilesOK
  BY PackInstallAssumption DEF Init, FilesOK, File, Id
<1>2. pr \in [Proc -> Calls]
  BY Labels DEF Init
<1>3. Holding /\ CallOK
  BY PackInstallAssumption DEF Init, Holding, CallOK, Idle, HasPack, HasId, Locked, Journaled,
     Snapshot, Recovering, Cleaning
<1> QED
  BY <1>1, <1>2, <1>3, TypeParts

(* The types, and the lock of a pack name is held by exactly the call that *)
(* is between taking and releasing it: every early return, stop and skip   *)
(* of pack_install_journal.rs gives the lock back, and none gives back the *)
(* lock of another.                                                        *)
THEOREM TypesHold == Spec => []TypeOK
<1>1. Spec => []TypeInv
  BY TypeInit, TypeStep, PTL DEF Spec
<1>2. TypeInv => TypeOK
  BY DEF TypeInv
<1> QED
  BY <1>1, <1>2, PTL

-----------------------------------------------------------------------------
(* Every step keeps the pairs; a prune that takes one marks it. *)
LEMMA PairStep == TypeInv /\ PairInv /\ [Next]_vars => PairInv'
<1> SUFFICES ASSUME TypeInv, PairInv, [Next]_vars PROVE PairInv'
  OBVIOUS
<1>a. FilesOK /\ pr \in [Proc -> Calls] /\ Holding /\ CallOK
  BY TypeParts
<1> USE <1>a, PackInstallAssumption
        DEF FilesOK, Calls, Holding, CallOK, HasPack, HasId, Locked, Journaled, Snapshot,
            Recovering, Cleaning, PairInv, RepairsBroken, RecoveryInstallsNothing,
            PublishedKept, Installed, MarkerImpliesPair, Complete, Publishing, Paired, Taken,
            Unpaired, Present, disk
<1>1. ASSUME NEW p \in Proc, StagePack(p) PROVE PairInv'
  BY <1>1 DEF StagePack, Stage, Goto
<1>2. ASSUME NEW p \in Proc, StageIdx(p) PROVE PairInv'
  BY <1>2 DEF StageIdx, Stage, Goto
<1>3. ASSUME NEW p \in Proc, LockExisting(p) PROVE PairInv'
  BY <1>3 DEF LockExisting, Onward, Idle
<1>4. ASSUME NEW p \in Proc, LockMissing(p) PROVE PairInv'
  BY <1>4 DEF LockMissing, Goto
<1>5. ASSUME NEW p \in Proc, Repair(p) PROVE PairInv'
  BY <1>5 DEF Repair, Goto
<1>6. ASSUME NEW p \in Proc, RepairIdx(p) PROVE PairInv'
  BY <1>6 DEF RepairIdx, Goto
<1>7. ASSUME NEW p \in Proc, WriteIntent(p) PROVE PairInv'
  BY <1>7 DEF WriteIntent, Goto
<1>8. ASSUME NEW p \in Proc, PublishPack(p) PROVE PairInv'
  BY <1>8 DEF PublishPack, Goto
<1>9. ASSUME NEW p \in Proc, PublishIdx(p) PROVE PairInv'
  BY <1>9 DEF PublishIdx, Goto
<1>10. ASSUME NEW p \in Proc, StagingGone(p) PROVE PairInv'
  BY <1>10 DEF StagingGone, Idle
<1>11. ASSUME NEW p \in Proc, RemoveStaging(p) PROVE PairInv'
  BY <1>11 DEF RemoveStaging, Goto
<1>12. ASSUME NEW p \in Proc, RemoveIntent(p) PROVE PairInv'
  BY <1>12 DEF RemoveIntent, Onward, Idle
<1>13. ASSUME NEW p \in Proc, SnapshotExisting(p) PROVE PairInv'
  BY <1>13 DEF SnapshotExisting, Goto
<1>14. ASSUME NEW p \in Proc, SnapshotLock(p) PROVE PairInv'
  BY <1>14 DEF SnapshotLock, Goto
<1>15. ASSUME NEW p \in Proc, SnapshotRepair(p) PROVE PairInv'
  BY <1>15 DEF SnapshotRepair, Goto
<1>16. ASSUME NEW p \in Proc, SnapshotRepairIdx(p) PROVE PairInv'
  BY <1>16 DEF SnapshotRepairIdx, Goto
<1>17. ASSUME NEW p \in Proc, SnapshotPack(p) PROVE PairInv'
  BY <1>17 DEF SnapshotPack, Goto
<1>18. ASSUME NEW p \in Proc, SnapshotIdx(p) PROVE PairInv'
  BY <1>18 DEF SnapshotIdx, Goto
<1>19. ASSUME NEW p \in Proc, SnapshotMark(p) PROVE PairInv'
  BY <1>19 DEF SnapshotMark, Goto
<1>20. ASSUME NEW p \in Proc, AddPack(p) PROVE PairInv'
  BY <1>20 DEF AddPack, Idle
<1>21. ASSUME NEW p \in Proc, ListIntents(p) PROVE PairInv'
  BY <1>21 DEF ListIntents, Idle
<1>22. ASSUME NEW p \in Proc, TryLock(p) PROVE PairInv'
  <2>1. CASE lock[pr[p].pack] = None
    <3>1. /\ pr[p].at = "tryLock" /\ pr' = [pr EXCEPT ![p].at = "decide"]
          /\ UNCHANGED <<pack, idx, marker, ok, raced>>
      BY <1>22, <2>1 DEF TryLock, Goto
    <3> QED
      BY <3>1
  <2>2. CASE lock[pr[p].pack] # None
    <3>1. /\ pr' = [pr EXCEPT ![p] = [Idle EXCEPT !.at = "recover", !.todo = pr[p].todo]]
          /\ UNCHANGED <<pack, idx, marker, ok, raced>>
      BY <1>22, <2>2 DEF TryLock, Onward
    <3> QED
      BY <3>1 DEF Idle
  <2> QED
    BY <2>1, <2>2
<1>23. ASSUME NEW p \in Proc, RecoverPresent(p) PROVE PairInv'
  BY <1>23 DEF RecoverPresent, Goto
<1>24. ASSUME NEW p \in Proc, CompleteFromStaging(p) PROVE PairInv'
  BY <1>24 DEF CompleteFromStaging, Goto
<1>25. ASSUME NEW p \in Proc, AbortInstall(p) PROVE PairInv'
  BY <1>25 DEF AbortInstall, Goto
<1>26. ASSUME NEW p \in Proc, SkipFresh(p) PROVE PairInv'
  BY <1>26 DEF SkipFresh, Onward, Idle
<1>27. ASSUME NEW p \in Proc, RecoverDone(p) PROVE PairInv'
  BY <1>27 DEF RecoverDone, Goto
<1>28. ASSUME NEW p \in Proc, SweepRemove(p) PROVE PairInv'
  BY <1>28 DEF SweepRemove, Onward, Idle
<1>29. ASSUME NEW p \in Proc, SweepDone(p) PROVE PairInv'
  BY <1>29 DEF SweepDone, Goto
<1>30. ASSUME NEW p \in Proc, PruneList(p) PROVE PairInv'
  BY <1>30 DEF PruneList
<1>31. ASSUME NEW p \in Proc, PruneDone(p) PROVE PairInv'
  BY <1>31 DEF PruneDone, Idle
<1>32. ASSUME NEW p \in Proc, NEW i \in Id, LoadIntent(p, i) PROVE PairInv'
  BY <1>32 DEF LoadIntent
<1>33. ASSUME NEW p \in Proc, NEW i \in Id, SweepCheck(p, i) PROVE PairInv'
  BY <1>33 DEF SweepCheck
<1>34. ASSUME NEW p \in Proc, NEW k \in Pack, PruneOne(p, k) PROVE PairInv'
  BY <1>34 DEF PruneOne
<1>35. ASSUME NEW p \in Proc, StartReload(p) PROVE PairInv'
  BY <1>35 DEF StartReload, Goto
<1>36. ASSUME NEW p \in Proc, NEW k \in Pack, StartExisting(p, k) PROVE PairInv'
  BY <1>36 DEF StartExisting, Goto
<1>37. ASSUME NEW p \in Proc, NEW k \in Pack, Start(p, k) PROVE PairInv'
  BY <1>37 DEF Start, Idle
<1>38. ASSUME NEW p \in Proc, NEW k \in Pack, SnapshotStart(p, k) PROVE PairInv'
  BY <1>38 DEF SnapshotStart, Idle
<1>39. ASSUME NEW p \in Proc, Stop(p) PROVE PairInv'
  BY <1>39 DEF Stop, Idle
<1>40. ASSUME NEW i \in Id, Age(i) PROVE PairInv'
  BY <1>40 DEF Age
<1>42. ASSUME NEW p \in Proc, SnapshotMarkExists(p) PROVE PairInv'
  BY <1>42 DEF SnapshotMarkExists, Idle
<1>43. ASSUME NEW p \in Proc, RecoverUnpaired(p) PROVE PairInv'
  BY <1>43 DEF RecoverUnpaired, Goto
<1>44. ASSUME NEW p \in Proc, CompleteFails(p) PROVE PairInv'
  BY <1>44 DEF CompleteFails, Onward, Idle
<1>41. CASE UNCHANGED vars
  BY <1>41 DEF vars
<1> QED
  BY <1>1, <1>2, <1>3, <1>4, <1>5, <1>6, <1>7, <1>8, <1>9, <1>10, <1>11,
     <1>12, <1>13, <1>14, <1>15, <1>16, <1>17, <1>18, <1>19, <1>20, <1>21,
     <1>22, <1>23, <1>24, <1>25, <1>26, <1>27, <1>28, <1>29, <1>30, <1>31,
     <1>32, <1>33, <1>34, <1>35, <1>36, <1>37, <1>38, <1>39, <1>40, <1>41,
     <1>42, <1>43, <1>44
     DEF Next, Step, Install, SnapshotInstall, Reload, Begin

-----------------------------------------------------------------------------
(* A call that installs nothing changes nothing that StageInv is about,    *)
(* if it sweeps only what is old and recovers only what has an intent.     *)
LEMMA ReloadCall ==
  ASSUME StageInv, NEW p \in Proc,
         \A q \in Proc : q # p => pr'[q] = pr[q],
         UNCHANGED <<staged, intent, aged, next>>,
         ~Installer(p)',
         Recoverer(p)' => /\ pr'[p].id \in Id
                          /\ intent[pr'[p].id] # None /\ intent[pr'[p].id] = pr'[p].pack,
         pr'[p].at = "sweepRemove" => pr'[p].id \in aged
  PROVE  StageInv'
<1>1. ASSUME NEW q \in Proc, q # p
      PROVE  /\ Installer(q)' <=> Installer(q)
             /\ Recoverer(q)' <=> Recoverer(q)
             /\ HasIntent(q)' <=> HasIntent(q)
  BY <1>1 DEF Installer, Recoverer, HasIntent
<1>2. IdsFresh'
  BY <1>1 DEF StageInv, IdsFresh
<1>3. IntentsOwned'
  <2> SUFFICES ASSUME NEW x \in Proc, Installer(x)'
               PROVE  /\ intent[pr'[x].id] # None
                           => HasIntent(x)' /\ intent[pr'[x].id] = pr'[x].pack
                      /\ \A q \in Proc : Recoverer(q)' /\ pr'[q].id = pr'[x].id
                           => HasIntent(x)' /\ pr'[q].pack = pr'[x].pack
    BY DEF IntentsOwned
  <2> QED
    BY <1>1 DEF StageInv, IntentsOwned
<1>4. SweepsAged'
  BY DEF StageInv, SweepsAged
<1>5. StagedKept'
  BY DEF StageInv, StagedKept, Installer, Journaled
<1> QED
  BY <1>2, <1>3, <1>4, <1>5 DEF StageInv

(* Every step keeps the staged files of the installs that are young. *)
LEMMA StageStep == TypeInv /\ RecoveryInstallsNothing /\ StageInv /\ [Next]_vars => StageInv'
<1> SUFFICES ASSUME TypeInv, RecoveryInstallsNothing, StageInv, [Next]_vars PROVE StageInv'
  OBVIOUS
<1>a. FilesOK /\ pr \in [Proc -> Calls] /\ Holding /\ CallOK
  BY TypeParts
<1>30. ASSUME NEW p \in Proc, PruneList(p) PROVE StageInv'
  <2>1. /\ \A q \in Proc : q # p => pr'[q] = pr[q]
        /\ pr'[p].at = "prune"
        /\ UNCHANGED <<staged, intent, aged, next>>
    BY <1>30, <1>a DEF PruneList, disk, Calls
  <2>2. ~Installer(p)' /\ ~Recoverer(p)'
    BY <2>1 DEF Installer, Recoverer, Journaled, Cleaning
  <2> QED
    BY <2>1, <2>2, ReloadCall
<1>32. ASSUME NEW p \in Proc, NEW i \in Id, LoadIntent(p, i) PROVE StageInv'
  <2>1. /\ \A q \in Proc : q # p => pr'[q] = pr[q]
        /\ UNCHANGED <<staged, intent, aged, next>>
    BY <1>32, <1>a DEF LoadIntent, disk, Calls
  <2>2. CASE intent[i] = None
    <3>1. pr'[p].at = "recover"
      BY <1>32, <1>a, <2>2 DEF LoadIntent, Calls
    <3>2. ~Installer(p)' /\ ~Recoverer(p)'
      BY <3>1 DEF Installer, Recoverer, Journaled, Cleaning
    <3> QED
      BY <2>1, <3>1, <3>2, ReloadCall
  <2>3. CASE intent[i] # None
    <3>1. pr'[p].at = "tryLock" /\ pr'[p].id = i /\ pr'[p].pack = intent[i]
      BY <1>32, <1>a, <2>3 DEF LoadIntent, Calls
    <3>2. ~Installer(p)'
      BY <3>1 DEF Installer, Journaled, Cleaning
    <3> QED
      BY <2>1, <2>3, <3>1, <3>2, ReloadCall
  <2> QED
    BY <2>2, <2>3
<1>33. ASSUME NEW p \in Proc, NEW i \in Id, SweepCheck(p, i) PROVE StageInv'
  <2>1. /\ \A q \in Proc : q # p => pr'[q] = pr[q]
        /\ pr'[p].at = "sweepRemove" /\ pr'[p].id = i /\ i \in aged
        /\ UNCHANGED <<staged, intent, aged, next>>
    BY <1>33, <1>a DEF SweepCheck, Sweepable, disk, Calls
  <2>2. ~Installer(p)' /\ ~Recoverer(p)'
    BY <2>1 DEF Installer, Recoverer, Journaled, Cleaning
  <2> QED
    BY <2>1, <2>2, ReloadCall
<1> USE <1>a, PackInstallAssumption
        DEF FilesOK, Calls, Holding, CallOK, HasPack, HasId, Locked, Journaled, Snapshot,
            Recovering, Cleaning, RecoveryInstallsNothing, StageInv, IdsFresh, IntentsOwned,
            SweepsAged, StagedKept, Installer, Recoverer, HasIntent, Sweepable, Id, NoId, disk,
            Paired
<1>1. ASSUME NEW p \in Proc, StagePack(p) PROVE StageInv'
  BY <1>1 DEF StagePack, Stage, Goto
<1>2. ASSUME NEW p \in Proc, StageIdx(p) PROVE StageInv'
  BY <1>2 DEF StageIdx, Stage, Goto
<1>3. ASSUME NEW p \in Proc, LockExisting(p) PROVE StageInv'
  BY <1>3 DEF LockExisting, Onward, Idle
<1>4. ASSUME NEW p \in Proc, LockMissing(p) PROVE StageInv'
  BY <1>4 DEF LockMissing, Goto
<1>5. ASSUME NEW p \in Proc, Repair(p) PROVE StageInv'
  BY <1>5 DEF Repair, Goto
<1>6. ASSUME NEW p \in Proc, RepairIdx(p) PROVE StageInv'
  BY <1>6 DEF RepairIdx, Goto
<1>7. ASSUME NEW p \in Proc, WriteIntent(p) PROVE StageInv'
  BY <1>7 DEF WriteIntent, Goto
<1>8. ASSUME NEW p \in Proc, PublishPack(p) PROVE StageInv'
  BY <1>8 DEF PublishPack, Goto
<1>9. ASSUME NEW p \in Proc, PublishIdx(p) PROVE StageInv'
  BY <1>9 DEF PublishIdx, Goto
<1>10. ASSUME NEW p \in Proc, StagingGone(p) PROVE StageInv'
  BY <1>10 DEF StagingGone, Idle
<1>11. ASSUME NEW p \in Proc, RemoveStaging(p) PROVE StageInv'
  BY <1>11 DEF RemoveStaging, Goto
<1>12. ASSUME NEW p \in Proc, RemoveIntent(p) PROVE StageInv'
  BY <1>12 DEF RemoveIntent, Onward, Idle
<1>13. ASSUME NEW p \in Proc, SnapshotExisting(p) PROVE StageInv'
  BY <1>13 DEF SnapshotExisting, Goto
<1>14. ASSUME NEW p \in Proc, SnapshotLock(p) PROVE StageInv'
  BY <1>14 DEF SnapshotLock, Goto
<1>15. ASSUME NEW p \in Proc, SnapshotRepair(p) PROVE StageInv'
  BY <1>15 DEF SnapshotRepair, Goto
<1>16. ASSUME NEW p \in Proc, SnapshotRepairIdx(p) PROVE StageInv'
  BY <1>16 DEF SnapshotRepairIdx, Goto
<1>17. ASSUME NEW p \in Proc, SnapshotPack(p) PROVE StageInv'
  BY <1>17 DEF SnapshotPack, Goto
<1>18. ASSUME NEW p \in Proc, SnapshotIdx(p) PROVE StageInv'
  BY <1>18 DEF SnapshotIdx, Goto
<1>19. ASSUME NEW p \in Proc, SnapshotMark(p) PROVE StageInv'
  BY <1>19 DEF SnapshotMark, Goto
<1>20. ASSUME NEW p \in Proc, AddPack(p) PROVE StageInv'
  BY <1>20 DEF AddPack, Idle
<1>21. ASSUME NEW p \in Proc, ListIntents(p) PROVE StageInv'
  BY <1>21 DEF ListIntents, Idle
<1>22. ASSUME NEW p \in Proc, TryLock(p) PROVE StageInv'
  <2>1. CASE lock[pr[p].pack] = None
    <3>1. /\ pr[p].at = "tryLock" /\ pr' = [pr EXCEPT ![p].at = "decide"]
          /\ UNCHANGED <<staged, intent, aged, next>>
      BY <1>22, <2>1 DEF TryLock, Goto
    <3> QED
      BY <3>1
  <2>2. CASE lock[pr[p].pack] # None
    <3>1. /\ pr' = [pr EXCEPT ![p] = [Idle EXCEPT !.at = "recover", !.todo = pr[p].todo]]
          /\ UNCHANGED <<staged, intent, aged, next>>
      BY <1>22, <2>2 DEF TryLock, Onward
    <3> QED
      BY <3>1 DEF Idle
  <2> QED
    BY <2>1, <2>2
<1>23. ASSUME NEW p \in Proc, RecoverPresent(p) PROVE StageInv'
  BY <1>23 DEF RecoverPresent, Goto
<1>24. ASSUME NEW p \in Proc, CompleteFromStaging(p) PROVE StageInv'
  BY <1>24 DEF CompleteFromStaging, Goto
<1>25. ASSUME NEW p \in Proc, AbortInstall(p) PROVE StageInv'
  BY <1>25 DEF AbortInstall, Goto
<1>26. ASSUME NEW p \in Proc, SkipFresh(p) PROVE StageInv'
  BY <1>26 DEF SkipFresh, Onward, Idle
<1>27. ASSUME NEW p \in Proc, RecoverDone(p) PROVE StageInv'
  BY <1>27 DEF RecoverDone, Goto
<1>28. ASSUME NEW p \in Proc, SweepRemove(p) PROVE StageInv'
  BY <1>28 DEF SweepRemove, Onward, Idle
<1>29. ASSUME NEW p \in Proc, SweepDone(p) PROVE StageInv'
  BY <1>29 DEF SweepDone, Goto
<1>31. ASSUME NEW p \in Proc, PruneDone(p) PROVE StageInv'
  BY <1>31 DEF PruneDone, Idle
<1>34. ASSUME NEW p \in Proc, NEW k \in Pack, PruneOne(p, k) PROVE StageInv'
  BY <1>34 DEF PruneOne
<1>35. ASSUME NEW p \in Proc, StartReload(p) PROVE StageInv'
  BY <1>35 DEF StartReload, Goto
<1>36. ASSUME NEW p \in Proc, NEW k \in Pack, StartExisting(p, k) PROVE StageInv'
  BY <1>36 DEF StartExisting, Goto
<1>37. ASSUME NEW p \in Proc, NEW k \in Pack, Start(p, k) PROVE StageInv'
  BY <1>37 DEF Start, Idle
<1>38. ASSUME NEW p \in Proc, NEW k \in Pack, SnapshotStart(p, k) PROVE StageInv'
  BY <1>38 DEF SnapshotStart, Idle
<1>39. ASSUME NEW p \in Proc, Stop(p) PROVE StageInv'
  BY <1>39 DEF Stop, Idle
<1>40. ASSUME NEW i \in Id, Age(i) PROVE StageInv'
  BY <1>40 DEF Age
<1>42. ASSUME NEW p \in Proc, SnapshotMarkExists(p) PROVE StageInv'
  BY <1>42 DEF SnapshotMarkExists, Idle
<1>43. ASSUME NEW p \in Proc, RecoverUnpaired(p) PROVE StageInv'
  BY <1>43 DEF RecoverUnpaired, Goto
<1>44. ASSUME NEW p \in Proc, CompleteFails(p) PROVE StageInv'
  BY <1>44 DEF CompleteFails, Onward, Idle
<1>41. CASE UNCHANGED vars
  BY <1>41 DEF vars
<1> QED
  BY <1>1, <1>2, <1>3, <1>4, <1>5, <1>6, <1>7, <1>8, <1>9, <1>10, <1>11,
     <1>12, <1>13, <1>14, <1>15, <1>16, <1>17, <1>18, <1>19, <1>20, <1>21,
     <1>22, <1>23, <1>24, <1>25, <1>26, <1>27, <1>28, <1>29, <1>30, <1>31,
     <1>32, <1>33, <1>34, <1>35, <1>36, <1>37, <1>38, <1>39, <1>40, <1>41,
     <1>42, <1>43, <1>44
     DEF Next, Step, Install, SnapshotInstall, Reload, Begin

LEMMA PairInit == Init => PairInv /\ StageInv
  BY PackInstallAssumption DEF Init, Idle, PairInv, RepairsBroken,
     RecoveryInstallsNothing, PublishedKept, Installed, MarkerImpliesPair, StageInv, IdsFresh,
     IntentsOwned, SweepsAged, StagedKept, Installer, Recoverer,
     Journaled, Cleaning

(* The inductive invariant. *)
LEMMA Invariant == Spec => []IInv
<1>1. Init => IInv
  BY TypeInit, PairInit DEF IInv
<1>2. IInv /\ [Next]_vars => IInv'
  BY TypeStep, PairStep, StageStep DEF IInv, PairInv
<1> QED
  BY <1>1, <1>2, PTL DEF Spec

(* A pack whose install returned Ok stays a readable pair, whatever other  *)
(* processes install, repair, recover, abort, sweep or prune and wherever  *)
(* they stop; only a prune that listed this very pack before its index     *)
(* came can break it, until the pack is published anew.                    *)
THEOREM InstalledStays == Spec => []Installed
<1>1. IInv => Installed
  BY DEF IInv, PairInv
<1>2. Spec => []IInv
  BY Invariant
<1> QED
  BY <1>1, <1>2, PTL

(* The marker that commits a capture never stands without its pair, at any *)
(* step and after any stop, but for a pair that a prune has taken.         *)
THEOREM MarkersCommit == Spec => []MarkerImpliesPair
<1>1. IInv => MarkerImpliesPair
  BY DEF IInv, PairInv
<1>2. Spec => []IInv
  BY Invariant
<1> QED
  BY <1>1, <1>2, PTL

(* Recovery and sweep of other processes leave a running install alone     *)
(* until its TTL has passed.                                               *)
THEOREM LiveInstallsStay == Spec => []LiveInstallKept
<1>1. IInv => LiveInstallKept
  BY DEF IInv, PairInv, StageInv, StagedKept, PublishedKept, LiveInstallKept
<1>2. Spec => []IInv
  BY Invariant
<1> QED
  BY <1>1, <1>2, PTL
=============================================================================
