------------------------ MODULE SnapshotCommit_proofs ------------------------
(***************************************************************************)
(* Proofs about SnapshotCommit, for any number of processes, states,       *)
(* batches and failures.                                                   *)
(***************************************************************************)
EXTENDS SnapshotCommit, FiniteSetTheorems, WellFoundedInduction, TLAPS

(***************************************************************************)
(* Types, and what the locks protect.                                      *)
(***************************************************************************)
Opening == {"classify", "recover", "replay"}
Building == {"recheck", "since", "commit"}
Capturing == {"since", "commit", "publish"}
Moving == {"move", "moved"}
Naming == Building \union Moving \union {"publish"}

Made == 1..Len(made)
MadeOrNone == Made \union {None}
Snapshot == [content : 0..MaxEdits, tree : 0..MaxStates, parent : StateOrNone]

MadeTypes ==
  /\ worktree \in 0..MaxEdits /\ edits \in 0..MaxEdits
  /\ made \in Seq(Snapshot) /\ Len(made) <= MaxStates
LogTypes ==
  /\ packs \subseteq Artifact /\ \A a \in packs : a.new \in Made
  /\ log \in Seq(Batch) /\ Len(log) <= MaxLog /\ \A i \in 1..Len(log) : log[i].new \in Made
  /\ synced \in 0..Len(log)
RefTypes ==
  /\ ref \in MadeOrNone
  /\ file \in 0..MaxLog
  /\ witness \in [tip : 0..MaxLog, state : StateOrNone]
LockTypes == {repoLock, refsLock, logLock} \subseteq Proc \union {None}
CallTypes ==
  /\ pc \in [Proc -> PcValues]
  /\ mem \in [Proc -> 0..MaxLog]
  /\ view \in [Proc -> Artifact \union {None}]
  /\ prev \in [Proc -> MadeOrNone]
  /\ next \in [Proc -> StateOrNone]
  /\ since \in [Proc -> 0..MaxLog] /\ tip \in [Proc -> 0..MaxLog]
  /\ todo \in [Proc -> SUBSET packs]
  /\ \A p \in Proc : pc[p] \in Naming => next[p] \in Made

(* The worker of a capture holds the log lock, and nothing is appended     *)
(* before its batch is                                                     *)
ViewAt(p) ==
  view[p] # None =>
    /\ logLock = p /\ view[p] \in packs /\ view[p].tx \notin Transactions
    /\ view[p].base = Len(log) /\ Len(log) < MaxLog

LockAt(p) ==
  /\ pc[p] \in Capturing => repoLock = p
  /\ pc[p] \in Moving <=> refsLock = p

Flags == {stale, overtaken} \subseteq BOOLEAN

Types == MadeTypes /\ LogTypes /\ RefTypes /\ LockTypes /\ CallTypes
CommitInv == Types /\ ExactlyOnce /\ \A p \in Proc : ViewAt(p) /\ LockAt(p)

(* States that were made are states. *)
LEMMA MadeAreStates ==
  ASSUME Types
  PROVE  /\ Made \subseteq State /\ MadeOrNone \subseteq StateOrNone
         /\ prev \in [Proc -> StateOrNone] /\ ref \in StateOrNone
<1>1. Made \subseteq State /\ MadeOrNone \subseteq StateOrNone
  BY SnapshotCommitAssumption
     DEF Types, MadeTypes, Made, MadeOrNone, State, StateOrNone
<1> QED
  BY <1>1 DEF Types, CallTypes, RefTypes

(* The types imply the type invariant of the module. *)
LEMMA TypesSuffice ==
  ASSUME Types, Flags PROVE TypeOK
<1>1. prev \in [Proc -> StateOrNone] /\ ref \in StateOrNone
  BY MadeAreStates
<1>2. todo \in [Proc -> SUBSET Artifact]
  BY DEF Types, CallTypes, LogTypes
<1> QED
  BY <1>1, <1>2 DEF Types, MadeTypes, LogTypes, RefTypes, LockTypes, CallTypes, Flags, TypeOK,
                    Snapshot

(* The history variables: a step leaves them or raises them. *)
LEMMA FlagsStep ==
  ASSUME [Next]_vars
  PROVE  (Flags => Flags') /\ (~overtaken' => ~overtaken) /\ (~stale' => ~stale)
<1>1. ASSUME NEW p \in Proc,
             \/ OpenList(p) \/ OpenClassify(p) \/ RecoverNext(p) \/ GiveUp(p)
             \/ \E a \in todo[p] : Replay(p, a)
             \/ ReadThread(p) \/ ReadHead(p) \/ Build(p) \/ Recheck(p) \/ ReadSince(p)
             \/ IsolationConflict(p) \/ CaptureFails(p) \/ AppendView(p)
             \/ PublishSnapshot(p) \/ PublishFails(p) \/ (\E s \in State : MoveLock(p, s))
             \/ MovePublish(p) \/ Exit(p) \/ Crash(p)
      PROVE  UNCHANGED <<stale, overtaken>>
  BY <1>1 DEF OpenList, OpenClassify, RecoverNext, GiveUp, Replay, ReadThread, ReadHead, Build,
              Recheck, ReadSince, IsolationConflict, CaptureFails, AppendView, PublishSnapshot,
              PublishFails, MoveLock, MovePublish, Exit, Crash, history
<1>2. ASSUME NEW p \in Proc, AlreadyCommitted(p) \/ Install(p) \/ MoveCommit(p)
      PROVE  /\ overtaken' = (overtaken \/ Abandoned # {})
             /\ stale' = stale \/ stale' = (stale \/ next'[p] # ValueAt(Len(log)))
  BY <1>2 DEF AlreadyCommitted, Install, MoveCommit
<1>3. ASSUME PowerLoss \/ Edit \/ UNCHANGED vars PROVE UNCHANGED <<stale, overtaken>>
  BY <1>3 DEF PowerLoss, Edit, vars, history
<1>4. overtaken' = overtaken \/ overtaken' = (overtaken \/ Abandoned # {})
  BY <1>1, <1>2, <1>3 DEF Next
<1>5. stale' = stale \/ \E p \in Proc : stale' = (stale \/ next'[p] # ValueAt(Len(log)))
  BY <1>1, <1>2, <1>3 DEF Next
<1>6. (overtaken \in BOOLEAN => overtaken' \in BOOLEAN) /\ (~overtaken' => ~overtaken)
  <2>1. CASE overtaken' = overtaken
    BY <2>1
  <2>2. CASE overtaken' = (overtaken \/ Abandoned # {})
    <3>1. PICK b \in BOOLEAN : b <=> (overtaken \/ Abandoned # {})
      BY Zenon
    <3>2. overtaken' = b
      BY <2>2, <3>1, Zenon
    <3> QED
      BY <3>1, <3>2, Zenon
  <2> QED
    BY <1>4, <2>1, <2>2
<1>7. (stale \in BOOLEAN => stale' \in BOOLEAN) /\ (~stale' => ~stale)
  <2>1. CASE stale' = stale
    BY <2>1
  <2>2. ASSUME NEW p \in Proc, stale' = (stale \/ next'[p] # ValueAt(Len(log)))
        PROVE  stale' \in BOOLEAN /\ (~stale' => ~stale)
    <3>1. PICK b \in BOOLEAN : b <=> (stale \/ next'[p] # ValueAt(Len(log)))
      BY Zenon
    <3>2. stale' = b
      BY <2>2, <3>1, Zenon
    <3> QED
      BY <3>1, <3>2, Zenon
  <2> QED
    BY <1>5, <2>1, <2>2
<1> QED
  BY <1>6, <1>7 DEF Flags

LEMMA CommitInitially == Init => CommitInv
<1> SUFFICES ASSUME Init PROVE CommitInv
  OBVIOUS
<1>1. /\ made = << >> /\ log = << >> /\ Len(<< >>) = 0 /\ 1..0 = {} /\ packs = {}
  BY DEF Init
<1>2. MadeTypes /\ LogTypes /\ RefTypes
  BY <1>1, SnapshotCommitAssumption
     DEF Init, MadeTypes, LogTypes, RefTypes, MadeOrNone, StateOrNone
<1>3. LockTypes /\ CallTypes
  BY <1>1, SnapshotCommitAssumption
     DEF Init, LockTypes, CallTypes, PcValues, MadeOrNone, StateOrNone, Naming, Building, Moving
<1>4. ExactlyOnce
  BY <1>1 DEF ExactlyOnce
<1>5. ASSUME NEW p \in Proc PROVE ViewAt(p) /\ LockAt(p)
  BY SnapshotCommitAssumption DEF Init, ViewAt, LockAt, Capturing, Moving
<1> QED
  BY <1>2, <1>3, <1>4, <1>5 DEF CommitInv, Types

(* A call's step that leaves the states, the packs and the log alone. *)
LEMMA CallStep ==
  ASSUME CommitInv, NEW p \in Proc, UNCHANGED <<env, made, packs, log, synced>>,
         RefTypes', LockTypes', CallTypes',
         \A q \in Proc : q # p => pc'[q] = pc[q] /\ view'[q] = view[q],
         \A q \in Proc : q # p => /\ repoLock = q => repoLock' = q
                                  /\ logLock = q => logLock' = q
                                  /\ refsLock = q <=> refsLock' = q,
         ViewAt(p)', LockAt(p)'
  PROVE  CommitInv'
<1>1. MadeTypes' /\ LogTypes'
  BY DEF CommitInv, Types, MadeTypes, LogTypes, Made, env
<1>2. ExactlyOnce'
  BY DEF CommitInv, ExactlyOnce
<1>3. ASSUME NEW q \in Proc, q # p PROVE ViewAt(q)' /\ LockAt(q)'
  BY <1>3 DEF CommitInv, ViewAt, LockAt, Transactions
<1> QED
  BY <1>1, <1>2, <1>3 DEF CommitInv, Types

(* ... and its locks and the files of the thread too. *)
LEMMA PlainStep ==
  ASSUME CommitInv, NEW p \in Proc, UNCHANGED <<env, made, disk, locks, view>>,
         NEW l \in PcValues, pc' = [pc EXCEPT ![p] = l],
         l \in Capturing <=> pc[p] \in Capturing, l \in Moving <=> pc[p] \in Moving,
         CallTypes'
  PROVE  CommitInv'
<1>1. Types /\ ViewAt(p) /\ LockAt(p)
  BY DEF CommitInv
<1>2. /\ RefTypes' /\ LockTypes'
  BY <1>1 DEF Types, RefTypes, LockTypes, Made, MadeOrNone, disk, locks
<1>3. pc'[p] = l /\ \A q \in Proc : q # p => pc'[q] = pc[q] /\ view'[q] = view[q]
  BY <1>1 DEF Types, CallTypes
<1>4. ViewAt(p)' /\ LockAt(p)'
  BY <1>1, <1>3 DEF ViewAt, LockAt, Transactions, disk, locks
<1>5. UNCHANGED <<env, made, packs, log, synced>> /\ UNCHANGED <<repoLock, logLock, refsLock>>
  BY DEF disk, locks
<1> QED
  BY <1>2, <1>3, <1>4, <1>5, CallStep

LEMMA OpenListStep ==
  ASSUME CommitInv, NEW p \in Proc, OpenList(p) PROVE CommitInv'
<1>1. Types
  BY DEF CommitInv
<1>2. /\ UNCHANGED <<env, made, disk, locks, view>> /\ UNCHANGED <<prev, next, since, tip>>
      /\ mem' = [mem EXCEPT ![p] = file] /\ todo' = [todo EXCEPT ![p] = packs]
      /\ pc' = [pc EXCEPT ![p] = "classify"] /\ pc[p] = "closed"
  BY DEF OpenList, Goto, call
<1>3. CallTypes'
  BY <1>1, <1>2 DEF Types, CallTypes, RefTypes, LogTypes, PcValues, Made, MadeOrNone, disk,
                    Naming, Building, Moving
<1> QED
  BY <1>2, <1>3, PlainStep DEF PcValues, Capturing, Moving

LEMMA OpenClassifyStep ==
  ASSUME CommitInv, NEW p \in Proc, OpenClassify(p) PROVE CommitInv'
<1>1. Types
  BY DEF CommitInv
<1>2. /\ UNCHANGED <<env, made, disk, locks, view>> /\ UNCHANGED <<mem, prev, next, since, tip>>
      /\ todo' = [todo EXCEPT ![p] = {a \in todo[p] : a.tx \notin Transactions}]
      /\ pc' = [pc EXCEPT ![p] = "recover"] /\ pc[p] = "classify"
  BY DEF OpenClassify, Goto, call
<1>3. CallTypes'
  BY <1>1, <1>2 DEF Types, CallTypes, PcValues, Made, MadeOrNone, disk, Naming, Building, Moving
<1> QED
  BY <1>2, <1>3, PlainStep DEF PcValues, Capturing, Moving

LEMMA RecoverNextStep ==
  ASSUME CommitInv, NEW p \in Proc, RecoverNext(p) PROVE CommitInv'
<1>1. Types
  BY DEF CommitInv
<1>2. PICK l \in {"idle", "replay", "refused"} : pc' = [pc EXCEPT ![p] = l]
  BY DEF RecoverNext, Goto
<1>3. /\ UNCHANGED <<env, made, disk, locks, view>> /\ pc[p] = "recover"
      /\ UNCHANGED <<mem, prev, next, since, tip, todo>>
  BY DEF RecoverNext, call
<1>4. CallTypes'
  BY <1>1, <1>2, <1>3 DEF Types, CallTypes, PcValues, Made, MadeOrNone, disk, Naming, Building, Moving
<1> QED
  BY <1>2, <1>3, <1>4, PlainStep DEF PcValues, Capturing, Moving

LEMMA GiveUpStep ==
  ASSUME CommitInv, NEW p \in Proc, GiveUp(p) PROVE CommitInv'
<1>1. Types
  BY DEF CommitInv
<1>2. /\ UNCHANGED <<env, made, disk, locks, view>> /\ UNCHANGED <<mem, prev, next, since, tip>>
      /\ todo' = [todo EXCEPT ![p] = {}]
      /\ pc' = [pc EXCEPT ![p] = "closed"] /\ pc[p] = "refused"
  BY DEF GiveUp, Goto, call
<1>3. CallTypes'
  BY <1>1, <1>2 DEF Types, CallTypes, PcValues, Made, MadeOrNone, disk, Naming, Building, Moving
<1> QED
  BY <1>2, <1>3, PlainStep DEF PcValues, Capturing, Moving

LEMMA ReadSinceStep ==
  ASSUME CommitInv, NEW p \in Proc, ReadSince(p) PROVE CommitInv'
<1>1. Types
  BY DEF CommitInv
<1>2. /\ UNCHANGED <<env, made, disk, locks, view>> /\ UNCHANGED <<mem, prev, next, tip, todo>>
      /\ since' = [since EXCEPT ![p] = Len(log)]
      /\ pc' = [pc EXCEPT ![p] = "commit"] /\ pc[p] = "since"
  BY DEF ReadSince, Goto
<1>3. Len(log) \in 0..MaxLog
  BY <1>1, SnapshotCommitAssumption DEF Types, LogTypes
<1>4. CallTypes'
  BY <1>1, <1>2, <1>3 DEF Types, CallTypes, PcValues, Made, MadeOrNone, disk, Naming, Building, Moving
<1> QED
  BY <1>2, <1>4, PlainStep DEF PcValues, Capturing, Moving

LEMMA AlreadyCommittedStep ==
  ASSUME CommitInv, NEW p \in Proc, AlreadyCommitted(p) PROVE CommitInv'
<1>1. Types
  BY DEF CommitInv
<1>2. PICK i \in 1..Len(log) : next' = [next EXCEPT ![p] = log[i].new]
  BY DEF AlreadyCommitted
<1>3. /\ UNCHANGED <<env, made, disk, locks, view>> /\ UNCHANGED <<mem, prev, since, todo>>
      /\ tip' = [tip EXCEPT ![p] = Len(log)]
      /\ pc' = [pc EXCEPT ![p] = "publish"] /\ pc[p] = "commit"
  BY DEF AlreadyCommitted, Goto
<1>4. Len(log) \in 0..MaxLog /\ log[i].new \in Made /\ log[i].new \in StateOrNone
  BY <1>1, SnapshotCommitAssumption
     DEF Types, LogTypes, MadeTypes, Made, State, StateOrNone
<1>5. CallTypes'
  BY <1>1, <1>2, <1>3, <1>4
     DEF Types, CallTypes, PcValues, Made, MadeOrNone, disk, Naming, Building, Moving
<1> QED
  BY <1>3, <1>5, PlainStep DEF PcValues, Capturing, Moving

LEMMA IsolationConflictStep ==
  ASSUME CommitInv, NEW p \in Proc, IsolationConflict(p) PROVE CommitInv'
<1>1. Types
  BY DEF CommitInv
<1>2. /\ UNCHANGED <<env, made, disk, locks, view>> /\ UNCHANGED <<mem, prev, next, tip, todo>>
      /\ since' = [since EXCEPT ![p] = 0]
      /\ pc' = [pc EXCEPT ![p] = "since"] /\ pc[p] = "commit"
  BY DEF IsolationConflict, Goto
<1>3. 0 \in 0..MaxLog
  BY SnapshotCommitAssumption
<1>4. CallTypes'
  BY <1>1, <1>2, <1>3 DEF Types, CallTypes, PcValues, Made, MadeOrNone, disk, Naming, Building, Moving
<1> QED
  BY <1>2, <1>4, PlainStep DEF PcValues, Capturing, Moving

(* The end of a call. *)
LEMMA EndCallTypes ==
  ASSUME CommitInv, NEW p \in Proc, EndCall(p)
  PROVE  /\ prev' \in [Proc -> MadeOrNone] /\ next' \in [Proc -> StateOrNone]
         /\ since' \in [Proc -> 0..MaxLog] /\ tip' \in [Proc -> 0..MaxLog]
         /\ \A q \in Proc : q # p => next'[q] = next[q] /\ prev'[q] = prev[q]
         /\ prev'[p] = None
         /\ {repoLock', refsLock'} \subseteq Proc \union {None}
         /\ repoLock' # p /\ refsLock' # p
         /\ \A q \in Proc : q # p => /\ repoLock = q => repoLock' = q
                                     /\ refsLock = q <=> refsLock' = q
<1>1. 0 \in 0..MaxLog /\ None \in MadeOrNone /\ None \in StateOrNone /\ None \notin Proc
  BY SnapshotCommitAssumption DEF MadeOrNone, StateOrNone
<1>2. Types
  BY DEF CommitInv
<1> QED
  BY <1>1, <1>2 DEF EndCall, Types, CallTypes, LockTypes

(* A step that ends a call. *)
LEMMA LastStep ==
  ASSUME CommitInv, NEW p \in Proc, EndCall(p), pc' = [pc EXCEPT ![p] = "idle"],
         UNCHANGED <<env, made, packs, log, synced, logLock, view, todo>>,
         RefTypes', mem' \in [Proc -> 0..MaxLog]
  PROVE  CommitInv'
<1>1. Types /\ ViewAt(p) /\ LockAt(p)
  BY DEF CommitInv
<1>2. /\ pc' \in [Proc -> PcValues] /\ pc'[p] = "idle" /\ \A q \in Proc : q # p => pc'[q] = pc[q]
  BY <1>1 DEF Types, CallTypes, PcValues
<1>3. LockTypes'
  BY <1>1, EndCallTypes DEF Types, LockTypes
<1>4. CallTypes'
  <2>1. prev' \in [Proc -> MadeOrNone']
    BY EndCallTypes DEF MadeOrNone, Made
  <2>2. ASSUME NEW q \in Proc, pc'[q] \in Naming PROVE next'[q] \in Made'
    BY <1>1, <1>2, <2>2, EndCallTypes DEF Types, CallTypes, Naming, Building, Moving, Made
  <2> QED
    BY <1>1, <1>2, <2>1, <2>2, EndCallTypes DEF Types, CallTypes
<1>5. ViewAt(p)' /\ LockAt(p)'
  BY <1>1, <1>2, EndCallTypes DEF ViewAt, LockAt, Transactions, Capturing, Moving
<1> QED
  BY <1>2, <1>3, <1>4, <1>5, EndCallTypes, CallStep

LEMMA RefUnchanged ==
  ASSUME CommitInv, UNCHANGED <<made, ref, file, witness>>
  PROVE  RefTypes'
  BY DEF CommitInv, Types, RefTypes, MadeOrNone, Made

LEMMA CaptureFailsStep ==
  ASSUME CommitInv, NEW p \in Proc, CaptureFails(p) \/ PublishFails(p) PROVE CommitInv'
<1>1. /\ EndCall(p) /\ pc' = [pc EXCEPT ![p] = "idle"]
      /\ UNCHANGED <<env, made, packs, log, synced, logLock, view, todo, mem, ref, file, witness>>
  BY DEF CaptureFails, PublishFails, Goto, disk
<1>2. mem' \in [Proc -> 0..MaxLog]
  BY <1>1 DEF CommitInv, Types, CallTypes
<1> QED
  BY <1>1, <1>2, RefUnchanged, LastStep

LEMMA PublishSnapshotStep ==
  ASSUME CommitInv, NEW p \in Proc, PublishSnapshot(p) PROVE CommitInv'
<1>1. Types /\ tip[p] \in 0..MaxLog /\ next[p] \in Made /\ next[p] \in StateOrNone
  BY DEF CommitInv, Types, CallTypes, PublishSnapshot, Naming
<1>2. /\ EndCall(p) /\ pc' = [pc EXCEPT ![p] = "idle"]
      /\ UNCHANGED <<env, made, packs, log, synced, logLock, view, todo, file>>
      /\ ref' = next[p] /\ mem' = [mem EXCEPT ![p] = tip[p]]
      /\ witness' = [tip |-> tip[p], state |-> next[p]]
  BY DEF PublishSnapshot, Goto
<1>3. mem' \in [Proc -> 0..MaxLog]
  BY <1>1, <1>2 DEF Types, CallTypes
<1>4. RefTypes'
  BY <1>1, <1>2 DEF Types, RefTypes, MadeOrNone, Made
<1> QED
  BY <1>2, <1>3, <1>4, LastStep

LEMMA MovePublishStep ==
  ASSUME CommitInv, NEW p \in Proc, MovePublish(p) PROVE CommitInv'
<1>1. Types /\ next[p] \in Made
  BY DEF CommitInv, Types, CallTypes, MovePublish, Naming, Moving
<1>2. /\ EndCall(p) /\ pc' = [pc EXCEPT ![p] = "idle"]
      /\ UNCHANGED <<env, made, packs, log, synced, logLock, view, todo, file, mem, witness>>
      /\ ref' = next[p]
  BY DEF MovePublish, Goto
<1>3. mem' \in [Proc -> 0..MaxLog]
  BY <1>1, <1>2 DEF Types, CallTypes
<1>4. RefTypes'
  BY <1>1, <1>2 DEF Types, RefTypes, MadeOrNone, Made
<1> QED
  BY <1>2, <1>3, <1>4, LastStep

(* What a read of the thread returns and writes: the file is what it       *)
(* returned, and either nothing else changed or it folded the whole log.   *)
LEMMA ReadFacts ==
  ASSUME CommitInv, NEW p \in Proc, NEW w \in BOOLEAN, ReadEffect(p, w)
  PROVE  /\ ReadValue(p, w) \in MadeOrNone /\ ref' = ReadValue(p, w)
         /\ file' \in 0..MaxLog /\ mem' \in [Proc -> 0..MaxLog]
         /\ \/ ref' = ref /\ file' = file
            \/ ref' = ValueAt(Len(log)) /\ file' = Len(log) /\ Len(log) > 0
<1>1. /\ mem[p] \in 0..MaxLog /\ file \in 0..MaxLog /\ Len(log) \in 0..MaxLog
      /\ mem \in [Proc -> 0..MaxLog] /\ ref \in MadeOrNone
      /\ \A i \in 1..Len(log) : log[i].new \in Made
  BY SnapshotCommitAssumption DEF CommitInv, Types, CallTypes, RefTypes, LogTypes
<1>2. ValueAt(Len(log)) \in MadeOrNone
  BY <1>1 DEF ValueAt, MadeOrNone
<1>3. CASE mem[p] >= Len(log) \/ w
  BY <1>1, <1>3 DEF ReadEffect, ReadValue
<1>4. CASE mem[p] < Len(log) /\ ~w
  <2>1. /\ ref' = ReadValue(p, w)
        /\ mem' = [mem EXCEPT ![p] = Larger(Larger(mem[p], file), Len(log))]
        /\ file' = IF Folded(p) THEN Len(log) ELSE file
    BY <1>1, <1>4 DEF ReadEffect
  <2>2. Larger(Larger(mem[p], file), Len(log)) \in 0..MaxLog
    BY <1>1 DEF Larger
  <2>3. ReadValue(p, w) = IF Folded(p) THEN ValueAt(Len(log)) ELSE ref
    BY <1>1, <1>4 DEF ReadValue
  <2>4. Len(log) > 0
    BY <1>1, <1>4
  <2> QED
    BY <1>1, <1>2, <2>1, <2>2, <2>3, <2>4
<1> QED
  BY <1>1, <1>3, <1>4

LEMMA ReadThreadStep ==
  ASSUME CommitInv, NEW p \in Proc, ReadThread(p) PROVE CommitInv'
<1>1. PICK w \in BOOLEAN : w = Witnessed
  BY DEF Witnessed
<1>2. Types /\ ReadEffect(p, w) /\ ViewAt(p) /\ LockAt(p)
  BY <1>1 DEF CommitInv, ReadThread
<1>3. /\ UNCHANGED <<env, made, packs, log, synced, witness, repoLock, refsLock, logLock, view>>
      /\ UNCHANGED <<pc, prev, next, since, tip, todo>>
  BY DEF ReadThread, locks, call
<1>4. ref' \in MadeOrNone /\ file' \in 0..MaxLog /\ mem' \in [Proc -> 0..MaxLog]
  BY <1>2, ReadFacts
<1>5. RefTypes' /\ LockTypes' /\ CallTypes'
  BY <1>2, <1>3, <1>4 DEF Types, RefTypes, LockTypes, CallTypes, MadeOrNone, Made
<1>6. ViewAt(p)' /\ LockAt(p)'
  BY <1>2, <1>3 DEF ViewAt, LockAt, Transactions
<1> QED
  BY <1>3, <1>5, <1>6, CallStep

LEMMA ReadHeadStep ==
  ASSUME CommitInv, NEW p \in Proc, ReadHead(p) PROVE CommitInv'
<1>1. PICK w \in BOOLEAN : w = Witnessed
  BY DEF Witnessed
<1>2. PICK v : v = ReadValue(p, w)
  OBVIOUS
<1>3. Types /\ ReadEffect(p, w) /\ ViewAt(p) /\ LockAt(p)
  BY <1>1 DEF CommitInv, ReadHead
<1>4. /\ prev' = [prev EXCEPT ![p] = v] /\ pc' = [pc EXCEPT ![p] = "build"] /\ pc[p] = "idle"
      /\ UNCHANGED <<env, made, packs, log, synced, witness, repoLock, refsLock, logLock, view>>
      /\ UNCHANGED <<next, since, tip, todo>>
  BY <1>1, <1>2 DEF ReadHead, Goto, locks
<1>5. v \in MadeOrNone /\ ref' \in MadeOrNone /\ file' \in 0..MaxLog /\ mem' \in [Proc -> 0..MaxLog]
  BY <1>2, <1>3, ReadFacts
<1>6. RefTypes' /\ LockTypes'
  BY <1>3, <1>4, <1>5 DEF Types, RefTypes, LockTypes, MadeOrNone, Made
<1>7. CallTypes'
  BY <1>3, <1>4, <1>5
     DEF Types, CallTypes, PcValues, Made, MadeOrNone, disk, Naming, Building, Moving
<1>8. pc'[p] = "build" /\ \A q \in Proc : q # p => pc'[q] = pc[q]
  BY <1>3, <1>4 DEF Types, CallTypes
<1>9. ViewAt(p)' /\ LockAt(p)'
  BY <1>3, <1>4, <1>8 DEF ViewAt, LockAt, Transactions, Capturing, Moving
<1> QED
  BY <1>4, <1>6, <1>7, <1>8, <1>9, CallStep

LEMMA RecheckStep ==
  ASSUME CommitInv, NEW p \in Proc, Recheck(p) PROVE CommitInv'
<1>1. PICK w \in BOOLEAN : w = Witnessed
  BY DEF Witnessed
<1>2. Types /\ ReadEffect(p, w) /\ ViewAt(p) /\ LockAt(p)
  BY <1>1 DEF CommitInv, Recheck
<1>3. ref' \in MadeOrNone /\ file' \in 0..MaxLog /\ mem' \in [Proc -> 0..MaxLog]
  BY <1>2, ReadFacts
<1>4. /\ UNCHANGED <<env, made, packs, log, synced, witness, logLock, view, todo>>
      /\ pc[p] = "recheck" /\ repoLock = None
  BY DEF Recheck
<1>5. RefTypes'
  BY <1>2, <1>3, <1>4 DEF Types, RefTypes, MadeOrNone, Made
<1>6. CASE pc' = [pc EXCEPT ![p] = "idle"] /\ EndCall(p)
  BY <1>3, <1>4, <1>5, <1>6, LastStep
<1>7. CASE /\ pc' = [pc EXCEPT ![p] = "since"] /\ repoLock' = p
           /\ UNCHANGED <<refsLock, prev, next, since, tip>>
  <2>1. pc'[p] = "since" /\ \A q \in Proc : q # p => pc'[q] = pc[q] /\ view'[q] = view[q]
    BY <1>2, <1>4, <1>7 DEF Types, CallTypes
  <2>2. LockTypes'
    BY <1>2, <1>4, <1>7 DEF Types, LockTypes
  <2>3. CallTypes'
    BY <1>2, <1>3, <1>4, <1>7
       DEF Types, CallTypes, PcValues, Made, MadeOrNone, disk, Naming, Building, Moving
  <2>4. ViewAt(p)' /\ LockAt(p)'
    BY <1>2, <1>4, <1>7, <2>1 DEF ViewAt, LockAt, Transactions, Capturing, Moving
  <2>5. \A q \in Proc : q # p => /\ repoLock = q => repoLock' = q
                                 /\ logLock = q => logLock' = q
                                 /\ refsLock = q <=> refsLock' = q
    BY <1>4, <1>7, SnapshotCommitAssumption
  <2> QED
    BY <1>4, <1>5, <2>1, <2>2, <2>3, <2>4, <2>5, CallStep
<1> QED
  BY <1>6, <1>7 DEF Recheck, Goto, call

LEMMA MoveLockStep ==
  ASSUME CommitInv, NEW p \in Proc, NEW s \in State, MoveLock(p, s) PROVE CommitInv'
<1>1. Types /\ ReadEffect(p, FALSE) /\ ViewAt(p) /\ LockAt(p)
  BY DEF CommitInv, MoveLock
<1>2. ref' \in MadeOrNone /\ file' \in 0..MaxLog /\ mem' \in [Proc -> 0..MaxLog]
  BY <1>1, ReadFacts
<1>3. /\ UNCHANGED <<env, made, packs, log, synced, witness, logLock, repoLock, view, todo>>
      /\ UNCHANGED <<prev, since, tip>>
      /\ pc[p] = "idle" /\ refsLock = None /\ refsLock' = p
      /\ next' = [next EXCEPT ![p] = s] /\ pc' = [pc EXCEPT ![p] = "move"] /\ Stored(s)
  BY DEF MoveLock, Goto
<1>4. s \in Made /\ s \in StateOrNone
  BY <1>1, <1>3 DEF Stored, Types, LogTypes, StateOrNone
<1>5. RefTypes' /\ LockTypes'
  BY <1>1, <1>2, <1>3 DEF Types, RefTypes, LockTypes, MadeOrNone, Made
<1>6. CallTypes'
  BY <1>1, <1>2, <1>3, <1>4
     DEF Types, CallTypes, PcValues, Made, MadeOrNone, disk, Naming, Building, Moving
<1>7. pc'[p] = "move" /\ \A q \in Proc : q # p => pc'[q] = pc[q] /\ view'[q] = view[q]
  BY <1>1, <1>3 DEF Types, CallTypes
<1>8. ViewAt(p)' /\ LockAt(p)'
  BY <1>1, <1>3, <1>7 DEF ViewAt, LockAt, Transactions, Capturing, Moving
<1>9. \A q \in Proc : q # p => refsLock = q <=> refsLock' = q
  BY <1>3, SnapshotCommitAssumption
<1> QED
  BY <1>3, <1>5, <1>6, <1>7, <1>8, <1>9, CallStep

LEMMA BuildStep ==
  ASSUME CommitInv, NEW p \in Proc, Build(p) PROVE CommitInv'
<1>1. Types /\ ViewAt(p) /\ LockAt(p) /\ prev[p] \in MadeOrNone
  BY DEF CommitInv, Types, CallTypes
<1>2. PICK id \in Nat : id = Len(made) + 1
  BY <1>1 DEF Types, MadeTypes
<1>3. /\ UNCHANGED <<env, packs, log, synced, ref, file, witness, mem, view, todo>>
      /\ pc[p] = "build"
  BY DEF Build, disk
<1>4. CASE UNCHANGED <<made, logLock>> /\ pc' = [pc EXCEPT ![p] = "idle"] /\ EndCall(p)
  <2>1. mem' \in [Proc -> 0..MaxLog]
    BY <1>1, <1>3 DEF Types, CallTypes
  <2> QED
    BY <1>3, <1>4, <2>1, RefUnchanged, LastStep
<1>5. CASE /\ id \in State
           /\ made' = Append(made, [content |-> worktree, tree |-> SaltedTree(worktree, prev[p], id),
                                    parent |-> prev[p]])
           /\ next' = [next EXCEPT ![p] = id] /\ pc' = [pc EXCEPT ![p] = "recheck"]
           /\ UNCHANGED <<locks, prev, since, tip>>
  <2>1. PICK s : s = [content |-> worktree, tree |-> SaltedTree(worktree, prev[p], id),
                      parent |-> prev[p]]
    OBVIOUS
  <2>2. s \in Snapshot
    <3>1. prev[p] # None => prev[p] \in Made /\ made[prev[p]] \in Snapshot
      BY <1>1 DEF Types, MadeTypes, MadeOrNone, Made
    <3>2. prev[p] # None => made[prev[p]].tree \in 0..MaxStates
      BY <3>1 DEF Snapshot
    <3>3. id \in 0..MaxStates /\ 0 \in 0..MaxStates
      BY <1>5, SnapshotCommitAssumption DEF State
    <3>4. SaltedTree(worktree, prev[p], id) \in 0..MaxStates
      BY <3>2, <3>3 DEF SaltedTree
    <3>5. prev[p] \in StateOrNone
      BY <1>1, MadeAreStates
    <3> QED
      BY <1>1, <2>1, <3>4, <3>5 DEF Snapshot, Types, MadeTypes
  <2>3. /\ made' \in Seq(Snapshot) /\ Len(made') = id /\ Made' = 1..id
        /\ Made \subseteq Made' /\ id \in Made'
    BY <1>1, <1>2, <1>5, <2>1, <2>2 DEF Types, MadeTypes, Made
  <2>4. MadeTypes'
    BY <1>1, <1>3, <1>5, <2>3 DEF Types, MadeTypes, env, State
  <2>5. LogTypes'
    BY <1>1, <1>3, <2>3 DEF Types, LogTypes
  <2>6. RefTypes' /\ LockTypes'
    BY <1>1, <1>3, <1>5, <2>3 DEF Types, RefTypes, LockTypes, MadeOrNone, locks
  <2>7. prev' \in [Proc -> MadeOrNone']
    BY <1>1, <1>5, <2>3 DEF Types, CallTypes, MadeOrNone
  <2>8. id \in StateOrNone /\ next'[p] = id /\ \A q \in Proc : q # p => next'[q] = next[q]
    BY <1>1, <1>5 DEF Types, CallTypes, StateOrNone
  <2>9. /\ pc' \in [Proc -> PcValues] /\ pc'[p] = "recheck"
        /\ \A q \in Proc : q # p => pc'[q] = pc[q]
    BY <1>1, <1>5 DEF Types, CallTypes, PcValues
  <2>10. CallTypes'
    <3>1. ASSUME NEW q \in Proc, pc'[q] \in Naming PROVE next'[q] \in Made'
      BY <1>1, <2>3, <2>8, <2>9, <3>1 DEF Types, CallTypes
    <3> QED
      BY <1>1, <1>3, <1>5, <2>7, <2>8, <2>9, <3>1 DEF Types, CallTypes
  <2>11. ExactlyOnce'
    BY <1>3 DEF CommitInv, ExactlyOnce
  <2>12. ASSUME NEW q \in Proc PROVE ViewAt(q)' /\ LockAt(q)'
    <3>1. ViewAt(q) /\ LockAt(q)
      BY DEF CommitInv
    <3>2. ViewAt(q)'
      BY <1>3, <1>5, <3>1 DEF ViewAt, Transactions, locks
    <3>3. pc'[q] \in Capturing => pc[q] \in Capturing
      BY <1>3, <2>9 DEF Capturing
    <3>4. pc'[q] \in Moving <=> pc[q] \in Moving
      BY <1>3, <2>9 DEF Moving
    <3> QED
      BY <1>5, <3>1, <3>2, <3>3, <3>4 DEF LockAt, locks
  <2> QED
    BY <2>4, <2>5, <2>6, <2>10, <2>11, <2>12 DEF CommitInv, Types
<1> QED
  BY <1>2, <1>4, <1>5 DEF Build, Goto

LEMMA EditStep ==
  ASSUME CommitInv, Edit PROVE CommitInv'
<1>1. UNCHANGED <<made, packs, log, synced, ref, file, witness, repoLock, refsLock, logLock>>
      /\ UNCHANGED <<pc, mem, view, prev, next, since, tip, todo>>
  BY DEF Edit, disk, locks, call
<1>2. worktree' \in 0..MaxEdits /\ edits' \in 0..MaxEdits
  BY SnapshotCommitAssumption DEF Edit, CommitInv, Types, MadeTypes
<1>3. MadeTypes' /\ LogTypes' /\ RefTypes' /\ LockTypes'
  BY <1>1, <1>2 DEF CommitInv, Types, MadeTypes, LogTypes, RefTypes, LockTypes, MadeOrNone, Made
<1>4. CallTypes'
  BY <1>1 DEF CommitInv, Types, CallTypes, MadeOrNone, Made
<1>5. ExactlyOnce' /\ \A p \in Proc : ViewAt(p)' /\ LockAt(p)'
  BY <1>1 DEF CommitInv, ExactlyOnce, ViewAt, LockAt, Transactions
<1> QED
  BY <1>3, <1>4, <1>5 DEF CommitInv, Types

(* The artifact that a capture commits. *)
NewArtifact(p) ==
  [tx |-> TransactionId(p), base |-> Len(log), new |-> next[p], prev |-> prev[p]]

LEMMA InstallFacts ==
  ASSUME CommitInv, NEW p \in Proc, Install(p), NEW a, a = NewArtifact(p)
  PROVE  /\ a \in Artifact /\ a.new = next[p] /\ a.new \in Made /\ a.tx = made[next[p]].tree
         /\ a.base = Len(log) /\ a.tx \notin Transactions /\ a.tx # None
         /\ packs' = packs \union {a} /\ view' = [view EXCEPT ![p] = a]
         /\ logLock = None /\ logLock' = p /\ Len(log) < MaxLog
         /\ tip' = [tip EXCEPT ![p] = Len(log) + 1]
         /\ pc[p] = "commit" /\ pc' = [pc EXCEPT ![p] = "publish"]
         /\ UNCHANGED <<env, made, log, synced, ref, file, witness, repoLock, refsLock, mem>>
         /\ UNCHANGED <<prev, next, since, todo>>
<1>1. Types /\ next[p] \in Made /\ prev[p] \in StateOrNone /\ next[p] \in State
  <2>1. Types /\ next[p] \in Made
    BY DEF CommitInv, Types, CallTypes, Install, Naming, Building
  <2> QED
    BY <2>1, MadeAreStates DEF CommitInv
<1>2. TransactionId(p) \in 0..MaxStates /\ TransactionId(p) # None
  <2>1. made[next[p]] \in Snapshot
    BY <1>1 DEF Types, MadeTypes, Made
  <2>2. TransactionId(p) \in 0..MaxStates
    BY <2>1 DEF Snapshot, TransactionId
  <2> QED
    BY <2>2, SnapshotCommitAssumption
<1>3. Len(log) \in 0..MaxLog
  BY <1>1, SnapshotCommitAssumption DEF Types, LogTypes
<1>4. /\ a \in Artifact /\ a.new = next[p] /\ a.tx = TransactionId(p) /\ a.base = Len(log)
  BY <1>1, <1>2, <1>3 DEF NewArtifact, Artifact
<1>5. /\ packs' = packs \union {a} /\ view' = [view EXCEPT ![p] = a]
      /\ TransactionId(p) \notin Transactions
      /\ logLock = None /\ logLock' = p /\ Len(log) < MaxLog
      /\ tip' = [tip EXCEPT ![p] = Len(log) + 1]
      /\ pc[p] = "commit" /\ pc' = [pc EXCEPT ![p] = "publish"]
      /\ UNCHANGED <<env, made, log, synced, ref, file, witness, repoLock, refsLock, mem>>
      /\ UNCHANGED <<prev, next, since, todo>>
  BY DEF Install, NewArtifact, Goto
<1> QED
  BY <1>1, <1>2, <1>4, <1>5 DEF TransactionId

LEMMA InstallStep ==
  ASSUME CommitInv, NEW p \in Proc, Install(p) PROVE CommitInv'
<1>1. PICK a : a = NewArtifact(p)
  OBVIOUS
<1>2. /\ a \in Artifact /\ a.new \in Made
      /\ a.base = Len(log) /\ a.tx \notin Transactions
      /\ packs' = packs \union {a} /\ view' = [view EXCEPT ![p] = a]
      /\ logLock = None /\ logLock' = p /\ Len(log) < MaxLog
      /\ tip' = [tip EXCEPT ![p] = Len(log) + 1]
      /\ pc[p] = "commit" /\ pc' = [pc EXCEPT ![p] = "publish"]
      /\ UNCHANGED <<env, made, log, synced, ref, file, witness, repoLock, refsLock, mem>>
      /\ UNCHANGED <<prev, next, since, todo>>
  BY <1>1, InstallFacts
<1>3. Types
  BY DEF CommitInv
<1>4. PICK n \in 0..MaxLog : n = Len(log) + 1
  BY <1>2, <1>3, SnapshotCommitAssumption DEF Types, LogTypes
<1>5. MadeTypes' /\ LogTypes' /\ RefTypes' /\ LockTypes'
  BY <1>2, <1>3 DEF Types, MadeTypes, LogTypes, RefTypes, LockTypes, MadeOrNone, Made, env
<1>6. /\ pc' \in [Proc -> PcValues] /\ pc'[p] = "publish"
      /\ \A q \in Proc : q # p => pc'[q] = pc[q]
      /\ view' \in [Proc -> Artifact \union {None}] /\ view'[p] = a
      /\ \A q \in Proc : q # p => view'[q] = view[q]
      /\ tip' \in [Proc -> 0..MaxLog]
  BY <1>2, <1>3, <1>4 DEF Types, CallTypes, PcValues
<1>7. CallTypes'
  <2>1. ASSUME NEW q \in Proc, pc'[q] \in Naming PROVE next'[q] \in Made'
    BY <1>2, <1>3, <1>6, <2>1 DEF Types, CallTypes, Naming, Building, Made
  <2> QED
    BY <1>2, <1>3, <1>6, <2>1 DEF Types, CallTypes, MadeOrNone, Made
<1>8. ExactlyOnce'
  BY <1>2 DEF CommitInv, ExactlyOnce
<1>9. ASSUME NEW q \in Proc PROVE ViewAt(q)' /\ LockAt(q)'
  <2>1. ViewAt(q) /\ LockAt(q)
    BY DEF CommitInv
  <2>2. CASE q = p
    BY <1>2, <1>6, <2>1, <2>2 DEF ViewAt, LockAt, Transactions, Capturing, Moving
  <2>3. CASE q # p
    <3>1. view[q] = None
      BY <1>2, <2>1, SnapshotCommitAssumption DEF ViewAt
    <3> QED
      BY <1>2, <1>6, <2>1, <2>3, <3>1 DEF ViewAt, LockAt
  <2> QED
    BY <2>2, <2>3
<1> QED
  BY <1>5, <1>7, <1>8, <1>9 DEF CommitInv, Types

(***************************************************************************)
(* Steps that change the log.                                              *)
(***************************************************************************)
TxsOf(l) == {l[i].tx : i \in 1..Len(l)} \ {None}
Once(l) == \A i, j \in 1..Len(l) : l[i].tx = l[j].tx /\ l[i].tx # None => i = j

(* k is l with the batch b at its end *)
Extended(l, b, k) ==
  /\ k \in Seq(Batch) /\ Len(k) = Len(l) + 1 /\ Len(l) \in Nat
  /\ \A i \in 1..Len(l) : k[i] = l[i]
  /\ k[Len(l) + 1] = b

LEMMA AppendExtends ==
  ASSUME NEW l \in Seq(Batch), NEW b \in Batch
  PROVE  Extended(l, b, Append(l, b))
  BY DEF Extended

(* Appending a batch. *)
LEMMA ExtendedTxs ==
  ASSUME NEW l, NEW b, NEW k, Extended(l, b, k)
  PROVE  /\ TxsOf(k) = TxsOf(l) \union ({b.tx} \ {None})
         /\ Once(l) /\ (b.tx # None => b.tx \notin TxsOf(l)) => Once(k)
<1>1. /\ k \in Seq(Batch) /\ Len(k) = Len(l) + 1 /\ Len(l) \in Nat
      /\ \A i \in 1..Len(l) : k[i] = l[i]
      /\ k[Len(l) + 1] = b
  BY DEF Extended
<1>2. PICK n \in Nat : n = Len(l)
  BY <1>1
<1>3. \A i \in 1..(n + 1) : i \in 1..n \/ i = n + 1
  OBVIOUS
<1>4. 1..n \subseteq 1..(n + 1) /\ n + 1 \in 1..(n + 1) /\ n + 1 \notin 1..n
  OBVIOUS
<1>5. TxsOf(k) = TxsOf(l) \union ({b.tx} \ {None})
  <2>1. ASSUME NEW t
        PROVE  t \in TxsOf(k) <=> t \in TxsOf(l) \/ (t = b.tx /\ t # None)
    <3>1. (\E i \in 1..(n + 1) : t = k[i].tx) <=> (\E i \in 1..n : t = l[i].tx) \/ t = b.tx
      BY <1>1, <1>2, <1>3, <1>4
    <3> QED
      BY <1>1, <1>2, <3>1 DEF TxsOf
  <2> QED
    BY <2>1
<1>6. ASSUME Once(l), b.tx # None => b.tx \notin TxsOf(l) PROVE Once(k)
  <2>1. ASSUME NEW i \in 1..n, b.tx # None PROVE l[i].tx # b.tx
    BY <1>2, <1>6, <2>1 DEF TxsOf
  <2> QED
    BY <1>1, <1>2, <1>3, <1>6, <2>1 DEF Once
<1> QED
  BY <1>5, <1>6

(* k is the first n batches of l *)
Prefixed(l, n, k) ==
  /\ k \in Seq(Batch) /\ Len(k) = n /\ n \in Nat /\ Len(l) \in Nat /\ n <= Len(l)
  /\ \A i \in 1..n : i \in 1..Len(l) /\ k[i] = l[i]

LEMMA SubSeqPrefixed ==
  ASSUME NEW l \in Seq(Batch), NEW n \in 0..Len(l)
  PROVE  Prefixed(l, n, SubSeq(l, 1, n))
  BY DEF Prefixed

LEMMA PrefixedOnce ==
  ASSUME NEW l, NEW n, NEW k, Prefixed(l, n, k), Once(l)
  PROVE  Once(k)
  BY DEF Prefixed, Once

(* A step that appends the batch b for process p. *)
LEMMA AppendStep ==
  ASSUME CommitInv, NEW p \in Proc, NEW b \in Batch, log' = Append(log, b),
         UNCHANGED <<env, made, packs, ref, file, witness, repoLock, refsLock, mem,
                     prev, next, since, tip>>,
         b.new \in Made, Len(log) < MaxLog, b.tx # None => b.tx \notin Transactions,
         synced' = synced \/ synced' = Len(log'),
         logLock' \in {None, logLock}, view' \in [Proc -> Artifact \union {None}],
         \A q \in Proc : view'[q] = None,
         NEW l \in PcValues, pc' = [pc EXCEPT ![p] = l],
         l \in Capturing => pc[p] \in Capturing, l \in Moving <=> pc[p] \in Moving,
         l \in Naming => pc[p] \in Naming,
         todo' \in [Proc -> SUBSET packs]
  PROVE  CommitInv'
<1>1. Types /\ ExactlyOnce /\ log \in Seq(Batch)
  BY DEF CommitInv, Types, LogTypes
<1>2. PICK k : k = Append(log, b)
  OBVIOUS
<1>3. /\ k \in Seq(Batch) /\ Len(k) = Len(log) + 1 /\ Len(log) \in Nat
      /\ \A i \in 1..Len(log) : k[i] = log[i]
      /\ k[Len(log) + 1] = b
      /\ Once(log) /\ (b.tx # None => b.tx \notin TxsOf(log)) => Once(k)
  <2>1. Extended(log, b, k)
    BY <1>1, <1>2, AppendExtends
  <2> QED
    BY <2>1, ExtendedTxs DEF Extended
<1>4. Once(log) /\ TxsOf(log) = Transactions
  BY <1>1 DEF ExactlyOnce, Once, TxsOf, Transactions
<1>5. ExactlyOnce'
  BY <1>2, <1>3, <1>4 DEF ExactlyOnce, Once
<1>6. MadeTypes' /\ RefTypes' /\ LockTypes'
  BY <1>1 DEF Types, MadeTypes, RefTypes, LockTypes, MadeOrNone, Made, env
<1>7. LogTypes'
  <2>1. \A i \in 1..Len(k) : k[i].new \in Made
    BY <1>1, <1>3 DEF Types, LogTypes
  <2>2. Len(k) <= MaxLog /\ synced' \in 0..Len(k)
    BY <1>1, <1>2, <1>3, SnapshotCommitAssumption DEF Types, LogTypes
  <2> QED
    BY <1>1, <1>2, <1>3, <2>1, <2>2 DEF Types, LogTypes, Made
<1>8. /\ pc' \in [Proc -> PcValues] /\ pc'[p] = l /\ \A q \in Proc : q # p => pc'[q] = pc[q]
  BY <1>1 DEF Types, CallTypes
<1>9. CallTypes'
  BY <1>1, <1>8 DEF Types, CallTypes, MadeOrNone, Made
<1>10. ASSUME NEW q \in Proc PROVE ViewAt(q)' /\ LockAt(q)'
  <2>1. LockAt(q)
    BY DEF CommitInv
  <2> QED
    BY <1>8, <2>1 DEF ViewAt, LockAt
<1> QED
  BY <1>5, <1>6, <1>7, <1>9, <1>10 DEF CommitInv, Types

(* Nobody else's batch is under way. *)
LEMMA OtherViews ==
  ASSUME CommitInv, NEW q \in Proc, logLock # q PROVE view[q] = None
  BY DEF CommitInv, ViewAt

LEMMA ArtifactBatch ==
  ASSUME CommitInv, NEW a \in packs
  PROVE  /\ BatchOf(a) \in Batch /\ BatchOf(a).tx = a.tx /\ BatchOf(a).new = a.new
         /\ a.new \in Made /\ a.tx # None /\ a \in Artifact
<1>1. a \in Artifact /\ a.new \in Made
  BY DEF CommitInv, Types, LogTypes
<1>2. a.tx \in 0..MaxStates /\ a.tx # None
  BY <1>1, SnapshotCommitAssumption DEF Artifact
<1> QED
  BY <1>1, <1>2 DEF BatchOf, Batch, Artifact

LEMMA AppendViewStep ==
  ASSUME CommitInv, NEW p \in Proc, AppendView(p) PROVE CommitInv'
<1>1. PICK a : a = view[p]
  OBVIOUS
<1>2. Types /\ a \in packs /\ a.tx \notin Transactions /\ logLock = p /\ Len(log) < MaxLog
  BY <1>1 DEF CommitInv, AppendView, ViewAt
<1>3. /\ log' = Append(log, BatchOf(a)) /\ view' = [view EXCEPT ![p] = None] /\ logLock' = None
      /\ UNCHANGED <<env, made, packs, synced, ref, file, witness, repoLock, refsLock, pc, mem>>
      /\ UNCHANGED <<prev, next, since, tip, todo>>
  BY <1>1 DEF AppendView, call
<1>4. view' \in [Proc -> Artifact \union {None}] /\ \A q \in Proc : view'[q] = None
  BY <1>2, <1>3, OtherViews DEF Types, CallTypes
<1>5. PICK l \in PcValues : l = pc[p]
  BY <1>2 DEF Types, CallTypes
<1>6. pc' = [pc EXCEPT ![p] = l] /\ todo' \in [Proc -> SUBSET packs]
  BY <1>2, <1>3, <1>5 DEF Types, CallTypes
<1>7. BatchOf(a) \in Batch /\ BatchOf(a).new \in Made /\ BatchOf(a).tx \notin Transactions
  BY <1>2, ArtifactBatch
<1> QED
  BY <1>2, <1>3, <1>4, <1>5, <1>6, <1>7, AppendStep

LEMMA ReplayStep ==
  ASSUME CommitInv, NEW p \in Proc, NEW a \in todo[p], Replay(p, a)
  PROVE  CommitInv'
<1>1. Types /\ a \in packs /\ todo[p] \subseteq packs
  BY DEF CommitInv, Types, CallTypes
<1>2. /\ UNCHANGED <<env, made, packs, ref, file, witness, repoLock, refsLock, logLock, mem, view>>
      /\ UNCHANGED <<prev, next, since, tip>>
      /\ pc[p] = "replay" /\ pc' = [pc EXCEPT ![p] = "recover"] /\ logLock = None
      /\ todo' = [todo EXCEPT ![p] = {b \in todo[p] : b.tx # a.tx}]
  BY DEF Replay, Goto, locks, call
<1>3. todo' \in [Proc -> SUBSET packs] /\ view' \in [Proc -> Artifact \union {None}]
  BY <1>1, <1>2 DEF Types, CallTypes
<1>4. CASE UNCHANGED <<log, synced>>
  <2>1. CallTypes'
    BY <1>1, <1>2, <1>3
       DEF Types, CallTypes, PcValues, Made, MadeOrNone, disk, Naming, Building, Moving
  <2> QED
    BY <1>2, <1>4, <2>1, PlainStep DEF PcValues, Capturing, Moving, disk, locks
<1>5. CASE /\ a.tx \notin Transactions /\ Len(log) < MaxLog
           /\ log' = Append(log, BatchOf(a)) /\ synced' = Len(log')
  <2>1. \A q \in Proc : view'[q] = None
    BY <1>2, OtherViews, SnapshotCommitAssumption
  <2>2. BatchOf(a) \in Batch /\ BatchOf(a).new \in Made /\ BatchOf(a).tx \notin Transactions
    BY <1>1, <1>5, ArtifactBatch
  <2>3. "recover" \in PcValues /\ "recover" \notin Capturing /\ "recover" \notin Naming
        /\ "recover" \notin Moving /\ pc[p] \notin Moving
    BY <1>2 DEF PcValues, Capturing, Naming, Building, Moving
  <2> QED
    BY <1>2, <1>3, <1>5, <2>1, <2>2, <2>3, AppendStep
<1> QED
  BY <1>4, <1>5 DEF Replay

LEMMA MoveCommitStep ==
  ASSUME CommitInv, NEW p \in Proc, MoveCommit(p) PROVE CommitInv'
<1>1. Types /\ next[p] \in Made /\ next[p] \in State /\ ref \in StateOrNone
  <2>1. Types /\ next[p] \in Made
    BY DEF CommitInv, Types, CallTypes, MoveCommit, Naming, Moving
  <2> QED
    BY <2>1, MadeAreStates DEF CommitInv
<1>2. PICK b : b = [tx |-> None, new |-> next[p], prev |-> ref]
  OBVIOUS
<1>3. b \in Batch /\ b.new = next[p] /\ b.tx = None
  BY <1>1, <1>2 DEF Batch
<1>4. /\ UNCHANGED <<env, made, packs, ref, file, witness, repoLock, refsLock, logLock, mem, view>>
      /\ UNCHANGED <<prev, next, since, tip, todo>>
      /\ pc[p] = "move" /\ pc' = [pc EXCEPT ![p] = "moved"] /\ logLock = None
      /\ Len(log) < MaxLog /\ log' = Append(log, b) /\ synced' = Len(log')
  BY <1>2 DEF MoveCommit, Goto, locks, call
<1>5. \A q \in Proc : view'[q] = None
  BY <1>4, OtherViews, SnapshotCommitAssumption
<1>6. view' \in [Proc -> Artifact \union {None}] /\ todo' \in [Proc -> SUBSET packs]
  BY <1>1, <1>4 DEF Types, CallTypes
<1>7. /\ "moved" \in PcValues /\ "moved" \notin Capturing /\ "moved" \in Moving
      /\ pc[p] \in Moving /\ pc[p] \in Naming
  BY <1>4 DEF PcValues, Capturing, Naming, Building, Moving
<1> QED
  BY <1>1, <1>3, <1>4, <1>5, <1>6, <1>7, AppendStep

(***************************************************************************)
(* Processes that end.                                                     *)
(***************************************************************************)
LEMMA GoneFacts ==
  ASSUME CommitInv, NEW P \in SUBSET Proc, Gone(P), UNCHANGED <<made, packs>>
  PROVE  /\ CallTypes' /\ LockTypes'
         /\ \A q \in Proc : q \in P => /\ pc'[q] = "closed" /\ view'[q] = None /\ todo'[q] = {}
                                       /\ prev'[q] = None
                                       /\ repoLock' # q /\ refsLock' # q /\ logLock' # q
         /\ \A q \in Proc : q \notin P =>
              /\ pc'[q] = pc[q] /\ view'[q] = view[q] /\ todo'[q] = todo[q]
              /\ prev'[q] = prev[q] /\ next'[q] = next[q]
              /\ (repoLock' = q <=> repoLock = q) /\ (refsLock' = q <=> refsLock = q)
              /\ (logLock' = q <=> logLock = q)
<1>1. Types
  BY DEF CommitInv
<1>2. /\ pc' = [p \in Proc |-> IF p \in P THEN "closed" ELSE pc[p]]
      /\ mem' = [p \in Proc |-> IF p \in P THEN 0 ELSE mem[p]]
      /\ view' = [p \in Proc |-> IF p \in P THEN None ELSE view[p]]
      /\ prev' = [p \in Proc |-> IF p \in P THEN None ELSE prev[p]]
      /\ next' = [p \in Proc |-> IF p \in P THEN None ELSE next[p]]
      /\ since' = [p \in Proc |-> IF p \in P THEN 0 ELSE since[p]]
      /\ tip' = [p \in Proc |-> IF p \in P THEN 0 ELSE tip[p]]
      /\ todo' = [p \in Proc |-> IF p \in P THEN {} ELSE todo[p]]
      /\ repoLock' = IF repoLock \in P THEN None ELSE repoLock
      /\ refsLock' = IF refsLock \in P THEN None ELSE refsLock
      /\ logLock' = IF logLock \in P THEN None ELSE logLock
  BY DEF Gone
<1>3. 0 \in 0..MaxLog /\ None \in MadeOrNone /\ None \in StateOrNone /\ None \notin Proc
  BY SnapshotCommitAssumption DEF MadeOrNone, StateOrNone
<1>4. LockTypes'
  BY <1>1, <1>2 DEF Types, LockTypes
<1>5. /\ mem' \in [Proc -> 0..MaxLog] /\ since' \in [Proc -> 0..MaxLog]
      /\ tip' \in [Proc -> 0..MaxLog] /\ view' \in [Proc -> Artifact \union {None}]
      /\ prev' \in [Proc -> MadeOrNone] /\ next' \in [Proc -> StateOrNone]
      /\ pc' \in [Proc -> PcValues] /\ todo' \in [Proc -> SUBSET packs]
  BY <1>1, <1>2, <1>3 DEF Types, CallTypes, PcValues
<1>6. ASSUME NEW q \in Proc, pc'[q] \in Naming PROVE next'[q] \in Made
  BY <1>1, <1>2, <1>6 DEF Types, CallTypes, Naming, Building, Moving
<1>7. CallTypes'
  BY <1>5, <1>6 DEF CallTypes, MadeOrNone, Made
<1> QED
  BY <1>2, <1>3, <1>4, <1>7

LEMMA ExitStep ==
  ASSUME CommitInv, NEW p \in Proc, Exit(p) \/ Crash(p) PROVE CommitInv'
<1>1. /\ Gone({p}) /\ {p} \in SUBSET Proc
      /\ UNCHANGED <<env, made, packs, log, synced, ref, file, witness>>
  BY DEF Exit, Crash, disk
<1>2. CallTypes' /\ LockTypes'
  BY <1>1, GoneFacts
<1>3. /\ pc'[p] = "closed" /\ view'[p] = None
      /\ repoLock' # p /\ refsLock' # p /\ logLock' # p
      /\ \A q \in Proc : q # p =>
           /\ pc'[q] = pc[q] /\ view'[q] = view[q]
           /\ (repoLock' = q <=> repoLock = q) /\ (refsLock' = q <=> refsLock = q)
           /\ (logLock' = q <=> logLock = q)
  BY <1>1, GoneFacts
<1>4. ViewAt(p)' /\ LockAt(p)'
  BY <1>3 DEF ViewAt, LockAt, Capturing, Moving
<1> QED
  BY <1>1, <1>2, <1>3, <1>4, RefUnchanged, CallStep

LEMMA PowerLossStep ==
  ASSUME CommitInv, PowerLoss PROVE CommitInv'
<1>1. PICK n \in synced..Len(log) : log' = SubSeq(log, 1, n) /\ synced' = n
  BY DEF PowerLoss
<1>2. Gone(Proc) /\ UNCHANGED <<env, made, packs, ref, file, witness>>
  BY DEF PowerLoss
<1>3. Types /\ ExactlyOnce /\ log \in Seq(Batch) /\ n \in 0..Len(log)
  BY <1>1 DEF CommitInv, Types, LogTypes
<1>4. CallTypes' /\ LockTypes'
  BY <1>2, GoneFacts
<1>5. ASSUME NEW q \in Proc PROVE ViewAt(q)' /\ LockAt(q)'
  <2>1. pc'[q] = "closed" /\ view'[q] = None /\ refsLock' # q
    BY <1>2, GoneFacts
  <2> QED
    BY <2>1 DEF ViewAt, LockAt, Capturing, Moving
<1>6. PICK k : k = SubSeq(log, 1, n)
  OBVIOUS
<1>7. /\ k \in Seq(Batch) /\ Len(k) = n /\ n \in Nat /\ Len(log) \in Nat
      /\ \A i \in 1..n : i \in 1..Len(log) /\ k[i] = log[i]
      /\ Once(log) => Once(k)
  <2>1. Prefixed(log, n, k)
    BY <1>3, <1>6, SubSeqPrefixed
  <2> QED
    BY <2>1, PrefixedOnce DEF Prefixed
<1>8. ExactlyOnce'
  BY <1>1, <1>3, <1>6, <1>7 DEF ExactlyOnce, Once
<1>9. LogTypes'
  <2>1. \A i \in 1..n : k[i].new \in Made
    BY <1>3, <1>7 DEF Types, LogTypes
  <2>2. n <= MaxLog /\ n \in 0..n
    BY <1>3, <1>7, SnapshotCommitAssumption DEF Types, LogTypes
  <2> QED
    BY <1>1, <1>2, <1>3, <1>6, <1>7, <2>1, <2>2 DEF Types, LogTypes, Made
<1>10. MadeTypes' /\ RefTypes'
  BY <1>2, <1>3 DEF Types, MadeTypes, RefTypes, MadeOrNone, Made, env
<1> QED
  BY <1>4, <1>5, <1>8, <1>9, <1>10 DEF CommitInv, Types

LEMMA CommitStutter ==
  ASSUME CommitInv, UNCHANGED vars PROVE CommitInv'
<1>1. /\ UNCHANGED <<worktree, edits, made, packs, log, synced, ref, file, witness>>
      /\ UNCHANGED <<repoLock, refsLock, logLock, pc, mem, view, prev, next, since, tip, todo>>
  BY DEF vars, env, disk, locks, call
<1>2. MadeTypes' /\ LogTypes' /\ RefTypes' /\ LockTypes'
  BY <1>1 DEF CommitInv, Types, MadeTypes, LogTypes, RefTypes, LockTypes, MadeOrNone, Made
<1>3. CallTypes'
  BY <1>1 DEF CommitInv, Types, CallTypes, MadeOrNone, Made
<1>4. ExactlyOnce' /\ \A p \in Proc : ViewAt(p)' /\ LockAt(p)'
  BY <1>1 DEF CommitInv, ExactlyOnce, ViewAt, LockAt, Transactions
<1> QED
  BY <1>2, <1>3, <1>4 DEF CommitInv, Types

LEMMA CommitPreserved ==
  ASSUME CommitInv, [Next]_vars PROVE CommitInv'
<1>1. ASSUME NEW p \in Proc,
             OpenList(p) \/ OpenClassify(p) \/ RecoverNext(p) \/ GiveUp(p)
               \/ \E a \in todo[p] : Replay(p, a)
      PROVE  CommitInv'
  BY <1>1, OpenListStep, OpenClassifyStep, RecoverNextStep, GiveUpStep, ReplayStep
<1>2. ASSUME NEW p \in Proc,
             ReadThread(p) \/ ReadHead(p) \/ Build(p) \/ Recheck(p) \/ ReadSince(p)
      PROVE  CommitInv'
  BY <1>2, ReadThreadStep, ReadHeadStep, BuildStep, RecheckStep, ReadSinceStep
<1>3. ASSUME NEW p \in Proc,
             \/ AlreadyCommitted(p) \/ IsolationConflict(p) \/ Install(p) \/ CaptureFails(p)
             \/ AppendView(p) \/ PublishSnapshot(p) \/ PublishFails(p)
      PROVE  CommitInv'
  BY <1>3, AlreadyCommittedStep, IsolationConflictStep, InstallStep, CaptureFailsStep,
     AppendViewStep, PublishSnapshotStep
<1>4. ASSUME NEW p \in Proc,
             (\E s \in State : MoveLock(p, s)) \/ MoveCommit(p) \/ MovePublish(p)
               \/ Exit(p) \/ Crash(p)
      PROVE  CommitInv'
  BY <1>4, MoveLockStep, MoveCommitStep, MovePublishStep, ExitStep
<1> QED
  BY <1>1, <1>2, <1>3, <1>4, PowerLossStep, EditStep, CommitStutter DEF Next

LEMMA CommitInvariant == Spec => []CommitInv
<1>1. Init => CommitInv
  BY CommitInitially
<1>2. CommitInv /\ [Next]_vars => CommitInv'
  BY CommitPreserved
<1> QED
  BY <1>1, <1>2, PTL DEF Spec

(* The variables keep their types. *)
THEOREM TypesHold == Spec => []TypeOK
<1>1. CommitInv /\ Flags => TypeOK
  BY TypesSuffice DEF CommitInv
<1>2. Init => Flags
  BY DEF Init, Flags
<1>3. Flags /\ [Next]_vars => Flags'
  BY FlagsStep
<1> QED
  BY <1>1, <1>2, <1>3, CommitInvariant, PTL DEF Spec

(* A transaction is in the log at most once, however often captures are    *)
(* retried (commit_reconstructible_batch_if_unchanged) and packs replayed  *)
(* (record_batch_exactly_once_if_unchanged), whatever crashes in between.  *)
THEOREM CommitsExactlyOnce == Spec => []ExactlyOnce
<1>1. CommitInv => ExactlyOnce
  BY DEF CommitInv
<1> QED
  BY <1>1, CommitInvariant, PTL

(***************************************************************************)
(* Packs and the log.  The packs that the log lacks come after its last    *)
(* batch, one per position, so that a replay in the order of their         *)
(* positions puts each batch where it was.                                 *)
(***************************************************************************)
LostOf(ps, l) == {a \in ps : a.tx \notin TxsOf(l)}

Fits(ps, l) ==
  /\ \A i \in 1..Len(l) : l[i].tx # None => \E a \in ps : a.base = i - 1 /\ BatchOf(a) = l[i]
  /\ \A a, b \in ps : a.tx = b.tx => a = b
  /\ \A a, b \in LostOf(ps, l) : a.base = b.base => a = b

(* The positions of the packs that l lacks are those below h *)
LostFrom(ps, l, h) == Len(l) <= h /\ {a.base : a \in LostOf(ps, l)} = Len(l)..(h - 1)

TopOf(ps, l) == CHOOSE h \in Nat : LostFrom(ps, l, h)

(* There is only one such h. *)
LEMMA TopIs ==
  ASSUME NEW ps, NEW l, Len(l) \in Nat, NEW h \in Nat, LostFrom(ps, l, h)
  PROVE  TopOf(ps, l) = h
<1>1. ASSUME NEW g \in Nat, LostFrom(ps, l, g) PROVE g = h
  <2>1. Len(l)..(g - 1) = Len(l)..(h - 1) /\ Len(l) <= g /\ Len(l) <= h
    BY <1>1 DEF LostFrom
  <2>2. CASE g < h
    <3>1. h - 1 \in Len(l)..(h - 1) /\ h - 1 \notin Len(l)..(g - 1)
      BY <2>1, <2>2
    <3> QED
      BY <2>1, <3>1
  <2>3. CASE h < g
    <3>1. g - 1 \in Len(l)..(g - 1) /\ g - 1 \notin Len(l)..(h - 1)
      BY <2>1, <2>3
    <3> QED
      BY <2>1, <3>1
  <2> QED
    BY <2>2, <2>3
<1> QED
  BY <1>1 DEF TopOf

(* A pack that the log has is at its position. *)
LEMMA InLog ==
  ASSUME NEW ps, NEW l, Fits(ps, l), NEW a \in ps, a \notin LostOf(ps, l)
  PROVE  \E i \in 1..Len(l) : a.base = i - 1 /\ l[i] = BatchOf(a)
<1>1. a.tx \in TxsOf(l)
  BY DEF LostOf
<1>2. PICK i \in 1..Len(l) : l[i].tx = a.tx /\ a.tx # None
  BY <1>1 DEF TxsOf
<1>3. PICK b \in ps : b.base = i - 1 /\ BatchOf(b) = l[i]
  BY <1>2 DEF Fits
<1>4. b.tx = a.tx
  BY <1>2, <1>3 DEF BatchOf
<1>5. b = a
  BY <1>4 DEF Fits
<1> QED
  BY <1>3, <1>5

(* The pack that comes next is appended. *)
LEMMA LostAppended ==
  ASSUME NEW ps, NEW l, NEW h \in Nat, Fits(ps, l), LostFrom(ps, l, h),
         NEW a \in LostOf(ps, l), a.base = Len(l), a.tx # None,
         NEW k, Extended(l, BatchOf(a), k)
  PROVE  /\ LostOf(ps, k) = LostOf(ps, l) \ {a}
         /\ Fits(ps, k) /\ LostFrom(ps, k, h)
<1>1. /\ Len(k) = Len(l) + 1 /\ Len(l) \in Nat /\ \A i \in 1..Len(l) : k[i] = l[i]
      /\ k[Len(l) + 1] = BatchOf(a) /\ BatchOf(a).tx = a.tx /\ a \in ps
  BY DEF Extended, BatchOf, LostOf
<1>2. TxsOf(k) = TxsOf(l) \union {a.tx}
  BY <1>1, ExtendedTxs
<1>3. \A b \in ps : b.tx = a.tx <=> b = a
  BY <1>1 DEF Fits
<1>4. LostOf(ps, k) = LostOf(ps, l) \ {a}
  BY <1>2, <1>3 DEF LostOf
<1>5. ASSUME NEW i \in 1..Len(k), k[i].tx # None
      PROVE  \E b \in ps : b.base = i - 1 /\ BatchOf(b) = k[i]
  <2>1. CASE i \in 1..Len(l)
    BY <1>1, <1>5, <2>1 DEF Fits
  <2>2. CASE i = Len(l) + 1
    BY <1>1, <2>2
  <2> QED
    BY <1>1, <2>1, <2>2
<1>6. Fits(ps, k)
  BY <1>4, <1>5 DEF Fits
<1>7. Len(l) \in Len(l)..(h - 1) /\ {b.base : b \in LostOf(ps, l)} = Len(l)..(h - 1)
  BY DEF LostFrom
<1>8. {b.base : b \in LostOf(ps, k)} = Len(k)..(h - 1)
  <2>1. ASSUME NEW b \in LostOf(ps, k) PROVE b.base \in Len(k)..(h - 1)
    <3>1. b \in LostOf(ps, l) /\ b # a
      BY <1>4
    <3>2. b.base \in Len(l)..(h - 1) /\ b.base # Len(l)
      BY <1>7, <3>1 DEF Fits
    <3> QED
      BY <1>1, <3>2
  <2>2. ASSUME NEW m \in Len(k)..(h - 1) PROVE \E b \in LostOf(ps, k) : b.base = m
    <3>1. m \in Len(l)..(h - 1) /\ m # Len(l)
      BY <1>1
    <3>2. PICK b \in LostOf(ps, l) : b.base = m
      BY <1>7, <3>1
    <3> QED
      BY <1>4, <3>1, <3>2
  <2> QED
    BY <2>1, <2>2
<1>9. Len(k) <= h
  BY <1>1, <1>7
<1> QED
  BY <1>4, <1>6, <1>8, <1>9 DEF LostFrom

(* A power failure takes unsynced batches: their packs are lost ones, at   *)
(* the positions that follow what is left.                                 *)
LEMMA Truncated ==
  ASSUME NEW ps, NEW l, NEW h \in Nat, Fits(ps, l), LostFrom(ps, l, h), Once(l),
         \A a \in ps : a.tx # None,
         NEW n, NEW k, Prefixed(l, n, k), \A i \in n + 1..Len(l) : l[i].tx # None
  PROVE  Fits(ps, k) /\ LostFrom(ps, k, h)
<1>1. /\ Len(k) = n /\ n \in Nat /\ Len(l) \in Nat /\ n <= Len(l)
      /\ \A i \in 1..n : i \in 1..Len(l) /\ k[i] = l[i]
  BY DEF Prefixed
<1>2. LostOf(ps, l) \subseteq LostOf(ps, k)
  <2>1. TxsOf(k) \subseteq TxsOf(l)
    BY <1>1 DEF TxsOf
  <2> QED
    BY <2>1 DEF LostOf
<1>3. ASSUME NEW b \in LostOf(ps, k), b \notin LostOf(ps, l)
      PROVE  \E i \in n + 1..Len(l) : b.base = i - 1 /\ l[i] = BatchOf(b)
  <2>1. b \in ps /\ b.tx \notin TxsOf(k) /\ b.tx # None
    BY DEF LostOf
  <2>2. PICK i \in 1..Len(l) : b.base = i - 1 /\ l[i] = BatchOf(b)
    BY <1>3, <2>1, InLog
  <2>3. l[i].tx = b.tx
    BY <2>2 DEF BatchOf
  <2>4. i \notin 1..n
    BY <1>1, <2>1, <2>3 DEF TxsOf
  <2> QED
    BY <1>1, <2>2, <2>4
<1>4. ASSUME NEW i \in n + 1..Len(l)
      PROVE  \E b \in LostOf(ps, k) : b.base = i - 1
  <2>1. i \in 1..Len(l) /\ i \notin 1..n /\ l[i].tx # None
    BY <1>1
  <2>2. PICK b \in ps : b.base = i - 1 /\ BatchOf(b) = l[i]
    BY <2>1 DEF Fits
  <2>3. b.tx = l[i].tx
    BY <2>2 DEF BatchOf
  <2>4. ASSUME NEW j \in 1..n PROVE k[j].tx # b.tx
    BY <1>1, <2>1, <2>3 DEF Once
  <2>5. b.tx \notin TxsOf(k)
    BY <1>1, <2>4 DEF TxsOf
  <2> QED
    BY <2>2, <2>5 DEF LostOf
<1>5. Len(l) <= h /\ {b.base : b \in LostOf(ps, l)} = Len(l)..(h - 1)
  BY DEF LostFrom
<1>6. ASSUME NEW b \in LostOf(ps, k)
      PROVE  \/ b \in LostOf(ps, l) /\ b.base \in Len(l)..(h - 1)
             \/ /\ b \notin LostOf(ps, l) /\ b.base \in n..(Len(l) - 1)
                /\ l[b.base + 1] = BatchOf(b)
  <2>1. CASE b \in LostOf(ps, l)
    BY <1>5, <2>1
  <2>2. CASE b \notin LostOf(ps, l)
    <3>1. PICK i \in n + 1..Len(l) : b.base = i - 1 /\ l[i] = BatchOf(b)
      BY <1>3, <2>2
    <3>2. b.base \in n..(Len(l) - 1) /\ b.base + 1 = i
      BY <1>1, <3>1
    <3> QED
      BY <2>2, <3>1, <3>2
  <2> QED
    BY <2>1, <2>2
<1>7. {b.base : b \in LostOf(ps, k)} = n..(h - 1)
  <2>1. ASSUME NEW b \in LostOf(ps, k) PROVE b.base \in n..(h - 1)
    BY <1>1, <1>5, <1>6
  <2>2. ASSUME NEW m \in n..(h - 1) PROVE \E b \in LostOf(ps, k) : b.base = m
    <3>1. CASE m \in Len(l)..(h - 1)
      BY <1>2, <1>5, <3>1
    <3>2. CASE m \notin Len(l)..(h - 1)
      <4>1. m + 1 \in n + 1..Len(l) /\ (m + 1) - 1 = m
        BY <1>1, <3>2
      <4> QED
        BY <1>4, <4>1
    <3> QED
      BY <3>1, <3>2
  <2> QED
    BY <2>1, <2>2
<1>8. ASSUME NEW a \in LostOf(ps, k), NEW b \in LostOf(ps, k), a.base = b.base PROVE a = b
  <2>1. a \in ps /\ b \in ps
    BY DEF LostOf
  <2>2. a \in LostOf(ps, l) <=> b \in LostOf(ps, l)
    BY <1>1, <1>6, <1>8
  <2>3. CASE a \in LostOf(ps, l)
    BY <1>8, <2>2, <2>3 DEF Fits
  <2>4. CASE a \notin LostOf(ps, l)
    <3>1. BatchOf(a) = BatchOf(b)
      BY <1>6, <1>8, <2>2, <2>4
    <3>2. a.tx = b.tx
      BY <3>1 DEF BatchOf
    <3> QED
      BY <2>1, <3>2 DEF Fits
  <2> QED
    BY <2>3, <2>4
<1>9. Fits(ps, k)
  BY <1>1, <1>8 DEF Fits
<1> QED
  BY <1>1, <1>5, <1>7, <1>9 DEF LostFrom

(* A pack is installed when the log has all the others. *)
LEMMA PackInstalled ==
  ASSUME NEW ps, NEW l, Len(l) \in Nat, Fits(ps, l), LostOf(ps, l) = {},
         NEW a, a.tx \notin TxsOf(l), a.base = Len(l), NEW qs, qs = ps \union {a}
  PROVE  LostOf(qs, l) = {a} /\ Fits(qs, l) /\ LostFrom(qs, l, Len(l) + 1)
<1>1. LostOf(qs, l) = {a}
  BY DEF LostOf
<1>2. \A b \in ps : b.tx # a.tx
  BY DEF LostOf
<1>3. Fits(qs, l)
  BY <1>1, <1>2 DEF Fits
<1>4. {b.base : b \in LostOf(qs, l)} = {Len(l)}
  BY <1>1
<1>5. Len(l)..((Len(l) + 1) - 1) = {Len(l)} /\ Len(l) <= Len(l) + 1
  OBVIOUS
<1> QED
  BY <1>1, <1>3, <1>4, <1>5 DEF LostFrom

(* Another kind of batch is appended when the log has all packs. *)
LEMMA MoveAppended ==
  ASSUME NEW ps, NEW l, Fits(ps, l), LostOf(ps, l) = {},
         NEW b, b.tx = None, NEW k, Extended(l, b, k)
  PROVE  LostOf(ps, k) = {} /\ Fits(ps, k) /\ LostFrom(ps, k, Len(l) + 1)
<1>1. /\ Len(k) = Len(l) + 1 /\ Len(l) \in Nat /\ \A i \in 1..Len(l) : k[i] = l[i]
      /\ k[Len(l) + 1] = b
  BY DEF Extended
<1>2. TxsOf(k) = TxsOf(l)
  BY ExtendedTxs
<1>3. LostOf(ps, k) = {}
  BY <1>2 DEF LostOf
<1>4. ASSUME NEW i \in 1..Len(k), k[i].tx # None
      PROVE  \E a \in ps : a.base = i - 1 /\ BatchOf(a) = k[i]
  <2>1. i \in 1..Len(l)
    BY <1>1, <1>4
  <2> QED
    BY <1>1, <1>4, <2>1 DEF Fits
<1>5. Fits(ps, k)
  BY <1>3, <1>4 DEF Fits
<1>6. Len(k)..((Len(l) + 1) - 1) = {} /\ Len(k) <= Len(l) + 1
  BY <1>1
<1> QED
  BY <1>3, <1>5, <1>6 DEF LostFrom

(***************************************************************************)
(* What an open relies on, until a process commits over a lost batch.      *)
(***************************************************************************)
Top == TopOf(packs, log)

(* An open that is to replay a lost pack is to replay all those before it   *)
Handled(p) ==
  \A a, b \in LostOf(packs, log) : a \in todo[p] /\ b.base <= a.base => b \in todo[p]

Synced(l, n) == \A i \in n + 1..Len(l) : l[i].tx # None

ReplayInv ==
  /\ Fits(packs, log)
  /\ Top \in Nat /\ LostFrom(packs, log, Top)
  /\ file <= Top
  /\ Synced(log, synced)
  /\ \A p \in Proc : Handled(p)

LEMMA ReplayInitially == Init => ReplayInv
<1> SUFFICES ASSUME Init PROVE ReplayInv
  OBVIOUS
<1>1. /\ log = << >> /\ Len(<< >>) = 0 /\ Len(log) = 0 /\ packs = {} /\ file = 0 /\ synced = 0
      /\ 1..0 = {} /\ 0..(0 - 1) = {} /\ 0 + 1..0 = {}
  BY DEF Init
<1>2. LostOf(packs, log) = {}
  BY <1>1 DEF LostOf
<1>3. LostFrom(packs, log, 0)
  BY <1>1, <1>2 DEF LostFrom
<1>4. Top = 0
  BY <1>1, <1>3, TopIs DEF Top
<1>5. Fits(packs, log) /\ Synced(log, synced)
  BY <1>1, <1>2 DEF Fits, Synced
<1>6. ASSUME NEW p \in Proc PROVE Handled(p)
  BY <1>2 DEF Handled
<1> QED
  BY <1>1, <1>3, <1>4, <1>5, <1>6 DEF ReplayInv

(* A step that leaves packs, log and workers alone. *)
LEMMA QuietStep ==
  ASSUME ReplayInv, UNCHANGED <<packs, log, synced, view>>, file' <= Top,
         \A q \in Proc : Handled(q)'
  PROVE  ReplayInv' /\ Top' = Top
<1>1. Top' = Top
  BY DEF Top
<1> QED
  BY <1>1 DEF ReplayInv

LEMMA HandledStays ==
  ASSUME NEW q \in Proc, Handled(q), UNCHANGED <<packs, log>>, todo'[q] = todo[q]
  PROVE  Handled(q)'
  BY DEF Handled

(* A step of a call. *)
LEMMA CallQuiet ==
  ASSUME ReplayInv, UNCHANGED <<packs, log, synced, view, todo>>,
         file' = file \/ file' = Len(log)
  PROVE  ReplayInv' /\ Top' = Top
<1>1. file' <= Top
  BY DEF ReplayInv, LostFrom
<1>2. \A q \in Proc : Handled(q)'
  BY HandledStays DEF ReplayInv
<1> QED
  BY <1>1, <1>2, QuietStep

(* The steps of captures and moves that only call CallQuiet. *)
LEMMA CallsQuiet ==
  ASSUME CommitInv, ReplayInv, NEW p \in Proc,
         \/ ReadThread(p) \/ ReadHead(p) \/ Build(p) \/ Recheck(p) \/ ReadSince(p) \/ AlreadyCommitted(p)
         \/ IsolationConflict(p) \/ CaptureFails(p) \/ PublishSnapshot(p) \/ PublishFails(p)
         \/ (\E s \in State : MoveLock(p, s)) \/ MovePublish(p)
  PROVE  ReplayInv' /\ Top' = Top
<1>1. UNCHANGED <<packs, log, synced, view, todo>>
  BY DEF ReadThread, ReadHead, Build, Recheck, ReadSince, AlreadyCommitted, IsolationConflict,
         CaptureFails, PublishSnapshot, PublishFails, MoveLock, MovePublish, disk
<1>2. file' = file \/ file' = Len(log)
  <2>1. PICK w \in BOOLEAN : w = Witnessed
    BY DEF Witnessed
  <2>2. CASE ReadThread(p) \/ ReadHead(p) \/ Recheck(p)
    <3>1. ReadEffect(p, w)
      BY <2>1, <2>2 DEF ReadThread, ReadHead, Recheck
    <3> QED
      BY <3>1, ReadFacts
  <2>3. CASE \E s \in State : MoveLock(p, s)
    <3>1. ReadEffect(p, FALSE)
      BY <2>3 DEF MoveLock
    <3> QED
      BY <3>1, ReadFacts
  <2>4. CASE \/ Build(p) \/ ReadSince(p) \/ AlreadyCommitted(p)
             \/ IsolationConflict(p) \/ CaptureFails(p) \/ PublishSnapshot(p) \/ PublishFails(p)
             \/ MovePublish(p)
    BY <2>4 DEF Build, ReadSince, AlreadyCommitted, IsolationConflict, CaptureFails,
                PublishSnapshot, PublishFails, MovePublish, disk
  <2> QED
    BY <2>2, <2>3, <2>4
<1> QED
  BY <1>1, <1>2, CallQuiet

(* The steps of an open before it replays. *)
LEMMA OpensQuiet ==
  ASSUME CommitInv, ReplayInv, NEW p \in Proc,
         OpenList(p) \/ OpenClassify(p) \/ RecoverNext(p) \/ GiveUp(p)
  PROVE  ReplayInv' /\ Top' = Top
<1>1. UNCHANGED <<packs, log, synced, view, file>>
  BY DEF OpenList, OpenClassify, RecoverNext, GiveUp, disk
<1>2. todo \in [Proc -> SUBSET packs] /\ Handled(p) /\ TxsOf(log) = Transactions
  BY DEF CommitInv, Types, CallTypes, ReplayInv, TxsOf, Transactions
<1>3. \A q \in Proc : q # p => todo'[q] = todo[q]
  BY <1>2 DEF OpenList, OpenClassify, RecoverNext, GiveUp
<1>4. \/ todo'[p] \in {todo[p], packs, {}}
      \/ todo'[p] = {a \in todo[p] : a.tx \notin Transactions}
  BY <1>2 DEF OpenList, OpenClassify, RecoverNext, GiveUp
<1>5. Handled(p)'
  BY <1>1, <1>2, <1>4 DEF Handled, LostOf
<1>6. \A q \in Proc : q # p => Handled(q)'
  BY <1>1, <1>3, HandledStays DEF ReplayInv
<1>7. file' <= Top
  BY <1>1 DEF ReplayInv
<1> QED
  BY <1>1, <1>5, <1>6, <1>7, QuietStep

(* A call that got the log lock, and did not go over a lost batch, has     *)
(* everything in the log.                                                  *)
LEMMA NothingLost ==
  ASSUME CommitInv, logLock = None, overtaken' = (overtaken \/ Abandoned # {}), ~overtaken'
  PROVE  LostOf(packs, log) = {}
<1>1. \A q \in Proc : view[q] = None
  BY OtherViews, SnapshotCommitAssumption
<1>2. Abandoned = {}
  OBVIOUS
<1>3. \A a \in packs : a # None
  BY NoneAssumption DEF CommitInv, Types, LogTypes
<1>4. TxsOf(log) = Transactions
  BY DEF TxsOf, Transactions
<1> QED
  BY <1>1, <1>2, <1>3, <1>4 DEF Abandoned, Lost, LostOf

(* Every nonempty set of positions has a smallest one. *)
LEMMA LeastPosition ==
  ASSUME NEW T, T \subseteq Nat, T # {}
  PROVE  Min(T) \in T /\ \A y \in T : Min(T) <= y
<1>1. \E R : IsWellFoundedOn(R, Nat) /\ \A x, y \in Nat : x < y => <<x, y>> \in R
  <2>1. \A x, y \in Nat : x < y => <<x, y>> \in OpToRel(<, Nat)
    BY DEF OpToRel
  <2> QED
    BY <2>1, NatLessThanWellFounded, Zenon
<1>2. PICK R : IsWellFoundedOn(R, Nat) /\ \A x, y \in Nat : x < y => <<x, y>> \in R
  BY <1>1
<1>3. IsWellFoundedOn(R, Nat)
  BY <1>2
<1>4. \E x \in T : \A y \in T : ~(<<y, x>> \in R)
  BY <1>3, WFMin
<1>5. PICK x \in T : \A y \in T : ~(<<y, x>> \in R)
  BY <1>4, Zenon
<1>6. \A y \in T : ~(y < x)
  BY <1>2, <1>5, Zenon
<1>7. \A y \in T : x <= y
  BY <1>6
<1> QED
  BY <1>7 DEF Min

(* The log and the packs change so that everything below Top is kept. *)
LEMMA ChangedStep ==
  ASSUME ReplayInv, NEW h \in Nat, Top <= h, Fits(packs', log'), Len(log') \in Nat,
         LostFrom(packs', log', h), file' = file, file \in Nat, Synced(log', synced'),
         \A q \in Proc : Handled(q)'
  PROVE  ReplayInv' /\ Top' = h
<1>1. Top' = h
  BY TopIs DEF Top
<1>2. file' <= Top'
  BY <1>1 DEF ReplayInv
<1> QED
  BY <1>1, <1>2 DEF ReplayInv

LEMMA InstallReplay ==
  ASSUME ~overtaken', CommitInv, ReplayInv, NEW p \in Proc, Install(p)
  PROVE  ReplayInv' /\ Top' = Top + 1
<1>1. PICK a : a = NewArtifact(p)
  OBVIOUS
<1>2. /\ a.base = Len(log) /\ a.tx \notin Transactions
      /\ packs' = packs \union {a} /\ view' = [view EXCEPT ![p] = a]
      /\ logLock = None /\ pc[p] = "commit" /\ pc' = [pc EXCEPT ![p] = "publish"]
      /\ UNCHANGED <<log, synced, file, todo>>
  BY <1>1, InstallFacts
<1>3. /\ Fits(packs, log) /\ Top \in Nat /\ LostFrom(packs, log, Top)
      /\ Len(log) \in Nat /\ file \in Nat /\ TxsOf(log) = Transactions
  BY SnapshotCommitAssumption
     DEF ReplayInv, CommitInv, Types, LogTypes, RefTypes, TxsOf, Transactions
<1>4. overtaken' = (overtaken \/ Abandoned # {})
  BY DEF Install
<1>5. LostOf(packs, log) = {}
  BY <1>2, <1>4, NothingLost
<1>6. Top = Len(log)
  <2>1. LostFrom(packs, log, Len(log))
    BY <1>3, <1>5 DEF LostFrom
  <2> QED
    BY <1>3, <2>1, TopIs DEF Top
<1>7. LostOf(packs', log') = {a} /\ Fits(packs', log') /\ LostFrom(packs', log', Len(log) + 1)
  <2>1. PICK qs : qs = packs \union {a}
    OBVIOUS
  <2>2. LostOf(qs, log) = {a} /\ Fits(qs, log) /\ LostFrom(qs, log, Len(log) + 1)
    BY <1>2, <1>3, <1>5, <2>1, PackInstalled
  <2> QED
    BY <1>2, <2>1, <2>2
<1>8. a \notin packs
  BY <1>2, <1>3, <1>5 DEF LostOf
<1>9. ASSUME NEW q \in Proc PROVE Handled(q)'
  BY <1>2, <1>7, <1>8 DEF Handled, CommitInv, Types, CallTypes
<1>10. Synced(log', synced')
  BY <1>2 DEF ReplayInv, Synced
<1>11. Len(log) + 1 \in Nat /\ Top <= Len(log) + 1 /\ Len(log') \in Nat
  BY <1>2, <1>3, <1>6
<1> QED
  BY <1>2, <1>3, <1>6, <1>7, <1>9, <1>10, <1>11, ChangedStep

LEMMA AppendViewReplay ==
  ASSUME CommitInv, ReplayInv, NEW p \in Proc, AppendView(p)
  PROVE  ReplayInv' /\ Top' = Top
<1>1. PICK a : a = view[p]
  OBVIOUS
<1>2. /\ a \in packs /\ a.tx \notin Transactions /\ logLock = p /\ a.base = Len(log) /\ a # None
  BY <1>1 DEF CommitInv, AppendView, ViewAt
<1>3. /\ log' = Append(log, BatchOf(a)) /\ view' = [view EXCEPT ![p] = None]
      /\ UNCHANGED <<packs, synced, file, pc, todo>>
  BY <1>1 DEF AppendView
<1>4. BatchOf(a) \in Batch /\ BatchOf(a).tx = a.tx /\ a.tx # None
  BY <1>2, ArtifactBatch
<1>5. /\ Fits(packs, log) /\ Top \in Nat /\ LostFrom(packs, log, Top) /\ log \in Seq(Batch)
      /\ Len(log) \in Nat /\ file \in Nat /\ TxsOf(log) = Transactions /\ synced \in Nat
  BY SnapshotCommitAssumption
     DEF ReplayInv, CommitInv, Types, LogTypes, RefTypes, TxsOf, Transactions
<1>6. a \in LostOf(packs, log)
  BY <1>2, <1>5 DEF LostOf
<1>7. PICK k : k = Append(log, BatchOf(a))
  OBVIOUS
<1>8. Extended(log, BatchOf(a), k)
  BY <1>4, <1>5, <1>7, AppendExtends
<1>9. LostOf(packs, k) = LostOf(packs, log) \ {a} /\ Fits(packs, k) /\ LostFrom(packs, k, Top)
  BY <1>2, <1>4, <1>5, <1>6, <1>8, LostAppended
<1>10. ASSUME NEW q \in Proc PROVE Handled(q)'
  BY <1>3, <1>7, <1>9 DEF ReplayInv, Handled
<1>11. Synced(k, synced) /\ Len(k) \in Nat
  <2>1. /\ Len(k) = Len(log) + 1 /\ \A i \in 1..Len(log) : k[i] = log[i]
        /\ k[Len(log) + 1].tx # None
    BY <1>4, <1>8 DEF Extended
  <2>2. \A i \in synced + 1..Len(k) : i \in synced + 1..Len(log) \/ i = Len(log) + 1
    BY <1>5, <2>1
  <2>3. \A i \in synced + 1..Len(log) : i \in 1..Len(log)
    BY <1>5
  <2> QED
    BY <1>5, <2>1, <2>2, <2>3 DEF ReplayInv, Synced
<1> QED
  BY <1>3, <1>5, <1>7, <1>9, <1>10, <1>11, ChangedStep

LEMMA ReplayReplay ==
  ASSUME CommitInv, ReplayInv, NEW p \in Proc, NEW a \in todo[p], Replay(p, a)
  PROVE  ReplayInv' /\ Top' = Top
<1>1. /\ todo \in [Proc -> SUBSET packs] /\ pc \in [Proc -> PcValues] /\ Handled(p)
      /\ packs \subseteq Artifact
  BY DEF CommitInv, Types, CallTypes, ReplayInv, LogTypes
<1>2. /\ UNCHANGED <<packs, file, view>> /\ logLock = None /\ pc[p] = "replay"
      /\ pc' = [pc EXCEPT ![p] = "recover"]
      /\ todo' = [todo EXCEPT ![p] = {b \in todo[p] : b.tx # a.tx}]
      /\ a.base = Min({b.base : b \in todo[p]})
  BY DEF Replay, Goto
<1>3. /\ Fits(packs, log) /\ Top \in Nat /\ LostFrom(packs, log, Top) /\ log \in Seq(Batch)
      /\ Len(log) \in Nat /\ file \in Nat /\ TxsOf(log) = Transactions
      /\ file <= Top /\ Synced(log, synced)
  BY SnapshotCommitAssumption
     DEF ReplayInv, CommitInv, Types, LogTypes, RefTypes, TxsOf, Transactions
<1>4. /\ pc'[p] = "recover" /\ todo'[p] = {b \in todo[p] : b.tx # a.tx}
      /\ \A q \in Proc : q # p => pc'[q] = pc[q] /\ todo'[q] = todo[q]
  BY <1>1, <1>2
<1>5. CASE a.tx \in Transactions /\ UNCHANGED <<log, synced>>
  <2>1. Handled(p)'
    <3>1. \A b \in LostOf(packs, log) : b.tx # a.tx
      BY <1>3, <1>5 DEF LostOf
    <3>2. \A b \in LostOf(packs, log) : b \in todo'[p] <=> b \in todo[p]
      BY <1>4, <3>1
    <3> QED
      BY <1>1, <1>2, <1>5, <3>2 DEF Handled
  <2>2. \A q \in Proc : q # p => Handled(q)'
    BY <1>2, <1>4, <1>5, HandledStays DEF ReplayInv
  <2> QED
    BY <1>2, <1>3, <1>5, <2>1, <2>2, QuietStep
<1>6. CASE a.tx \notin Transactions /\ log' = Append(log, BatchOf(a)) /\ synced' = Len(log')
  <2>4. a \in packs /\ a \in LostOf(packs, log)
    BY <1>1, <1>3, <1>6 DEF LostOf
  <2>5. a.base = Len(log)
    <3>1. {b.base : b \in LostOf(packs, log)} = Len(log)..(Top - 1)
      BY <1>3 DEF LostFrom
    <3>2. a.base \in Len(log)..(Top - 1)
      BY <2>4, <3>1
    <3>3. Len(log) \in Len(log)..(Top - 1)
      BY <1>3, <3>2
    <3>4. PICK b \in LostOf(packs, log) : b.base = Len(log)
      BY <3>1, <3>3
    <3>5. PICK T : T = {c.base : c \in todo[p]}
      OBVIOUS
    <3>8. b \in todo[p]
      BY <1>1, <1>3, <2>4, <3>2, <3>4 DEF Handled
    <3>6. T \subseteq Nat /\ T # {} /\ Len(log) \in T
      BY <1>1, <3>4, <3>5, <3>8 DEF Artifact
    <3>7. a.base <= Len(log)
      BY <1>2, <3>5, <3>6, LeastPosition
    <3> QED
      BY <1>3, <3>2, <3>7
  <2>6. BatchOf(a) \in Batch /\ a.tx # None
    BY <2>4, ArtifactBatch
  <2>7. PICK k : k = Append(log, BatchOf(a))
    OBVIOUS
  <2>8. Extended(log, BatchOf(a), k)
    BY <1>3, <2>6, <2>7, AppendExtends
  <2>9. LostOf(packs, k) = LostOf(packs, log) \ {a} /\ Fits(packs, k) /\ LostFrom(packs, k, Top)
    BY <1>3, <2>4, <2>5, <2>6, <2>8, LostAppended
  <2>10. Handled(p)'
    <3>1. \A b \in LostOf(packs, k) : b \in LostOf(packs, log) /\ b \in packs /\ b # a
      BY <2>9 DEF LostOf
    <3>2. \A b \in LostOf(packs, k) : b.tx # a.tx
      BY <1>3, <2>4, <3>1 DEF Fits
    <3>3. \A b \in LostOf(packs, k) : b \in todo'[p] <=> b \in todo[p]
      BY <1>4, <3>2
    <3> QED
      BY <1>1, <1>2, <1>6, <2>7, <3>1, <3>3 DEF Handled
  <2>11. ASSUME NEW q \in Proc, q # p PROVE Handled(q)'
    BY <1>2, <1>4, <1>6, <2>7, <2>9, <2>11 DEF ReplayInv, Handled
  <2>12. Synced(k, Len(k)) /\ Len(k) \in Nat
    BY <2>8 DEF Synced, Extended
  <2> QED
    BY <1>2, <1>3, <1>6, <2>7, <2>9, <2>10, <2>11, <2>12, ChangedStep
<1> QED
  BY <1>5, <1>6 DEF Replay

LEMMA MoveCommitReplay ==
  ASSUME ~overtaken', CommitInv, ReplayInv, NEW p \in Proc, MoveCommit(p)
  PROVE  ReplayInv' /\ \E i \in 1..Len(log') : log'[i].tx = None
<1>1. PICK b : b = [tx |-> None, new |-> next[p], prev |-> ref]
  OBVIOUS
<1>2. /\ UNCHANGED <<packs, file, view, todo>> /\ logLock = None /\ pc[p] = "move"
      /\ pc' = [pc EXCEPT ![p] = "moved"] /\ log' = Append(log, b) /\ synced' = Len(log')
  BY <1>1 DEF MoveCommit, Goto
<1>3. /\ Fits(packs, log) /\ Top \in Nat /\ LostFrom(packs, log, Top)
      /\ Len(log) \in Nat /\ file \in Nat /\ log \in Seq(Batch)
  BY SnapshotCommitAssumption DEF ReplayInv, CommitInv, Types, LogTypes, RefTypes
<1>4. overtaken' = (overtaken \/ Abandoned # {})
  BY DEF MoveCommit
<1>5. LostOf(packs, log) = {}
  BY <1>2, <1>4, NothingLost
<1>6. Top = Len(log)
  <2>1. LostFrom(packs, log, Len(log))
    BY <1>3, <1>5 DEF LostFrom
  <2> QED
    BY <1>3, <2>1, TopIs DEF Top
<1>7. b \in Batch /\ b.tx = None
  <2>1. next[p] \in Made /\ Types /\ ref \in MadeOrNone
    BY <1>2 DEF CommitInv, Types, CallTypes, RefTypes, Naming, Moving
  <2>2. next[p] \in State /\ ref \in StateOrNone
    BY <2>1, SnapshotCommitAssumption
       DEF Made, MadeOrNone, State, StateOrNone, Types, MadeTypes
  <2> QED
    BY <1>1, <2>1, <2>2 DEF Batch
<1>8. PICK k : k = Append(log, b)
  OBVIOUS
<1>9. Extended(log, b, k)
  BY <1>3, <1>7, <1>8, AppendExtends
<1>10. LostOf(packs, k) = {} /\ Fits(packs, k) /\ LostFrom(packs, k, Len(log) + 1)
  BY <1>3, <1>5, <1>7, <1>9, MoveAppended
<1>11. ASSUME NEW q \in Proc PROVE Handled(q)'
  BY <1>2, <1>8, <1>10 DEF Handled
<1>12. /\ Synced(k, Len(k)) /\ Len(k) \in Nat /\ Len(k) = Len(log) + 1
       /\ k[Len(log) + 1].tx = None
  BY <1>7, <1>9 DEF Synced, Extended
<1>13. Len(log) + 1 \in Nat /\ Top <= Len(log) + 1 /\ Len(k) \in 1..Len(k)
  BY <1>3, <1>6, <1>12
<1> QED
  BY <1>2, <1>3, <1>8, <1>10, <1>11, <1>12, <1>13, ChangedStep

LEMMA ExitReplay ==
  ASSUME CommitInv, ReplayInv, NEW p \in Proc, Exit(p) \/ Crash(p)
  PROVE  ReplayInv' /\ Top' = Top
<1>1. /\ Gone({p}) /\ {p} \in SUBSET Proc
      /\ UNCHANGED <<made, packs, log, synced, file>>
  BY DEF Exit, Crash, disk
<1>2. todo'[p] = {} /\ \A q \in Proc : q # p => todo'[q] = todo[q]
  BY <1>1, GoneFacts
<1>3. ASSUME NEW q \in Proc PROVE Handled(q)'
  BY <1>1, <1>2 DEF ReplayInv, Handled
<1>4. Top' = Top
  BY <1>1 DEF Top
<1> QED
  BY <1>1, <1>3, <1>4 DEF ReplayInv

LEMMA PowerLossReplay ==
  ASSUME CommitInv, ReplayInv, PowerLoss
  PROVE  /\ ReplayInv' /\ Top' = Top
         /\ (\A i \in 1..Len(log') : log'[i].tx # None) => \A i \in 1..Len(log) : log[i].tx # None
<1>1. PICK n \in synced..Len(log) : log' = SubSeq(log, 1, n) /\ synced' = n
  BY DEF PowerLoss
<1>2. Gone(Proc) /\ UNCHANGED <<env, made, packs, ref, file, witness>> /\ Proc \in SUBSET Proc
  BY DEF PowerLoss
<1>3. /\ Fits(packs, log) /\ Top \in Nat /\ LostFrom(packs, log, Top) /\ log \in Seq(Batch)
      /\ Len(log) \in Nat /\ file \in Nat /\ synced \in Nat /\ Synced(log, synced)
      /\ n \in 0..Len(log) /\ n \in Nat
  BY <1>1, SnapshotCommitAssumption DEF ReplayInv, CommitInv, Types, LogTypes, RefTypes
<1>4. PICK k : k = SubSeq(log, 1, n)
  OBVIOUS
<1>5. Prefixed(log, n, k)
  BY <1>3, <1>4, SubSeqPrefixed
<1>6. \A i \in n + 1..Len(log) : log[i].tx # None
  BY <1>1, <1>3 DEF Synced
<1>7. Once(log) /\ \A a \in packs : a.tx # None
  BY ArtifactBatch DEF CommitInv, ExactlyOnce, Once
<1>8. Fits(packs, k) /\ LostFrom(packs, k, Top)
  BY <1>3, <1>5, <1>6, <1>7, Truncated
<1>9. ASSUME NEW q \in Proc PROVE Handled(q)'
  <2>1. todo'[q] = {}
    BY <1>2, GoneFacts
  <2> QED
    BY <2>1 DEF Handled
<1>10. /\ Synced(k, n) /\ Len(k) = n
       /\ \A i \in 1..n : k[i] = log[i]
  BY <1>5 DEF Synced, Prefixed
<1>11. (\A i \in 1..n : k[i].tx # None) => \A i \in 1..Len(log) : log[i].tx # None
  <2>1. \A i \in 1..Len(log) : i \in 1..n \/ i \in n + 1..Len(log)
    BY <1>3
  <2> QED
    BY <1>6, <1>10, <2>1
<1> QED
  BY <1>1, <1>2, <1>3, <1>4, <1>8, <1>9, <1>10, <1>11, ChangedStep

LEMMA EditReplay ==
  ASSUME ReplayInv, Edit \/ UNCHANGED vars PROVE ReplayInv' /\ Top' = Top
<1>1. UNCHANGED <<packs, log, synced, file, pc, view, todo>>
  BY DEF Edit, vars, disk
<1> QED
  BY <1>1 DEF ReplayInv, Handled, Top

LEMMA ReplayPreserved ==
  ASSUME ~overtaken', CommitInv, ReplayInv, [Next]_vars PROVE ReplayInv'
<1>1. ASSUME NEW p \in Proc,
             OpenList(p) \/ OpenClassify(p) \/ RecoverNext(p) \/ GiveUp(p)
               \/ \E a \in todo[p] : Replay(p, a)
      PROVE  ReplayInv'
  BY <1>1, OpensQuiet, ReplayReplay
<1>2. ASSUME NEW p \in Proc,
             \/ ReadThread(p) \/ ReadHead(p) \/ Build(p) \/ Recheck(p) \/ ReadSince(p) \/ AlreadyCommitted(p)
             \/ IsolationConflict(p) \/ CaptureFails(p) \/ PublishSnapshot(p) \/ PublishFails(p)
             \/ \E s \in State : MoveLock(p, s)
             \/ MovePublish(p)
      PROVE  ReplayInv'
  BY <1>2, CallsQuiet
<1>3. ASSUME NEW p \in Proc,
             Install(p) \/ AppendView(p) \/ MoveCommit(p) \/ Exit(p) \/ Crash(p)
      PROVE  ReplayInv'
  BY <1>3, InstallReplay, AppendViewReplay, MoveCommitReplay, ExitReplay
<1> QED
  BY <1>1, <1>2, <1>3, PowerLossReplay, EditReplay DEF Next

LEMMA ReplayInvariant == Spec => [](overtaken \/ ReplayInv)
<1>1. Init => ReplayInv
  BY ReplayInitially
<1>2. CommitInv /\ (overtaken \/ ReplayInv) /\ [Next]_vars => (overtaken \/ ReplayInv)'
  BY FlagsStep, ReplayPreserved
<1> QED
  BY <1>1, <1>2, CommitInvariant, PTL DEF Spec

(* A batch of a capture that is in the log is where its pack says, also    *)
(* after a power loss took it and an open replayed it                      *)
(* (recover_snapshot_artifact_views): the positions in watermarks and      *)
(* witnesses stay true, until a process commits over a lost batch.         *)
THEOREM ReplaysInPlace == Spec => []SamePosition
<1>1. overtaken \/ ReplayInv => SamePosition
  BY DEF ReplayInv, Fits, SamePosition
<1> QED
  BY <1>1, ReplayInvariant, PTL

(* As many packs are lost as there are positions for them. *)
LEMMA LostCount ==
  ASSUME NEW ps, NEW l, Len(l) \in Nat, NEW h \in Nat, Fits(ps, l), LostFrom(ps, l, h)
  PROVE  h = Len(l) + Cardinality(LostOf(ps, l)) /\ Cardinality(LostOf(ps, l)) \in Nat
<1> DEFINE L == LostOf(ps, l)
           P == Len(l)..(h - 1)
           f == [a \in L |-> a.base]
<1>1. {a.base : a \in L} = P /\ Len(l) <= h
  BY DEF LostFrom
<1>2. \A a, b \in L : a.base = b.base => a = b
  BY DEF Fits
<1>3. IsFiniteSet(P) /\ Cardinality(P) = h - Len(l)
  <2>1. Len(l) \in Int /\ h - 1 \in Int
    OBVIOUS
  <2>2. IsFiniteSet(P) /\ Cardinality(P) = IF Len(l) > h - 1 THEN 0 ELSE h - 1 - Len(l) + 1
    BY <2>1, FS_Interval
  <2> QED
    BY <1>1, <2>2
<1>4. f \in [L -> P] /\ \A a \in L : f[a] = a.base
  BY <1>1
<1> HIDE DEF L, P, f
<1>5. f \in Injection(L, P)
  BY <1>2, <1>4 DEF Injection, IsInjective
<1>6. f \in Surjection(L, P)
  <2>1. ASSUME NEW n \in P PROVE \E a \in L : f[a] = n
    <3>1. \E a \in L : a.base = n
      BY <1>1
    <3> QED
      BY <1>4, <3>1
  <2> QED
    BY <1>4, <2>1 DEF Surjection
<1>7. Cardinality(L) = Cardinality(P)
  BY <1>3, <1>5, <1>6, FS_Injection
<1> QED
  BY <1>1, <1>3, <1>7 DEF L

(* Whatever a crash or a power loss takes, an open can replay it: the lost *)
(* packs follow the log without a gap (recover_snapshot_artifact_views     *)
(* refuses a repository in which they do not), until a process that was    *)
(* open when another one died commits over what that one left.             *)
THEOREM OpensRecover == Spec => []Recoverable
<1>1. CommitInv /\ (overtaken \/ ReplayInv) => Recoverable
  <2> SUFFICES ASSUME CommitInv, ReplayInv PROVE RecoverableAlways
    BY DEF Recoverable
  <2>1. Lost = LostOf(packs, log)
    BY DEF Lost, LostOf, Transactions, TxsOf
  <2>2. Len(log) \in Nat
    BY DEF CommitInv, Types, LogTypes
  <2>3. PICK h \in Nat : h = Top
    BY DEF ReplayInv
  <2>4. Fits(packs, log) /\ LostFrom(packs, log, h)
    BY <2>3 DEF ReplayInv
  <2>5. h = Len(log) + Cardinality(LostOf(packs, log)) /\ Cardinality(LostOf(packs, log)) \in Nat
    BY <2>2, <2>4, LostCount
  <2>6. {a.base : a \in Lost} = Len(log) .. Len(log) + Cardinality(Lost) - 1
    <3>1. {a.base : a \in Lost} = Len(log)..(h - 1)
      BY <2>1, <2>4 DEF LostFrom
    <3>2. h = Len(log) + Cardinality(Lost) /\ Cardinality(Lost) \in Nat
      BY <2>1, <2>5, Zenon
    <3> QED
      BY <2>2, <3>1, <3>2
  <2>7. \A p \in Proc : view[p] # None => view[p].base = Len(log)
    BY DEF CommitInv, ViewAt
  <2> QED
    BY <2>6, <2>7 DEF RecoverableAlways
<1> QED
  BY <1>1, ReplayInvariant, CommitInvariant, PTL

(***************************************************************************)
(* The watermark.  While captures alone write the thread, a persisted      *)
(* watermark that covers all that was committed goes with a file that has  *)
(* the newest state, and what a capture is about to publish is that state. *)
(***************************************************************************)
NoMoves(l) == \A i \in 1..Len(l) : l[i].tx # None

(* v is the state of the pack at the last position below h *)
IsTop(ps, h, v) ==
  /\ h = 0 => v = None
  /\ \A a \in ps : a.base = h - 1 => v = a.new

CleanInv ==
  NoMoves(log) =>
    /\ file = Top => IsTop(packs, Top, ref)
    /\ \A p \in Proc : pc[p] = "publish" => IsTop(packs, Top, next[p])

MovedInv == \A p \in Proc : pc[p] = "moved" => ~NoMoves(log)

(* Moves stay in the log. *)
LEMMA MovesStay ==
  ASSUME CommitInv, ReplayInv,
         (\E p \in Proc : AppendView(p) \/ \E a \in todo[p] : Replay(p, a)) \/ PowerLoss
  PROVE  NoMoves(log') => NoMoves(log)
<1>1. log \in Seq(Batch)
  BY DEF CommitInv, Types, LogTypes
<1>2. ASSUME NEW a \in packs, log' = Append(log, BatchOf(a))
      PROVE  NoMoves(log') => NoMoves(log)
  <2>1. PICK k : k = Append(log, BatchOf(a))
    OBVIOUS
  <2>2. BatchOf(a) \in Batch
    BY ArtifactBatch
  <2>3. Extended(log, BatchOf(a), k)
    BY <1>1, <2>1, <2>2, AppendExtends
  <2>4. NoMoves(k) => NoMoves(log)
    BY <2>3 DEF Extended, NoMoves
  <2> QED
    BY <1>2, <2>1, <2>4
<1>3. ASSUME NEW p \in Proc, AppendView(p) PROVE NoMoves(log') => NoMoves(log)
  BY <1>2, <1>3 DEF AppendView, CommitInv, ViewAt
<1>4. ASSUME NEW p \in Proc, NEW a \in todo[p], Replay(p, a)
      PROVE  NoMoves(log') => NoMoves(log)
  <2>1. a \in packs /\ (log' = log \/ log' = Append(log, BatchOf(a)))
    BY <1>4 DEF Replay, CommitInv, Types, CallTypes
  <2> QED
    BY <1>2, <2>1
<1>5. ASSUME PowerLoss PROVE NoMoves(log') => NoMoves(log)
  BY <1>5, PowerLossReplay DEF NoMoves
<1> QED
  BY <1>3, <1>4, <1>5

(* The capture whose publication is next was there before the step. *)
PublishersStay ==
  \A q \in Proc : pc'[q] = "publish" => pc[q] = "publish" /\ next'[q] = next[q]

LEMMA OpensPublish ==
  ASSUME CommitInv, NEW p \in Proc,
         \/ OpenList(p) \/ OpenClassify(p) \/ RecoverNext(p) \/ GiveUp(p)
         \/ (\E a \in todo[p] : Replay(p, a)) \/ AppendView(p)
  PROVE  PublishersStay /\ UNCHANGED <<packs, ref, file>>
<1>1. pc \in [Proc -> PcValues] /\ UNCHANGED <<next, packs, ref, file>>
  BY DEF CommitInv, Types, CallTypes, OpenList, OpenClassify, RecoverNext, GiveUp, Replay,
         AppendView, disk, call
<1>2. pc' = pc \/ \E l \in PcValues \ {"publish"} : pc' = [pc EXCEPT ![p] = l]
  BY DEF OpenList, OpenClassify, RecoverNext, GiveUp, Replay, AppendView, Goto, PcValues
<1> QED
  BY <1>1, <1>2 DEF PublishersStay

LEMMA CapturesPublish ==
  ASSUME CommitInv, NEW p \in Proc,
         \/ Build(p) \/ ReadSince(p) \/ IsolationConflict(p) \/ CaptureFails(p)
         \/ PublishFails(p)
  PROVE  PublishersStay /\ UNCHANGED <<packs, log, ref, file>>
<1>1. /\ pc \in [Proc -> PcValues] /\ next \in [Proc -> StateOrNone]
      /\ UNCHANGED <<packs, log, ref, file>>
  BY DEF CommitInv, Types, CallTypes, Build, ReadSince, IsolationConflict, CaptureFails,
         PublishFails, disk
<1>2. \E l \in PcValues \ {"publish"} : pc' = [pc EXCEPT ![p] = l]
  BY DEF Build, ReadSince, IsolationConflict, CaptureFails, PublishFails, Goto, PcValues
<1>3. \A q \in Proc : q # p => next'[q] = next[q]
  BY <1>1 DEF Build, ReadSince, IsolationConflict, CaptureFails, PublishFails, EndCall
<1> QED
  BY <1>1, <1>2, <1>3 DEF PublishersStay

LEMMA ReadsPublish ==
  ASSUME CommitInv, NEW p \in Proc,
         ReadThread(p) \/ ReadHead(p) \/ Recheck(p) \/ \E s \in State : MoveLock(p, s)
  PROVE  PublishersStay /\ UNCHANGED <<packs, log>>
<1>1. /\ pc \in [Proc -> PcValues] /\ next \in [Proc -> StateOrNone]
      /\ UNCHANGED <<packs, log>>
  BY DEF CommitInv, Types, CallTypes, ReadThread, ReadHead, Recheck, MoveLock
<1>2. UNCHANGED <<pc, next>> \/ \E l \in PcValues \ {"publish"} : pc' = [pc EXCEPT ![p] = l]
  BY DEF ReadThread, ReadHead, Recheck, MoveLock, Goto, PcValues, call
<1>3. \A q \in Proc : q # p => next'[q] = next[q]
  BY <1>1 DEF ReadThread, ReadHead, Recheck, MoveLock, EndCall, call
<1> QED
  BY <1>1, <1>2, <1>3 DEF PublishersStay

LEMMA EndsPublish ==
  ASSUME CommitInv, (\E p \in Proc : Exit(p) \/ Crash(p)) \/ PowerLoss
  PROVE  PublishersStay /\ UNCHANGED <<packs, ref, file>>
<1>1. ASSUME NEW P \in SUBSET Proc, Gone(P), UNCHANGED <<made, packs>> PROVE PublishersStay
  <2>1. \A q \in Proc : IF q \in P THEN pc'[q] = "closed"
                         ELSE pc'[q] = pc[q] /\ next'[q] = next[q]
    BY <1>1, GoneFacts
  <2> QED
    BY <2>1 DEF PublishersStay
<1>2. ASSUME NEW p \in Proc, Exit(p) \/ Crash(p)
      PROVE  Gone({p}) /\ {p} \in SUBSET Proc /\ UNCHANGED <<made, packs, ref, file>>
  BY <1>2 DEF Exit, Crash, disk
<1>3. ASSUME PowerLoss
      PROVE  Gone(Proc) /\ Proc \in SUBSET Proc /\ UNCHANGED <<made, packs, ref, file>>
  BY <1>3 DEF PowerLoss
<1> QED
  BY <1>1, <1>2, <1>3

LEMMA TopPack ==
  ASSUME CommitInv, ReplayInv, NoMoves(log), Top > 0
  PROVE  \E a \in packs : a.base = Top - 1 /\ a.new \in Made
<1>1. /\ Fits(packs, log) /\ Top \in Nat /\ Len(log) <= Top /\ Len(log) \in Nat
      /\ {a.base : a \in LostOf(packs, log)} = Len(log)..(Top - 1)
  BY DEF ReplayInv, LostFrom, CommitInv, Types, LogTypes
<1>2. CASE Len(log) < Top
  <2>1. Top - 1 \in Len(log)..(Top - 1)
    BY <1>1, <1>2
  <2>2. \E a \in LostOf(packs, log) : a.base = Top - 1
    BY <1>1, <2>1
  <2> QED
    BY <2>2, ArtifactBatch DEF LostOf
<1>3. CASE Len(log) = Top
  <2>1. Top \in 1..Len(log)
    BY <1>1, <1>3
  <2>2. \E a \in packs : a.base = Top - 1
    BY <1>1, <2>1 DEF Fits, NoMoves
  <2> QED
    BY <2>2, ArtifactBatch
<1> QED
  BY <1>1, <1>2, <1>3

(* The newest batch, once the log has everything. *)
LEMMA TopValue ==
  ASSUME CommitInv, ReplayInv, NoMoves(log), Top = Len(log)
  PROVE  IsTop(packs, Top, ValueAt(Len(log)))
<1>1. /\ Fits(packs, log) /\ Top \in Nat /\ Len(log) \in Nat
      /\ {a.base : a \in LostOf(packs, log)} = Len(log)..(Top - 1)
  BY DEF ReplayInv, LostFrom, CommitInv, Types, LogTypes
<1>2. LostOf(packs, log) = {}
  <2>1. Len(log)..(Top - 1) = {}
    BY <1>1
  <2>2. \A a \in LostOf(packs, log) : a.base \in {b.base : b \in LostOf(packs, log)}
    OBVIOUS
  <2> QED
    BY <1>1, <2>1, <2>2
<1>3. ASSUME NEW a \in packs, a.base = Top - 1 PROVE a.new = ValueAt(Len(log))
  <2>1. PICK i \in 1..Len(log) : a.base = i - 1 /\ log[i] = BatchOf(a)
    BY <1>1, <1>2, InLog
  <2>2. i = Len(log)
    BY <1>1, <1>3, <2>1
  <2> QED
    BY <1>1, <2>1, <2>2 DEF ValueAt, BatchOf
<1>4. Top = 0 => ValueAt(Len(log)) = None
  BY DEF ValueAt
<1> QED
  BY <1>3, <1>4 DEF IsTop

(* Steps that leave the thread alone. *)
LEMMA QuietClean ==
  ASSUME CleanInv, PublishersStay, UNCHANGED <<packs, ref, file>>, Top' = Top,
         NoMoves(log') => NoMoves(log)
  PROVE  CleanInv'
  BY DEF CleanInv, PublishersStay

(* A read of the thread folds the whole log or leaves the file alone. *)
LEMMA ReadsClean ==
  ASSUME CommitInv, ReplayInv, CleanInv, NEW p \in Proc,
         ReadThread(p) \/ ReadHead(p) \/ Recheck(p) \/ \E s \in State : MoveLock(p, s)
  PROVE  CleanInv'
<1>1. PublishersStay /\ UNCHANGED <<packs, log>>
  BY ReadsPublish
<1>2. Top' = Top
  BY CallsQuiet
<1>3. PICK w \in BOOLEAN : ReadEffect(p, w)
  <2>1. PICK w \in BOOLEAN : w = Witnessed
    BY DEF Witnessed
  <2> QED
    BY <2>1 DEF ReadThread, ReadHead, Recheck, MoveLock
<1>4. \/ ref' = ref /\ file' = file
      \/ ref' = ValueAt(Len(log)) /\ file' = Len(log)
  BY <1>3, ReadFacts
<1>5. ASSUME NoMoves(log), file' = Top PROVE IsTop(packs, Top, ref')
  BY <1>4, <1>5, TopValue DEF CleanInv
<1> QED
  BY <1>1, <1>2, <1>5 DEF CleanInv, PublishersStay

(* Nobody else commits. *)
LEMMA OtherCaptures ==
  ASSUME CommitInv, NEW q \in Proc, repoLock # q
  PROVE  pc[q] \notin {"since", "commit", "publish"}
  BY DEF CommitInv, LockAt, Capturing

(* A capture that finds its transaction in the log and answers the newest  *)
(* batch.                                                                  *)
LEMMA AlreadyCommittedClean ==
  ASSUME ~overtaken', ~stale', CommitInv, ReplayInv, CleanInv, NEW p \in Proc,
         AlreadyCommitted(p)
  PROVE  CleanInv'
<1>1. /\ UNCHANGED <<packs, log, ref, file>> /\ logLock = None
      /\ pc[p] = "commit" /\ pc' = [pc EXCEPT ![p] = "publish"]
      /\ overtaken' = (overtaken \/ Abandoned # {}) /\ next'[p] = ValueAt(Len(log))
  BY DEF AlreadyCommitted, Goto, disk, locks
<1>2. Top' = Top
  BY CallsQuiet
<1>3. LostOf(packs, log) = {}
  BY <1>1, NothingLost
<1>4. Top = Len(log)
  <2>1. LostFrom(packs, log, Len(log)) /\ Len(log) \in Nat
    BY <1>3 DEF LostFrom, CommitInv, Types, LogTypes
  <2> QED
    BY <2>1, TopIs DEF Top
<1>5. NoMoves(log) => IsTop(packs, Top, ValueAt(Len(log)))
  BY <1>4, TopValue
<1>6. \A q \in Proc : q # p => pc'[q] # "publish"
  <2>1. repoLock = p /\ \A q \in Proc : q # p => pc'[q] = pc[q]
    BY <1>1 DEF CommitInv, LockAt, Capturing, Types, CallTypes
  <2> QED
    BY <2>1, OtherCaptures
<1> QED
  BY <1>1, <1>2, <1>5, <1>6 DEF CleanInv

LEMMA PublishClean ==
  ASSUME CommitInv, ReplayInv, CleanInv, NEW p \in Proc, PublishSnapshot(p)
  PROVE  CleanInv'
<1>1. /\ UNCHANGED <<packs, log, file>> /\ pc[p] = "publish" /\ pc' = [pc EXCEPT ![p] = "idle"]
      /\ ref' = next[p]
  BY DEF PublishSnapshot, Goto
<1>2. Top' = Top
  BY CallsQuiet
<1>3. \A q \in Proc : pc'[q] # "publish"
  <2>1. repoLock = p /\ pc'[p] = "idle" /\ \A q \in Proc : q # p => pc'[q] = pc[q]
    BY <1>1 DEF CommitInv, LockAt, Capturing, Types, CallTypes
  <2> QED
    BY <2>1, OtherCaptures
<1> QED
  BY <1>1, <1>2, <1>3 DEF CleanInv

LEMMA InstallClean ==
  ASSUME ~overtaken', CommitInv, ReplayInv, NEW p \in Proc, Install(p)
  PROVE  CleanInv'
<1>1. Top \in Nat /\ file <= Top /\ file \in Nat /\ Len(log) \in Nat
  BY SnapshotCommitAssumption DEF ReplayInv, CommitInv, Types, RefTypes, LogTypes
<1>2. PICK a : a = NewArtifact(p)
  OBVIOUS
<1>3. /\ a.base = Len(log) /\ a.tx \notin Transactions /\ a.new = next[p]
      /\ packs' = packs \union {a} /\ UNCHANGED <<log, file, next>>
      /\ pc[p] = "commit" /\ pc' = [pc EXCEPT ![p] = "publish"]
      /\ logLock = None /\ overtaken' = (overtaken \/ Abandoned # {})
  BY <1>2, InstallFacts DEF NewArtifact, Install
<1>4. ReplayInv' /\ Top' = Top + 1
  BY InstallReplay
<1>5. file' # Top'
  BY <1>1, <1>3, <1>4
<1>6. Top = Len(log)
  <2>1. LostOf(packs, log) = {}
    BY <1>3, NothingLost
  <2>2. LostFrom(packs, log, Len(log))
    BY <1>1, <2>1 DEF LostFrom
  <2> QED
    BY <1>1, <2>2, TopIs DEF Top
<1>7. PICK qs, l : qs = packs' /\ l = log'
  OBVIOUS
<1>8. Fits(qs, l) /\ a \in LostOf(qs, l) /\ Len(l) = Len(log)
  BY <1>3, <1>4, <1>7 DEF ReplayInv, LostOf, TxsOf, Transactions
<1>9. ASSUME NEW b \in qs, b.base = Len(log) PROVE b.new = next[p]
  <2>1. b \in LostOf(qs, l)
    BY <1>1, <1>8, <1>9, InLog
  <2> QED
    BY <1>3, <1>8, <1>9, <2>1 DEF Fits
<1>10. IsTop(qs, Top + 1, next[p])
  BY <1>1, <1>6, <1>9 DEF IsTop
<1>11. \A q \in Proc : q # p => pc'[q] # "publish"
  <2>1. repoLock = p /\ \A q \in Proc : q # p => pc'[q] = pc[q]
    BY <1>3 DEF CommitInv, LockAt, Capturing, Types, CallTypes
  <2> QED
    BY <2>1, OtherCaptures
<1> QED
  BY <1>3, <1>4, <1>5, <1>7, <1>10, <1>11 DEF CleanInv

LEMMA MovedStays ==
  ASSUME MovedInv, NoMoves(log') => NoMoves(log),
         \A q \in Proc : pc'[q] = "moved" => pc[q] = "moved"
  PROVE  MovedInv'
  BY DEF MovedInv

LEMMA CleanPreserved ==
  ASSUME ~overtaken', ~stale', CommitInv, ReplayInv, CleanInv, MovedInv, [Next]_vars
  PROVE  CleanInv' /\ MovedInv'
<1>0. pc \in [Proc -> PcValues]
  BY DEF CommitInv, Types, CallTypes
<1>1. ASSUME NEW p \in Proc,
             \/ OpenList(p) \/ OpenClassify(p) \/ RecoverNext(p) \/ GiveUp(p)
      PROVE  CleanInv' /\ MovedInv'
  <2>1. UNCHANGED log /\ \A q \in Proc : pc'[q] = "moved" => pc[q] = "moved"
    BY <1>0, <1>1 DEF OpenList, OpenClassify, RecoverNext, GiveUp, disk, Goto
  <2>2. Top' = Top
    BY <1>1, OpensQuiet
  <2> QED
    BY <1>1, <2>1, <2>2, OpensPublish, QuietClean, MovedStays
<1>2. ASSUME NEW p \in Proc, AppendView(p) \/ \E a \in todo[p] : Replay(p, a)
      PROVE  CleanInv' /\ MovedInv'
  <2>1. \A q \in Proc : pc'[q] = "moved" => pc[q] = "moved"
    BY <1>0, <1>2 DEF AppendView, Replay, Goto
  <2>2. Top' = Top
    BY <1>2, AppendViewReplay, ReplayReplay
  <2>3. NoMoves(log') => NoMoves(log)
    BY <1>2, MovesStay
  <2> QED
    BY <1>2, <2>1, <2>2, <2>3, OpensPublish, QuietClean, MovedStays
<1>3. ASSUME NEW p \in Proc,
             \/ Build(p) \/ ReadSince(p) \/ IsolationConflict(p) \/ CaptureFails(p)
             \/ PublishFails(p)
      PROVE  CleanInv' /\ MovedInv'
  <2>1. \A q \in Proc : pc'[q] = "moved" => pc[q] = "moved"
    BY <1>0, <1>3 DEF Build, ReadSince, IsolationConflict, CaptureFails, PublishFails, Goto
  <2>2. Top' = Top
    BY <1>3, CallsQuiet
  <2> QED
    BY <1>3, <2>1, <2>2, CapturesPublish, QuietClean, MovedStays
<1>4. ASSUME NEW p \in Proc, Exit(p) \/ Crash(p) PROVE CleanInv' /\ MovedInv'
  <2>1. UNCHANGED log /\ \A q \in Proc : pc'[q] = "moved" => pc[q] = "moved"
    BY <1>0, <1>4 DEF Exit, Crash, disk, Gone
  <2>2. Top' = Top
    BY <1>4, ExitReplay
  <2> QED
    BY <1>4, <2>1, <2>2, EndsPublish, QuietClean, MovedStays
<1>5. ASSUME PowerLoss PROVE CleanInv' /\ MovedInv'
  <2>1. \A q \in Proc : pc'[q] # "moved"
    BY <1>5 DEF PowerLoss, Gone
  <2>2. Top' = Top
    BY <1>5, PowerLossReplay
  <2>3. NoMoves(log') => NoMoves(log)
    BY <1>5, MovesStay
  <2> QED
    BY <1>5, <2>1, <2>2, <2>3, EndsPublish, QuietClean, MovedStays
<1>6. ASSUME NEW p \in Proc,
             ReadThread(p) \/ ReadHead(p) \/ Recheck(p) \/ \E s \in State : MoveLock(p, s)
      PROVE  CleanInv' /\ MovedInv'
  <2>1. UNCHANGED log
    BY <1>6, ReadsPublish
  <2>2. \A q \in Proc : pc'[q] = "moved" => pc[q] = "moved"
    BY <1>0, <1>6 DEF ReadThread, ReadHead, Recheck, MoveLock, Goto
  <2> QED
    BY <1>6, <2>1, <2>2, ReadsClean, MovedStays
<1>7. ASSUME NEW p \in Proc, AlreadyCommitted(p) \/ Install(p) \/ PublishSnapshot(p)
      PROVE  CleanInv' /\ MovedInv'
  <2>1. UNCHANGED log /\ \A q \in Proc : pc'[q] = "moved" => pc[q] = "moved"
    BY <1>0, <1>7 DEF AlreadyCommitted, Install, PublishSnapshot, Goto, disk
  <2>2. CleanInv'
    BY <1>7, AlreadyCommittedClean, InstallClean, PublishClean
  <2> QED
    BY <2>1, <2>2, MovedStays
<1>8. ASSUME NEW p \in Proc, MoveCommit(p) PROVE CleanInv' /\ MovedInv'
  <2>1. ~NoMoves(log')
    BY <1>8, MoveCommitReplay DEF NoMoves
  <2> QED
    BY <2>1 DEF CleanInv, MovedInv
<1>9. ASSUME NEW p \in Proc, MovePublish(p) PROVE CleanInv' /\ MovedInv'
  <2>1. UNCHANGED log /\ ~NoMoves(log)
    BY <1>9 DEF MovePublish, MovedInv
  <2> QED
    BY <2>1 DEF CleanInv, MovedInv
<1>10. ASSUME Edit \/ UNCHANGED vars PROVE CleanInv' /\ MovedInv'
  <2>1. UNCHANGED <<packs, log, ref, file, pc, next>>
    BY <1>10 DEF Edit, vars, disk, call
  <2>2. Top' = Top
    BY <2>1 DEF Top
  <2> QED
    BY <2>1, <2>2 DEF CleanInv, MovedInv
<1> QED
  BY <1>1, <1>2, <1>3, <1>4, <1>5, <1>6, <1>7, <1>8, <1>9, <1>10 DEF Next

LEMMA CleanInvariant == Spec => [](overtaken \/ stale \/ (CleanInv /\ MovedInv))
<1>1. Init => CleanInv /\ MovedInv
  <2> SUFFICES ASSUME Init PROVE CleanInv /\ MovedInv
    OBVIOUS
  <2>1. packs = {} /\ ref = None /\ \A p \in Proc : pc[p] = "closed"
    BY DEF Init
  <2>2. IsTop(packs, Top, ref)
    BY <2>1 DEF IsTop
  <2> QED
    BY <2>1, <2>2 DEF CleanInv, MovedInv
<1>2. CommitInv /\ (overtaken \/ ReplayInv) /\ (overtaken \/ stale \/ (CleanInv /\ MovedInv))
        /\ [Next]_vars => (overtaken \/ stale \/ (CleanInv /\ MovedInv))'
  BY FlagsStep, CleanPreserved
<1> QED
  BY <1>1, <1>2, ReplayInvariant, CommitInvariant, PTL DEF Spec

(* A persisted watermark that covers the log goes with a thread file that  *)
(* has the newest capture (persisted in reconciled_load, read by the next  *)
(* process), although captures publish the file before their batch is in   *)
(* the log, or fail to, and any process reads in between.  As long as      *)
(* captures alone write the thread, none committed over a lost batch, and  *)
(* none published an older state than the newest batch as its answer.      *)
THEOREM WatermarkCoversPublished == Spec => []PersistedClean
<1>1. CommitInv /\ (overtaken \/ ReplayInv) /\ (overtaken \/ stale \/ (CleanInv /\ MovedInv))
        => PersistedClean
  <2> SUFFICES ASSUME CommitInv, ReplayInv, CleanInv,
                      Lost = {}, NoMoves(log), file >= Len(log)
               PROVE  ref = ValueAt(Len(log))
    BY DEF PersistedClean, NoMoves
  <2>1. LostOf(packs, log) = {}
    BY DEF Lost, LostOf, Transactions, TxsOf
  <2>2. /\ Len(log) \in Nat /\ Top \in Nat /\ file <= Top /\ file \in Nat
    BY SnapshotCommitAssumption DEF ReplayInv, CommitInv, Types, LogTypes, RefTypes
  <2>3. Top = Len(log)
    <3>1. LostFrom(packs, log, Len(log))
      BY <2>1, <2>2 DEF LostFrom
    <3> QED
      BY <2>2, <3>1, TopIs DEF Top
  <2>4. IsTop(packs, Top, ref)
    <3>1. file = Top
      BY <2>2, <2>3
    <3> QED
      BY <3>1 DEF CleanInv
  <2>5. IsTop(packs, Top, ValueAt(Len(log)))
    BY <2>3, TopValue
  <2>6. CASE Top = 0
    BY <2>4, <2>5, <2>6 DEF IsTop
  <2>7. CASE Top > 0
    <3>1. \E a \in packs : a.base = Top - 1
      BY <2>7, TopPack
    <3> QED
      BY <2>4, <2>5, <3>1 DEF IsTop
  <2> QED
    BY <2>2, <2>6, <2>7
<1> QED
  BY <1>1, ReplayInvariant, CleanInvariant, CommitInvariant, PTL
=============================================================================
