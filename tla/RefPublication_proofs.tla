----------------------- MODULE RefPublication_proofs -----------------------
(***************************************************************************)
(* Ref files and watermarks, for any number of clients, handles, worktrees *)
(* and threads.                                                            *)
(***************************************************************************)
EXTENDS RefPublication, WellFoundedInduction, TLAPS

ExpectationsExact ==
  \A c \in Client :
    pc[c] = "commit" => \A r \in Touched(upd[c]) : got[c][r] = truth[r]

(* The refs of class k that a client vouches for with its watermark. *)
OwnRefs(c, k) == {r \in Thread \union {Home(c)} : ClassOf(r) = k}

LockedPc == {"tip", "publish", "validate", "commit", "apply"}

(* The clients inside the locked region are the holder; live calls belong   *)
(* to open handles.                                                         *)
LockInv ==
  \A c \in Client :
    /\ holder = c <=> pc[c] \in LockedPc
    /\ pc[c] # "idle" => open[HandleOf[c]]

(* A call keeps to its request. *)
TaskInv ==
  \A c \in Client :
    /\ Reading(c) => pc[c] \in {"gate", "raw", "locking", "tip", "publish"}
    /\ pc[c] \in {"gate", "raw"} => Reading(c)
    /\ Reading(c) => want[c] \in Thread \union {Home(c)}
    /\ Reading(c) /\ pc[c] \in {"tip", "publish"} => class[c] = ClassOf(want[c])
    /\ Touched(upd[c]) \subseteq Thread \union {Home(c)}
    /\ c \in DirectWriters => \A r, s \in Touched(upd[c]) : r = s
    /\ pc[c] = "commit" => c \notin DirectWriters
    /\ pc[c] = "apply" => \A r \in Ref : plan[c][r] \in {Keep, upd[c][r]}

(* last, truth and author are what the log says, up to unrecorded writes; a *)
(* HEAD is written in its own worktree only.                                *)
HistoryInv ==
  \A r \in Ref :
    /\ last[r] <= Len(log)
    /\ last[r] > 0 => /\ log[last[r]].upd[r] # Keep
                      /\ r \in Worktree => log[last[r]].scope = r
                      /\ ~direct[r] => /\ truth[r] = log[last[r]].upd[r]
                                       /\ author[r] = log[last[r]].scope
    /\ \A i \in 1..Len(log) : i > last[r] => log[i].upd[r] = Keep

(* No watermark is ahead of the log. *)
BoundInv ==
  /\ \A h \in Handle, k \in Class : mem[h][k] <= Len(log)
  /\ fileShared <= Len(log)
  /\ \A w \in Worktree : fileLocal[w] <= Len(log)

(* With unrecorded writers no handle is ahead of the files, and a ref whose *)
(* newest write is unrecorded has its records below the shared file and the *)
(* local one of the worktree that wrote it.                                 *)
DirectInv ==
  /\ DirectWriters # {} =>
       \A h \in Handle : /\ mem[h]["shared"] <= fileShared
                         /\ mem[h]["local"] <= fileLocal[WorktreeOf[h]]
  /\ \A r \in Ref :
       direct[r] => /\ ref[r] = truth[r]
                    /\ last[r] <= fileShared
                    /\ \A w \in Worktree : w = r \/ w = author[r]
                                             => last[r] <= fileLocal[w]

(* A write that reached a phase has materialized the classes before it. *)
PhaseOk(c) ==
  /\ ~Reading(c) /\ pc[c] \in {"tip", "publish"} /\ class[c] = "shared"
       => mem[HandleOf[c]]["local"] = Len(log)
  /\ pc[c] = "validate" \/ (pc[c] = "apply" /\ c \in DirectWriters)
       => \A k \in Class : mem[HandleOf[c]][k] = Len(log)

(* What is left to publish is the truth, and what is not left is published. *)
PlanOk(c) ==
  /\ pc[c] = "publish" =>
       /\ tip[c] = Len(log)
       /\ \A r \in Ref : plan[c][r] \in {Keep, truth[r]}
       /\ \A r \in OwnRefs(c, class[c]) :
            plan[c][r] = Keep => ref[r] = truth[r]
  /\ pc[c] = "apply" /\ c \notin DirectWriters =>
       \A r \in Ref : plan[c][r] \in {Keep, truth[r]}

(* The client may roll its publish back without a new truth. *)
RollsBack(c) == pc[c] = "publish" \/ (pc[c] = "apply" /\ c \notin DirectWriters)

(* A rollback restores files that the watermarks still vouch for. *)
SavedOk(c) ==
  RollsBack(c) =>
    \A r \in Ref : Covered(r) \/ direct[r] => saved[c][r] = truth[r]

(* The read has passed the gate, or will: its tip is vouched for. *)
AtFile(c) == pc[c] = "raw" \/ (pc[c] = "gate" /\ Vouched(want[c], tip[c]))

(* Everything a read under way can still return was true during the read. *)
ReadOk(c) ==
  Reading(c) =>
    /\ truth[want[c]] \in seen[c]
    /\ pc[c] = "publish" => got[c][want[c]] \in seen[c]
    /\ AtFile(c) =>
         /\ ref[want[c]] \in seen[c]
         /\ \A d \in Client : RollsBack(d) => saved[d][want[c]] \in seen[c]

CallInv == \A c \in Client : PhaseOk(c) /\ PlanOk(c) /\ SavedOk(c)
ReadInv == \A c \in Client : ReadOk(c)

IndInv ==
  /\ TypeOK
  /\ LockInv
  /\ TaskInv
  /\ HistoryInv
  /\ BoundInv
  /\ DirectInv
  /\ CallInv
  /\ ReadInv
  /\ WatermarkSoundAlways
  /\ ExpectationsExact

-----------------------------------------------------------------------------
LEMMA ConstTypes ==
  /\ Nothing \in [Ref -> Value \union {Keep}]
  /\ \A r \in Ref : Nothing[r] = Keep
  /\ Unseen \in [Ref -> Value \union {Unread}]
  /\ \A r \in Ref : Unseen[r] = Unread
  /\ InitialRefs \in [Ref -> Value]
  /\ NoRef \notin Ref
  /\ Keep \notin Value
  /\ Unread \notin Value
  /\ \A h \in Handle : WorktreeOf[h] \in Worktree /\ WorktreeOf[h] \in Ref
  /\ \A c \in Client : /\ Home(c) \in Worktree
                       /\ Home(c) \in Ref
                       /\ Home(c) \notin Thread
  /\ Worktree \subseteq Ref /\ Thread \subseteq Ref
  BY RefPublicationAssumption DEF Nothing, Unseen, InitialRefs, Ref, Value, Home


(* Every non-empty set of naturals has a least element, hence every         *)
(* non-empty set of positions of a sequence a greatest one.                 *)
LEMMA LeastNat ==
  ASSUME NEW T, T \subseteq Nat, T # {}
  PROVE  \E x \in T : \A y \in T : x <= y
<1>1. \E R : /\ IsWellFoundedOn(R, Nat)
             /\ \A x, y \in Nat : x < y => <<x, y>> \in R
  <2>1. \A x, y \in Nat : x < y => <<x, y>> \in OpToRel(<, Nat)
    BY DEF OpToRel
  <2> QED BY <2>1, NatLessThanWellFounded, Zenon
<1>2. PICK R : /\ IsWellFoundedOn(R, Nat)
               /\ \A x, y \in Nat : x < y => <<x, y>> \in R
  BY <1>1
<1>3. IsWellFoundedOn(R, Nat)
  BY <1>2
<1>4. \E x \in T : \A y \in T : ~(<<y, x>> \in R)
  BY <1>3, WFMin
<1>5. PICK x \in T : \A y \in T : ~(<<y, x>> \in R)
  BY <1>4, Zenon
<1>6. \A y \in T : ~(y < x)
  BY <1>2, <1>5, Zenon
<1> QED BY <1>6

LEMMA Greatest ==
  ASSUME NEW n \in Nat, NEW S, S \subseteq 0..n, S # {}
  PROVE  \E i \in S : \A j \in S : j <= i
<1> DEFINE T == {n - i : i \in S}
<1>1. T \subseteq Nat
  OBVIOUS
<1>2. T # {}
  <2>1. PICK i \in S : TRUE
    OBVIOUS
  <2>2. n - i \in T
    OBVIOUS
  <2> QED BY <2>2
<1>3. PICK x \in T : \A y \in T : x <= y
  <2> HIDE DEF T
  <2> QED BY <1>1, <1>2, LeastNat
<1>4. PICK i \in S : x = n - i
  OBVIOUS
<1>5. ASSUME NEW j \in S PROVE j <= i
  <2>1. n - j \in T
    OBVIOUS
  <2> QED BY <1>3, <1>4, <2>1
<1> QED BY <1>5

(* A fold that is not empty yields what its newest entry writes. *)
LEMMA FoldNewest ==
  ASSUME RepoTypeOK, NEW c \in Client, NEW k \in Class, NEW since \in Nat,
         NEW r \in Ref, FoldTail(c, k, since, r) # {}
  PROVE  \E i \in FoldTail(c, k, since, r) :
           /\ \A j \in FoldTail(c, k, since, r) : j <= i
           /\ FoldValue(c, k, since, r) = log[i].upd[r]
<1> DEFINE S == FoldTail(c, k, since, r)
<1>1. Len(log) \in Nat
  BY DEF RepoTypeOK
<1>2. S \subseteq 0..Len(log)
  BY <1>1 DEF FoldTail
<1>3. \E i \in S : \A j \in S : j <= i
  <2> HIDE DEF S
  <2> QED BY <1>1, <1>2, Greatest DEF S
<1>4. FoldValue(c, k, since, r) = log[CHOOSE i \in S : \A j \in S : j <= i].upd[r]
  BY DEF FoldValue
<1> HIDE DEF S
<1> QED BY <1>3, <1>4 DEF S

LEMMA FoldType ==
  ASSUME RepoTypeOK, NEW c \in Client, NEW k \in Class, NEW since \in Nat,
         NEW r \in Ref
  PROVE  FoldValue(c, k, since, r) \in Value \union {Keep}
<1>1. CASE FoldTail(c, k, since, r) = {}
  BY <1>1 DEF FoldValue
<1>2. CASE FoldTail(c, k, since, r) # {}
  <2>1. PICK i \in FoldTail(c, k, since, r) :
               FoldValue(c, k, since, r) = log[i].upd[r]
    BY <1>2, FoldNewest
  <2>2. log[i] \in Entry
    BY DEF FoldTail, RepoTypeOK
  <2> QED BY <2>1, <2>2 DEF Entry
<1> QED BY <1>1, <1>2

(* The history variable of the reads keeps its type. *)
LEMMA SeenSet ==
  ASSUME HistoryTypeOK, NEW c \in Client, NEW s \in SUBSET Value,
         seen' = [seen EXCEPT ![c] = s]
  PROVE  seen' \in [Client -> SUBSET Value]
  BY DEF HistoryTypeOK

LEMMA SeenObserve ==
  ASSUME CallTypeOK, HistoryTypeOK, NEW t \in [Ref -> Value], Observe(t)
  PROVE  seen' \in [Client -> SUBSET Value]
<1>1. seen \in [Client -> SUBSET Value] /\ want \in [Client -> Ref \union {NoRef}]
  BY DEF CallTypeOK, HistoryTypeOK
<1>2. ASSUME NEW c \in Client
      PROVE  (IF Reading(c) THEN seen[c] \union {t[want[c]]} ELSE seen[c])
               \in SUBSET Value
  BY <1>1 DEF Reading
<1>3. seen' = [c \in Client |-> IF Reading(c)
                                THEN seen[c] \union {t[want[c]]} ELSE seen[c]]
  BY DEF Observe
<1> QED BY <1>2, <1>3

LEMMA TypeStep ==
  ASSUME TypeOK, TaskInv, Next PROVE TypeOK'
<1> USE RefPublicationAssumption, ConstTypes
    DEF TypeOK, RepoTypeOK, CallTypeOK, PcValues, Class, ClassOf, Reading,
        readVars, taskVars, fileVars, history, writes
<1>b. ASSUME NEW c \in Client, Materialized(c)
      PROVE  /\ (holder \in Client \union {NoClient})'
             /\ (pc \in [Client -> PcValues])'
             /\ (class \in [Client -> Class])'
             /\ (tip \in [Client -> 0..MaxLog])'
             /\ (upd \in [Client -> [Ref -> Value \union {Keep}]])'
             /\ (plan \in [Client -> [Ref -> Value \union {Keep}]])'
             /\ (saved \in [Client -> [Ref -> Value]])'
             /\ (want \in [Client -> Ref \union {NoRef}])'
             /\ (seen \in [Client -> SUBSET Value])'
  <2>1. CASE Reading(c)
    <3>1. Return(c)
      BY <1>b, <2>1 DEF Materialized
    <3>2. (seen \in [Client -> SUBSET Value])'
      <4>1. {} \in SUBSET Value
        OBVIOUS
      <4> QED BY <3>1, <4>1, SeenSet DEF Return, ForgetTask
    <3> QED BY <3>1, <3>2 DEF Return, ForgetTask, Goto
  <2>2. CASE ~Reading(c)
    <3>1. UNCHANGED <<holder, tip, upd, plan, saved, want, seen>>
      BY <1>b, <2>2 DEF Materialized
    <3>2. Goto(c, IF class[c] = "local" THEN "tip" ELSE "validate")
          /\ class' = [class EXCEPT ![c] = "shared"]
      BY <1>b, <2>2 DEF Materialized
    <3> QED BY <3>1, <3>2 DEF HistoryTypeOK, Goto
  <2> QED BY <2>1, <2>2
<1>1. ASSUME NEW h \in Handle, Open(h) PROVE TypeOK'
  <2>1. RepoTypeOK'
    BY <1>1 DEF Open
  <2>2. CallTypeOK'
    BY <1>1 DEF Open
  <2>3. HistoryTypeOK'
    BY <1>1 DEF Open, HistoryTypeOK
  <2> QED BY <2>1, <2>2, <2>3
<1>2. ASSUME NEW h \in Handle, Close(h) PROVE TypeOK'
  <2>1. RepoTypeOK'
    BY <1>2 DEF Close
  <2>2. CallTypeOK'
    <3>1. (pc \in [Client -> PcValues])' /\ (class \in [Client -> Class])'
          /\ (tip \in [Client -> 0..MaxLog])'
      BY <1>2 DEF Close
    <3>2. (upd \in [Client -> [Ref -> Value \union {Keep}]])'
      BY <1>2 DEF Close
    <3>3. (plan \in [Client -> [Ref -> Value \union {Keep}]])'
      BY <1>2 DEF Close
    <3>4. (saved \in [Client -> [Ref -> Value]])'
      BY <1>2 DEF Close
    <3>5. (want \in [Client -> Ref \union {NoRef}])'
      BY <1>2 DEF Close
    <3>6. (got \in [Client -> [Ref -> Value \union {Unread}]])'
      BY <1>2 DEF Close
    <3> QED BY <3>1, <3>2, <3>3, <3>4, <3>5, <3>6
  <2>3. HistoryTypeOK'
    BY <1>2 DEF Close, HistoryTypeOK
  <2> QED BY <2>1, <2>2, <2>3
<1>3. ASSUME NEW c \in Client, NEW r \in Ref, BeginRead(c, r) PROVE TypeOK'
  <2>1. RepoTypeOK'
    BY <1>3 DEF BeginRead, Goto
  <2>2. CallTypeOK'
    <3>1. (want \in [Client -> Ref \union {NoRef}])' /\ (pc \in [Client -> PcValues])'
      BY <1>3 DEF BeginRead, Goto, PcValues
    <3>2. (tip \in [Client -> 0..MaxLog])'
      BY <1>3 DEF BeginRead
    <3> QED BY <1>3, <3>1, <3>2 DEF BeginRead
  <2>3. HistoryTypeOK'
    <3>1. truth[r] \in Value
      BY DEF HistoryTypeOK
    <3>2. {truth[r]} \in SUBSET Value
      BY <3>1
    <3>3. (seen \in [Client -> SUBSET Value])'
      BY <1>3, <3>2, SeenSet DEF BeginRead
    <3> QED BY <1>3, <3>3 DEF BeginRead, HistoryTypeOK
  <2> QED BY <2>1, <2>2, <2>3
<1>20. ASSUME NEW c \in Client, Gate(c) PROVE TypeOK'
  <2>1. RepoTypeOK'
    BY <1>20 DEF Gate
  <2>2. CallTypeOK'
    BY <1>20 DEF Gate, Goto
  <2>3. HistoryTypeOK'
    BY <1>20 DEF Gate, HistoryTypeOK
  <2> QED BY <2>1, <2>2, <2>3
<1>4. ASSUME NEW c \in Client, RawRead(c) PROVE TypeOK'
  <2>1. RepoTypeOK'
    BY <1>4 DEF RawRead, ForgetTask, Goto, TaskInv
  <2>2. CallTypeOK'
    <3>1. (got \in [Client -> [Ref -> Value \union {Unread}]])'
      BY <1>4 DEF RawRead, TaskInv
    <3> QED BY <1>4, <3>1 DEF RawRead, ForgetTask, Goto
  <2>3. HistoryTypeOK'
    BY <1>4 DEF RawRead, ForgetTask, Goto, TaskInv, HistoryTypeOK
  <2> QED BY <2>1, <2>2, <2>3
<1>5. ASSUME NEW c \in Client, NEW u \in Batches(c), BeginRecorded(c, u) PROVE TypeOK'
  <2>1. RepoTypeOK'
    BY <1>5 DEF BeginRecorded, Goto, Batches
  <2>2. CallTypeOK'
    BY <1>5 DEF BeginRecorded, Goto, Batches
  <2>3. HistoryTypeOK'
    BY <1>5 DEF BeginRecorded, Goto, Batches, HistoryTypeOK
  <2> QED BY <2>1, <2>2, <2>3
<1>6. ASSUME NEW c \in Client, NEW u \in Batches(c), BeginDirect(c, u) PROVE TypeOK'
  <2>1. RepoTypeOK'
    BY <1>6 DEF BeginDirect, Goto, Batches
  <2>2. CallTypeOK'
    BY <1>6 DEF BeginDirect, Goto, Batches
  <2>3. HistoryTypeOK'
    BY <1>6 DEF BeginDirect, Goto, Batches, HistoryTypeOK
  <2> QED BY <2>1, <2>2, <2>3
<1>7. ASSUME NEW c \in Client, Lock(c) PROVE TypeOK'
  <2>1. RepoTypeOK'
    BY <1>7 DEF Lock, Goto
  <2>2. CallTypeOK'
    BY <1>7 DEF Lock, Goto
  <2>3. HistoryTypeOK'
    BY <1>7 DEF Lock, Goto, HistoryTypeOK
  <2> QED BY <2>1, <2>2, <2>3
<1>8. ASSUME NEW c \in Client, FailUnlocked(c) PROVE TypeOK'
  <2>1. RepoTypeOK'
    BY <1>8 DEF FailUnlocked, ForgetTask, ForgetReads, Goto
  <2>2. CallTypeOK'
    <3>1. (got \in [Client -> [Ref -> Value \union {Unread}]])'
      BY <1>8 DEF FailUnlocked, ForgetReads
    <3>2. ForgetTask(c) /\ Goto(c, "idle")
      BY <1>8 DEF FailUnlocked
    <3> QED BY <3>1, <3>2 DEF ForgetTask, Goto
  <2>3. HistoryTypeOK'
    BY <1>8 DEF FailUnlocked, ForgetTask, ForgetReads, Goto, HistoryTypeOK
  <2> QED BY <2>1, <2>2, <2>3
<1>9. ASSUME NEW c \in Client, MaterializeClass(c) PROVE TypeOK'
  <2> DEFINE k == class[c]
             m == Larger(Watermark(c, k), Persisted(c, k))
  <2>1. m \in 0..MaxLog
    BY DEF Larger, Watermark, Persisted
  <2>2. \A r \in Ref : FoldValue(c, k, m, r) \in Value \union {Keep}
    <3>1. m \in Nat /\ k \in Class
      BY <2>1
    <3> HIDE DEF m, k
    <3> QED BY <3>1, FoldType
  <2>3. Lagging(c, k, m) \in [Ref -> Value \union {Keep}]
    BY <2>2 DEF Lagging, Republish
  <2>4. Reading(c) => Reconciled(c, k, m, want[c]) \in Value
    BY <2>2 DEF Reconciled
  <2>5. CASE m < Len(log)
    <3>1. RepoTypeOK'
      <4>1. /\ mem' = [mem EXCEPT ![HandleOf[c]][k] = m]
            /\ UNCHANGED <<log, ref, fileLocal, fileShared, open, holder>>
        BY <1>9, <2>5 DEF MaterializeClass
      <4> HIDE DEF m, k, CallTypeOK
      <4> QED BY <2>1, <4>1
    <3>2. CallTypeOK'
      <4>1. (got \in [Client -> [Ref -> Value \union {Unread}]])'
        BY <1>9, <2>4, <2>5 DEF MaterializeClass
      <4>2. plan' = [plan EXCEPT ![c] = Lagging(c, k, m)]
        BY <1>9, <2>5 DEF MaterializeClass
      <4>3. tip' = [tip EXCEPT ![c] = Len(log)]
            /\ saved' = [saved EXCEPT ![c] = ref]
            /\ Goto(c, "publish")
            /\ UNCHANGED <<class, upd, want>>
        BY <1>9, <2>5 DEF MaterializeClass
      <4> HIDE DEF m, k
      <4> QED BY <2>3, <4>1, <4>2, <4>3 DEF Goto
    <3>3. HistoryTypeOK'
      <4>1. UNCHANGED <<truth, last, direct, author, unsaved, seen>>
        BY <1>9, <2>5 DEF MaterializeClass, history, writes
      <4>2. foreign' \in BOOLEAN
        <5>1. foreign' = (foreign \/ Strays(c, plan'[c]))
          BY <1>9, <2>5, Zenon DEF MaterializeClass
        <5> QED BY <5>1, Zenon
      <4> HIDE DEF m, k, RepoTypeOK, CallTypeOK
      <4> QED BY <4>1, <4>2 DEF HistoryTypeOK
    <3> QED BY <3>1, <3>2, <3>3
  <2>6. CASE ~(m < Len(log))
    <3>1. Materialized(c)
      BY <1>9, <2>6 DEF MaterializeClass
    <3>2. (got \in [Client -> [Ref -> Value \union {Unread}]])'
      BY <1>9, <2>6 DEF MaterializeClass
    <3>3. RepoTypeOK'
      BY <1>9, <1>b, <2>1, <3>1 DEF MaterializeClass
    <3> QED BY <1>9, <1>b, <3>1, <3>2, <3>3 DEF MaterializeClass, HistoryTypeOK
  <2> QED BY <2>5, <2>6
<1>10. ASSUME NEW c \in Client, NEW r \in Ref, Publish(c, r) PROVE TypeOK'
  <2>1. RepoTypeOK'
    <3>1. plan[c][r] \in Value /\ ref' = [ref EXCEPT ![r] = plan[c][r]]
      BY <1>10 DEF Publish
    <3>2. UNCHANGED <<log, fileLocal, fileShared, mem, open, holder>>
      BY <1>10 DEF Publish
    <3> HIDE DEF CallTypeOK
    <3> QED BY <3>1, <3>2
  <2>2. CallTypeOK'
    BY <1>10 DEF Publish
  <2>3. HistoryTypeOK'
    BY <1>10 DEF Publish, HistoryTypeOK
  <2> QED BY <2>1, <2>2, <2>3
<1>11. ASSUME NEW c \in Client, NEW r \in Ref, PublishDirect(c, r) \/ UndoDirect(c, r)
       PROVE  TypeOK'
  <2> DEFINE v == ref'[r]
             Written(w) == /\ ref' = [ref EXCEPT ![r] = w] /\ truth' = [truth EXCEPT ![r] = w]
                           /\ direct' = [direct EXCEPT ![r] = TRUE] /\ Observe(truth')
                           /\ author' = [author EXCEPT ![r] = Home(c)]
                           /\ UNCHANGED <<log, fileLocal, fileShared, mem, open, holder,
                                          pc, class, tip, upd, saved, want, got, last,
                                          foreign, unsaved>>
  <2>a. /\ \E w \in Value : Written(w)
        /\ (plan \in [Client -> [Ref -> Value \union {Keep}]])'
    <3>1. CASE PublishDirect(c, r)
      <4>1. plan[c][r] \in Value /\ plan' = [plan EXCEPT ![c][r] = Keep]
        BY <3>1 DEF PublishDirect
      <4>2. Written(plan[c][r])
        BY <3>1 DEF PublishDirect, DirectWrite
      <4> QED BY <4>1, <4>2
    <3>2. CASE UndoDirect(c, r)
      <4>1. saved[c][r] \in Value /\ plan' = plan
        BY <3>2 DEF UndoDirect
      <4>2. Written(saved[c][r])
        BY <3>2 DEF UndoDirect, DirectWrite
      <4> QED BY <4>1, <4>2
    <3> QED BY <1>11, <3>1, <3>2
  <2>0. v \in Value /\ Written(v)
    BY <2>a
  <2> HIDE DEF v
  <2>1. RepoTypeOK'
    <3>1. v \in Value /\ ref' = [ref EXCEPT ![r] = v]
      BY <2>0
    <3>2. UNCHANGED <<log, fileLocal, fileShared, mem, open, holder>>
      BY <2>0
    <3> HIDE DEF CallTypeOK
    <3> QED BY <3>1, <3>2
  <2>2. CallTypeOK'
    <3>1. (plan \in [Client -> [Ref -> Value \union {Keep}]])'
      BY <2>a
    <3>2. UNCHANGED <<pc, class, tip, upd, saved, want, got>>
      BY <2>0
    <3> HIDE DEF RepoTypeOK
    <3> QED BY <3>1, <3>2
  <2>3. HistoryTypeOK'
    <3>1. (truth \in [Ref -> Value])'
      BY <2>0 DEF HistoryTypeOK
    <3>4. (last \in [Ref -> 0..MaxLog])'
      <4> HIDE RefPublicationAssumption, ConstTypes DEF RepoTypeOK, CallTypeOK
      <4> QED BY <2>0 DEF HistoryTypeOK
    <3>2. (direct \in [Ref -> BOOLEAN])'
      BY <2>0 DEF HistoryTypeOK
    <3>3. (seen \in [Client -> SUBSET Value])'
      BY <2>0, <3>1, SeenObserve
    <3>5. /\ (author \in [Ref -> Worktree \union {None}])'
          /\ (foreign \in BOOLEAN)' /\ (unsaved \in BOOLEAN)'
      BY <2>0 DEF HistoryTypeOK
    <3> QED BY <3>1, <3>2, <3>3, <3>4, <3>5 DEF HistoryTypeOK
  <2> QED BY <2>1, <2>2, <2>3
<1>12. ASSUME NEW c \in Client, PublishFail(c) PROVE TypeOK'
  <2>1. RepoTypeOK'
    BY <1>12 DEF PublishFail, Return, ForgetTask, ForgetReads, Goto
  <2>2. CallTypeOK'
    BY <1>12 DEF PublishFail, Return, ForgetTask, ForgetReads, Goto
  <2>3. HistoryTypeOK'
    BY <1>12 DEF PublishFail, Return, ForgetTask, ForgetReads, Goto, HistoryTypeOK
  <2> QED BY <2>1, <2>2, <2>3
<1>13. ASSUME NEW c \in Client, AdvanceWatermark(c) PROVE TypeOK'
  <2>1. Materialized(c)
    BY <1>13 DEF AdvanceWatermark
  <2>2. mem' \in [Handle -> [Class -> 0..MaxLog]]
    BY <1>13 DEF AdvanceWatermark
  <2>3. fileLocal' \in [Worktree -> 0..MaxLog] /\ fileShared' \in 0..MaxLog
    <3>1. \A a, b \in 0..MaxLog : Larger(a, b) \in 0..MaxLog
      BY DEF Larger
    <3>2. \A k \in Class : ([mem[HandleOf[c]] EXCEPT ![class[c]] = tip[c]])[k] \in 0..MaxLog
      OBVIOUS
    <3> DEFINE new == [mem[HandleOf[c]] EXCEPT ![class[c]] = tip[c]]
    <3>3. fileShared' \in {fileShared, Larger(fileShared, new["shared"])}
      BY <1>13 DEF AdvanceWatermark
    <3>4. \/ fileLocal' = fileLocal
          \/ fileLocal' = [fileLocal EXCEPT ![Home(c)] = Larger(@, new["local"])]
      BY <1>13 DEF AdvanceWatermark
    <3>5. new["shared"] \in 0..MaxLog /\ new["local"] \in 0..MaxLog
      BY <3>2
    <3> HIDE DEF new
    <3>6. Larger(fileShared, new["shared"]) \in 0..MaxLog
          /\ Larger(fileLocal[Home(c)], new["local"]) \in 0..MaxLog
      BY <3>1, <3>5
    <3>7. fileShared' \in 0..MaxLog
      <4> HIDE RefPublicationAssumption, ConstTypes
      <4> QED BY <3>3, <3>6
    <3>8. fileLocal' \in [Worktree -> 0..MaxLog]
      <4>1. fileLocal \in [Worktree -> 0..MaxLog]
        OBVIOUS
      <4> HIDE RefPublicationAssumption, ConstTypes DEF RepoTypeOK, CallTypeOK,
          TypeOK
      <4> QED BY <3>4, <3>6, <4>1
    <3> QED BY <3>7, <3>8
  <2>4. UNCHANGED <<log, ref, open, got, truth, last, direct, author, foreign>>
    BY <1>13 DEF AdvanceWatermark, writes
  <2>5. unsaved' \in BOOLEAN
    BY <1>13 DEF AdvanceWatermark, HistoryTypeOK
  <2> QED BY <1>b, <2>1, <2>2, <2>3, <2>4, <2>5 DEF HistoryTypeOK
<1>14. ASSUME NEW c \in Client, Validate(c) PROVE TypeOK'
  <2>1. RepoTypeOK'
    BY <1>14 DEF Validate, Goto
  <2>2. CallTypeOK'
    BY <1>14 DEF Validate, Goto
  <2>3. HistoryTypeOK'
    BY <1>14 DEF Validate, Goto, HistoryTypeOK
  <2> QED BY <2>1, <2>2, <2>3
<1>15. ASSUME NEW c \in Client, Conflict(c) PROVE TypeOK'
  <2>1. RepoTypeOK'
    BY <1>15 DEF Conflict, Return, ForgetTask, ForgetReads, Goto
  <2>2. CallTypeOK'
    BY <1>15 DEF Conflict, Return, ForgetTask, ForgetReads, Goto
  <2>3. HistoryTypeOK'
    BY <1>15 DEF Conflict, Return, ForgetTask, ForgetReads, Goto, HistoryTypeOK
  <2> QED BY <2>1, <2>2, <2>3
<1>16. ASSUME NEW c \in Client, PlanDirect(c) PROVE TypeOK'
  <2>1. RepoTypeOK'
    BY <1>16 DEF PlanDirect, Goto
  <2>2. CallTypeOK'
    BY <1>16 DEF PlanDirect, Goto
  <2>3. HistoryTypeOK'
    BY <1>16 DEF PlanDirect, Goto, HistoryTypeOK
  <2> QED BY <2>1, <2>2, <2>3
<1>17. ASSUME NEW c \in Client, Commit(c) PROVE TypeOK'
  <2>1. RepoTypeOK'
    <3>1. [scope |-> Home(c), upd |-> upd[c]] \in Entry
      BY DEF Entry
    <3>2. /\ log' = Append(log, [scope |-> Home(c), upd |-> upd[c]])
          /\ Len(log) < MaxLog
          /\ UNCHANGED <<ref, fileLocal, fileShared, mem, open, holder>>
      BY <1>17 DEF Commit
    <3>3. log' \in Seq(Entry) /\ Len(log') <= MaxLog
      <4> HIDE DEF CallTypeOK
      <4> QED BY <3>1, <3>2
    <3> QED BY <3>2, <3>3
  <2>2. CallTypeOK'
    BY <1>17 DEF Commit, Observe, Goto, Entry
  <2>3. HistoryTypeOK'
    <3>1. (truth \in [Ref -> Value])'
      BY <1>17 DEF Commit, HistoryTypeOK
    <3>4. (last \in [Ref -> 0..MaxLog])'
      <4>1. last \in [Ref -> 0..MaxLog] /\ Len(log) \in Nat
        <5> HIDE RefPublicationAssumption, ConstTypes DEF CallTypeOK
        <5> QED BY DEF HistoryTypeOK
      <4> HIDE RefPublicationAssumption, ConstTypes DEF RepoTypeOK, CallTypeOK,
          TypeOK
      <4> QED BY <1>17, <4>1, RefPublicationAssumption DEF Commit
    <3>2. (direct \in [Ref -> BOOLEAN])'
      BY <1>17 DEF Commit, HistoryTypeOK
    <3>3. (seen \in [Client -> SUBSET Value])'
      BY <1>17, <3>1, SeenObserve DEF Commit
    <3>5. (author \in [Ref -> Worktree \union {None}])'
      BY <1>17 DEF Commit, HistoryTypeOK
    <3>6. (foreign \in BOOLEAN)' /\ (unsaved \in BOOLEAN)'
      BY <1>17 DEF Commit, HistoryTypeOK
    <3> QED BY <3>1, <3>2, <3>3, <3>4, <3>5, <3>6 DEF HistoryTypeOK
  <2> QED BY <2>1, <2>2, <2>3
<1>18. ASSUME NEW c \in Client, FailLocked(c) PROVE TypeOK'
  <2>1. RepoTypeOK'
    BY <1>18 DEF FailLocked, Return, ForgetTask, ForgetReads, Goto
  <2>2. CallTypeOK'
    BY <1>18 DEF FailLocked, Return, ForgetTask, ForgetReads, Goto
  <2>3. HistoryTypeOK'
    BY <1>18 DEF FailLocked, Return, ForgetTask, ForgetReads, Goto, HistoryTypeOK
  <2> QED BY <2>1, <2>2, <2>3
<1>19. ASSUME NEW c \in Client, ApplyDone(c) PROVE TypeOK'
  <2>1. RepoTypeOK'
    BY <1>19 DEF ApplyDone, Return, ForgetTask, ForgetReads, Goto
  <2>2. CallTypeOK'
    BY <1>19 DEF ApplyDone, Return, ForgetTask, ForgetReads, Goto
  <2>3. HistoryTypeOK'
    BY <1>19 DEF ApplyDone, Return, ForgetTask, ForgetReads, Goto, HistoryTypeOK
  <2> QED BY <2>1, <2>2, <2>3
<1> QED
  BY <1>1, <1>2, <1>3, <1>4, <1>5, <1>6, <1>7, <1>8, <1>9, <1>10, <1>11, <1>12,
      <1>13, <1>14, <1>15, <1>16, <1>17, <1>18, <1>19, <1>20 DEF Next, ClientNext

(* What is left to do for a call whose class is up to date. *)
LEMMA MaterializedCases ==
  ASSUME NEW c, Materialized(c)
  PROVE  \/ Reading(c) /\ Return(c)
         \/ /\ ~Reading(c)
            /\ Goto(c, IF class[c] = "local" THEN "tip" ELSE "validate")
            /\ class' = [class EXCEPT ![c] = "shared"]
            /\ UNCHANGED <<holder, tip, upd, plan, saved, want, seen>>
  BY DEF Materialized

LEMMA TaskStep ==
  ASSUME TypeOK, TypeOK', TaskInv, Next PROVE TaskInv'
<1> USE RefPublicationAssumption, ConstTypes
    DEF TypeOK, CallTypeOK, TaskInv, Class, ClassOf, Reading, Touched, Home,
        readVars, taskVars
<1>a. ASSUME NEW c \in Client, Materialized(c), pc[c] \in {"tip", "publish"}
      PROVE  TaskInv'
  <2>1. CASE Return(c)
    BY <1>a, <2>1 DEF Return, ForgetTask, Goto
  <2>2. CASE /\ ~Reading(c)
             /\ Goto(c, IF class[c] = "local" THEN "tip" ELSE "validate")
             /\ class' = [class EXCEPT ![c] = "shared"]
             /\ UNCHANGED <<upd, plan, want>>
    BY <1>a, <2>2 DEF Goto
  <2> QED BY <1>a, <2>1, <2>2, MaterializedCases
<1>1. ASSUME NEW h \in Handle, Open(h) PROVE TaskInv'
  BY <1>1 DEF Open
<1>2. ASSUME NEW h \in Handle, Close(h) PROVE TaskInv'
  BY <1>2 DEF Close
<1>3. ASSUME NEW c \in Client, NEW r \in Ref, BeginRead(c, r) PROVE TaskInv'
  BY <1>3 DEF BeginRead, Goto
<1>20. ASSUME NEW c \in Client, Gate(c) PROVE TaskInv'
  BY <1>20 DEF Gate, Goto
<1>4. ASSUME NEW c \in Client, RawRead(c) PROVE TaskInv'
  BY <1>4 DEF RawRead, ForgetTask, Goto
<1>5. ASSUME NEW c \in Client, NEW u \in Batches(c), BeginRecorded(c, u) PROVE TaskInv'
  BY <1>5 DEF BeginRecorded, Goto, Batches
<1>6. ASSUME NEW c \in Client, NEW u \in Batches(c), BeginDirect(c, u) PROVE TaskInv'
  BY <1>6 DEF BeginDirect, Goto, Batches
<1>7. ASSUME NEW c \in Client, Lock(c) PROVE TaskInv'
  BY <1>7 DEF Lock, Goto
<1>8. ASSUME NEW c \in Client, FailUnlocked(c) PROVE TaskInv'
  BY <1>8 DEF FailUnlocked, ForgetTask, Goto
<1>9. ASSUME NEW c \in Client, MaterializeClass(c) PROVE TaskInv'
  <2>1. CASE Materialized(c)
    BY <1>9, <1>a, <2>1 DEF MaterializeClass
  <2>2. CASE /\ Goto(c, "publish")
             /\ \E p : plan' = [plan EXCEPT ![c] = p]
             /\ UNCHANGED <<class, upd, want>>
    <3>1. pc[c] = "tip"
      BY <1>9 DEF MaterializeClass
    <3> QED BY <2>2, <3>1 DEF Goto
  <2>3. Materialized(c) \/ /\ Goto(c, "publish")
                           /\ \E p : plan' = [plan EXCEPT ![c] = p]
                           /\ UNCHANGED <<class, upd, want>>
    BY <1>9, Zenon DEF MaterializeClass
  <2> QED BY <2>1, <2>2, <2>3
<1>10. ASSUME NEW c \in Client, NEW r \in Ref, Publish(c, r) PROVE TaskInv'
  BY <1>10 DEF Publish
<1>11. ASSUME NEW c \in Client, NEW r \in Ref, PublishDirect(c, r) \/ UndoDirect(c, r)
       PROVE  TaskInv'
  <2>1. /\ \/ plan' = [plan EXCEPT ![c][r] = Keep]
           \/ plan' = plan
        /\ UNCHANGED <<pc, class, upd, want>>
    BY <1>11 DEF PublishDirect, UndoDirect, DirectWrite
  <2> QED BY <2>1
<1>12. ASSUME NEW c \in Client, PublishFail(c) PROVE TaskInv'
  BY <1>12 DEF PublishFail, Return, ForgetTask, Goto
<1>13. ASSUME NEW c \in Client, AdvanceWatermark(c) PROVE TaskInv'
  BY <1>13, <1>a DEF AdvanceWatermark
<1>14. ASSUME NEW c \in Client, Validate(c) PROVE TaskInv'
  BY <1>14 DEF Validate, Goto
<1>15. ASSUME NEW c \in Client, Conflict(c) PROVE TaskInv'
  BY <1>15 DEF Conflict, Return, ForgetTask, Goto
<1>16. ASSUME NEW c \in Client, PlanDirect(c) PROVE TaskInv'
  BY <1>16 DEF PlanDirect, Goto
<1>17. ASSUME NEW c \in Client, Commit(c) PROVE TaskInv'
  BY <1>17 DEF Commit, Goto
<1>18. ASSUME NEW c \in Client, FailLocked(c) PROVE TaskInv'
  BY <1>18 DEF FailLocked, Return, ForgetTask, Goto
<1>19. ASSUME NEW c \in Client, ApplyDone(c) PROVE TaskInv'
  BY <1>19 DEF ApplyDone, Return, ForgetTask, Goto
<1> QED
  BY <1>1, <1>2, <1>3, <1>4, <1>5, <1>6, <1>7, <1>8, <1>9, <1>10, <1>11, <1>12,
      <1>13, <1>14, <1>15, <1>16, <1>17, <1>18, <1>19, <1>20 DEF Next, ClientNext

LEMMA StutterType ==
  ASSUME TypeOK, TaskInv, UNCHANGED vars PROVE TypeOK' /\ TaskInv'
  BY DEF TypeOK, RepoTypeOK, CallTypeOK, HistoryTypeOK, TaskInv, Touched, Reading,
         vars, fileVars, taskVars, readVars, history, writes

LEMMA InitType ==
  ASSUME Init PROVE TypeOK /\ TaskInv
<1> USE RefPublicationAssumption, ConstTypes DEF Init
<1>1. RepoTypeOK
  BY DEF RepoTypeOK, Class
<1>2. CallTypeOK
  BY DEF CallTypeOK, Class, PcValues
<1>3. HistoryTypeOK
  <2>1. truth \in [Ref -> Value] /\ last \in [Ref -> 0..MaxLog]
    OBVIOUS
  <2>2. direct \in [Ref -> BOOLEAN] /\ author \in [Ref -> Worktree \union {None}]
    OBVIOUS
  <2>3. foreign \in BOOLEAN /\ unsaved \in BOOLEAN
    OBVIOUS
  <2>4. seen \in [Client -> SUBSET Value]
    OBVIOUS
  <2> QED BY <2>1, <2>2, <2>3, <2>4 DEF HistoryTypeOK
<1>4. TaskInv
  BY DEF TaskInv, Touched, Reading
<1> QED BY <1>1, <1>2, <1>3, <1>4 DEF TypeOK

(* The variables keep to their types, whatever the clients, worktrees and   *)
(* failures: every value a fold yields is a value or Keep, and a read under *)
(* way names a ref.                                                         *)
THEOREM RefTypeOK == Spec => []TypeOK
<1>1. Init => TypeOK /\ TaskInv
  BY InitType
<1>2. TypeOK /\ TaskInv /\ [Next]_vars => (TypeOK /\ TaskInv)'
  BY TypeStep, TaskStep, StutterType
<1> QED BY <1>1, <1>2, PTL DEF Spec

-----------------------------------------------------------------------------
LEMMA WatermarkTypes ==
  ASSUME TypeOK
  PROVE  /\ Len(log) \in Nat
         /\ \A h \in Handle, k \in Class : mem[h][k] \in Nat
         /\ fileShared \in Nat /\ \A w \in Worktree : fileLocal[w] \in Nat
         /\ \A r \in Ref : last[r] \in Nat
  BY RefPublicationAssumption DEF TypeOK, RepoTypeOK, HistoryTypeOK

(* A fold that sees the newest record of the ref yields it, if it is above   *)
(* the watermark.                                                           *)
LEMMA FoldLast ==
  ASSUME TypeOK, HistoryInv, NEW c \in Client, NEW k \in Class,
         NEW since \in Nat, NEW r \in Ref
  PROVE  /\ last[r] <= since => FoldValue(c, k, since, r) = Keep
         /\ last[r] > since /\ (k = "local" => log[last[r]].scope = Home(c))
              => FoldValue(c, k, since, r) = log[last[r]].upd[r]
<1> USE RefPublicationAssumption, ConstTypes
<1>1. RepoTypeOK /\ last[r] \in Nat /\ Len(log) \in Nat
  BY WatermarkTypes DEF TypeOK
<1>4. \A i \in FoldTail(c, k, since, r) :
        i \in since + 1 .. Len(log) /\ log[i].upd[r] # Keep
  BY DEF FoldTail
<1>5. \A i \in FoldTail(c, k, since, r) : i \in Nat /\ i <= last[r] /\ since < i
  BY <1>1, <1>4 DEF HistoryInv
<1>6. ASSUME last[r] <= since PROVE FoldValue(c, k, since, r) = Keep
  <2>1. FoldTail(c, k, since, r) = {}
    BY <1>1, <1>5, <1>6
  <2> QED BY <2>1 DEF FoldValue
<1>7. ASSUME last[r] > since, k = "local" => log[last[r]].scope = Home(c)
      PROVE  FoldValue(c, k, since, r) = log[last[r]].upd[r]
  <2>1. last[r] \in FoldTail(c, k, since, r)
    <3>1. last[r] \in since + 1 .. Len(log) /\ log[last[r]].upd[r] # Keep
      BY <1>1, <1>7 DEF HistoryInv
    <3> QED BY <1>7, <3>1 DEF FoldTail
  <2>2. PICK i \in FoldTail(c, k, since, r) :
               /\ \A j \in FoldTail(c, k, since, r) : j <= i
               /\ FoldValue(c, k, since, r) = log[i].upd[r]
    BY <1>1, <2>1, FoldNewest
  <2>3. i = last[r]
    BY <1>1, <1>5, <2>1, <2>2
  <2> QED BY <2>2, <2>3
<1> QED BY <1>6, <1>7

(* The watermark that materialize_class folds from. *)
FoldFrom(c, k) == Larger(Watermark(c, k), Persisted(c, k))

(* What materialize_class computes for the refs of its class: what it does  *)
(* not plan is already in the file, and the value that it projects for a    *)
(* read is the truth.  What it plans is the truth too, unless it takes in a *)
(* thread of another worktree.                                              *)
LEMMA FoldTruth ==
  ASSUME IndInv, NEW c \in Client, NEW k \in Class
  PROVE  /\ FoldFrom(c, k) \in Nat
         /\ FoldFrom(c, k) <= Len(log)
         /\ mem[HandleOf[c]][k] <= FoldFrom(c, k)
         /\ DirectWriters # {} => FoldFrom(c, k) <= Persisted(c, k)
         /\ \A r \in OwnRefs(c, k), n \in Nat : n <= FoldFrom(c, k) => Vouched(r, n)
         /\ \/ k = "local" /\ \E r \in Thread : /\ Lagging(c, k, FoldFrom(c, k))[r] # Keep
                                                /\ author[r] # Home(c)
            \/ \A r \in Ref : Lagging(c, k, FoldFrom(c, k))[r] \in {Keep, truth[r]}
         /\ \A r \in OwnRefs(c, k) : Lagging(c, k, FoldFrom(c, k))[r] = Keep
                                       => ref[r] = truth[r]
         /\ \A r \in OwnRefs(c, k) : Reconciled(c, k, FoldFrom(c, k), r) = truth[r]
<1> USE RefPublicationAssumption, ConstTypes
<1> DEFINE m == FoldFrom(c, k)
<1>0. m = Larger(Watermark(c, k), Persisted(c, k))
  BY DEF FoldFrom
<1> HIDE DEF m
<1>1. m \in Nat /\ m <= Len(log) /\ mem[HandleOf[c]][k] <= m /\ Persisted(c, k) <= m
  BY <1>0 DEF IndInv, TypeOK, RepoTypeOK, BoundInv, Larger, Watermark, Persisted,
      Class
<1>2. ASSUME NEW r \in OwnRefs(c, k), NEW n \in Nat, n <= m PROVE Vouched(r, n)
  BY <1>0, <1>2 DEF OwnRefs, Vouched, ClassOf, Larger, Watermark, Persisted, Home
<1>3. ASSUME NEW r \in Ref, r \in OwnRefs(c, k) \/ (k = "local" /\ author[r] = Home(c))
      PROVE  /\ FoldValue(c, k, m, r) \in {Keep, truth[r]}
             /\ last[r] > m => FoldValue(c, k, m, r) = truth[r]
  <2>0. last[r] \in Nat
    BY WatermarkTypes DEF IndInv
  <2>1. CASE last[r] <= m
    BY <1>1, <2>0, <2>1, FoldLast DEF IndInv
  <2>2. CASE last[r] > m
    <3>0. ~(last[r] <= m) /\ last[r] > 0
      BY <1>1, <2>0, <2>2
    <3>1. ~direct[r]
      <4>1. k = "shared" \/ k = "local"
        BY DEF Class
      <4>2. ASSUME direct[r] PROVE last[r] <= Persisted(c, k)
        <5>1. /\ last[r] <= fileShared
              /\ \A w \in Worktree : w = r \/ w = author[r] => last[r] <= fileLocal[w]
          BY <4>2 DEF IndInv, DirectInv
        <5>2. k = "local" => r = Home(c) \/ author[r] = Home(c)
          BY <1>3 DEF OwnRefs, ClassOf
        <5> QED BY <4>1, <5>1, <5>2 DEF Persisted
      <4>3. Persisted(c, k) \in Nat
        BY <4>1, WatermarkTypes DEF IndInv, Persisted
      <4> QED BY <1>1, <2>0, <3>0, <4>2, <4>3
    <3>2. truth[r] = log[last[r]].upd[r] /\ author[r] = log[last[r]].scope
      BY <3>0, <3>1 DEF IndInv, HistoryInv
    <3>3. k = "local" => log[last[r]].scope = Home(c)
      BY <1>3, <3>0, <3>2 DEF OwnRefs, ClassOf, IndInv, HistoryInv
    <3> QED BY <1>1, <2>2, <3>2, <3>3, FoldLast DEF IndInv
  <2> QED BY <1>1, <2>0, <2>1, <2>2
<1>4. ASSUME NEW r \in OwnRefs(c, k)
      PROVE  /\ r \in Ref
             /\ FoldValue(c, k, m, r) = Keep => ref[r] = truth[r]
             /\ Reconciled(c, k, m, r) = truth[r]
  <2>0. r \in Ref
    BY DEF OwnRefs
  <2>1. last[r] <= m => ref[r] = truth[r]
    BY <1>2, <2>0, WatermarkTypes DEF IndInv, WatermarkSoundAlways, Covered
  <2>2. truth[r] # Keep /\ last[r] \in Nat
    BY <2>0 DEF IndInv, TypeOK, HistoryTypeOK
  <2> QED BY <1>1, <1>3, <2>0, <2>1, <2>2 DEF Reconciled
<1>6. ASSUME NEW r \in Ref
      PROVE  /\ Lagging(c, k, m)[r] = IF Republish(c, k, m, r) = ref[r] THEN Keep
                                      ELSE Republish(c, k, m, r)
             /\ Republish(c, k, m, r) \in {Keep, FoldValue(c, k, m, r)}
             /\ r \in OwnRefs(c, k) => Republish(c, k, m, r) = FoldValue(c, k, m, r)
             /\ Republish(c, k, m, r) # Keep =>
                  r \in OwnRefs(c, k) \/ (k = "local" /\ r \in Thread)
             /\ ref[r] # Keep
  <2>1. Lagging(c, k, m)[r] = IF Republish(c, k, m, r) = ref[r] THEN Keep
                              ELSE Republish(c, k, m, r)
    BY DEF Lagging
  <2>2. ref[r] # Keep
    BY DEF IndInv, TypeOK, RepoTypeOK
  <2>3. Republish(c, k, m, r) \in {Keep, FoldValue(c, k, m, r)}
    BY DEF Republish
  <2>4. r \in OwnRefs(c, k) => Republish(c, k, m, r) = FoldValue(c, k, m, r)
    BY DEF Republish, OwnRefs, ClassOf, Class
  <2>5. Republish(c, k, m, r) # Keep =>
          r \in OwnRefs(c, k) \/ (k = "local" /\ r \in Thread)
    BY DEF Republish, OwnRefs, ClassOf, Class
  <2> QED BY <2>1, <2>2, <2>3, <2>4, <2>5
<1>5. ASSUME \A r \in Thread : k = "local" /\ Lagging(c, k, m)[r] # Keep
                                 => author[r] = Home(c),
             NEW r \in Ref
      PROVE  Lagging(c, k, m)[r] \in {Keep, truth[r]}
  <2>1. CASE Lagging(c, k, m)[r] # Keep
    <3>1. /\ Lagging(c, k, m)[r] = FoldValue(c, k, m, r)
          /\ r \in OwnRefs(c, k) \/ (k = "local" /\ r \in Thread)
      BY <1>6, <2>1
    <3> QED BY <1>3, <1>5, <2>1, <3>1
  <2> QED BY <2>1
<1>7. ASSUME NEW r \in OwnRefs(c, k), Lagging(c, k, m)[r] = Keep PROVE ref[r] = truth[r]
  <2>1. r \in Ref
    BY DEF OwnRefs
  <2> QED BY <1>3, <1>4, <1>6, <1>7, <2>1
<1>8. DirectWriters # {} => m <= Persisted(c, k)
  <2>1. Persisted(c, k) \in Nat /\ Watermark(c, k) \in Nat
    BY DEF IndInv, TypeOK, RepoTypeOK, Persisted, Watermark
  <2>2. DirectWriters # {} => Watermark(c, k) <= Persisted(c, k)
    BY DEF IndInv, DirectInv, Persisted, Watermark, Home, Class
  <2> QED BY <1>0, <2>1, <2>2 DEF Larger
<1> QED BY <1>1, <1>2, <1>4, <1>5, <1>7, <1>8 DEF m

-----------------------------------------------------------------------------
LEMMA HandleCovers ==
  ASSUME NEW h \in Handle, NEW r \in Thread \union {WorktreeOf[h]},
         last[r] <= mem[h][ClassOf(r)]
  PROVE  Covered(r)
  BY DEF Covered, Vouched

(* A step that leaves the log, the files and the watermarks alone. *)
LEMMA RepoFrame ==
  ASSUME IndInv, UNCHANGED <<log, ref, fileLocal, fileShared, mem, truth, last, direct, author>>
  PROVE  /\ HistoryInv' /\ BoundInv' /\ DirectInv' /\ WatermarkSoundAlways'
         /\ \A r \in Ref : Covered(r)' <=> Covered(r)
  BY DEF IndInv, HistoryInv, BoundInv, DirectInv, WatermarkSoundAlways, Covered, Vouched

LEMMA AtFileFrame ==
  ASSUME NEW c \in Client, UNCHANGED <<fileLocal, fileShared, mem>>,
         pc'[c] \in {"gate", "raw"} => UNCHANGED <<pc[c], want[c], tip[c]>>
  PROVE  AtFile(c)' => AtFile(c)
  BY DEF AtFile, Vouched

(* A client moves outside the locked region. *)
LEMMA OutsideKeeps ==
  ASSUME IndInv, NEW c \in Client,
         pc[c] \notin LockedPc, pc'[c] \notin LockedPc,
         pc'[c] # "idle" => open[HandleOf[c]],
         \A d \in Client : d # c =>
           UNCHANGED <<pc[d], class[d], tip[d], upd[d], plan[d], saved[d], want[d],
                       got[d], seen[d]>>,
         UNCHANGED <<log, ref, fileLocal, fileShared, mem, open, holder, truth, last,
                     direct, author>>,
         ReadOk(c)'
  PROVE  /\ LockInv' /\ HistoryInv' /\ BoundInv' /\ DirectInv' /\ WatermarkSoundAlways'
         /\ CallInv' /\ ReadInv' /\ ExpectationsExact'
<1>1. /\ HistoryInv' /\ BoundInv' /\ DirectInv' /\ WatermarkSoundAlways'
      /\ \A r \in Ref : Covered(r)' <=> Covered(r)
  BY RepoFrame
<1>2. LockInv'
  BY DEF IndInv, LockInv
<1>3. ASSUME NEW d \in Client PROVE PhaseOk(d)' /\ PlanOk(d)' /\ SavedOk(d)'
  <2>1. CASE d = c
    BY <2>1 DEF LockedPc, PhaseOk, PlanOk, SavedOk, RollsBack
  <2>2. CASE d # c
    BY <1>1, <2>2 DEF IndInv, CallInv, PhaseOk, PlanOk, SavedOk, Reading, RollsBack
  <2> QED BY <2>1, <2>2
<1>4. ASSUME NEW d \in Client, d # c PROVE ReadOk(d)'
  BY <1>4, AtFileFrame DEF IndInv, ReadInv, ReadOk, Reading, LockedPc, RollsBack
<1>5. ExpectationsExact'
  BY DEF IndInv, ExpectationsExact, LockedPc, Touched
<1> QED BY <1>1, <1>2, <1>3, <1>4, <1>5 DEF CallInv, ReadInv

(* The holder of the lock takes a step inside the locked region. *)
LEMMA InsideKeeps ==
  ASSUME IndInv, NEW c \in Client,
         pc[c] \in LockedPc, pc'[c] \in LockedPc,
         \A d \in Client : d # c =>
           UNCHANGED <<pc[d], upd[d], plan[d], saved[d], want[d], got[d]>>,
         UNCHANGED <<open, holder>>,
         PhaseOk(c)', PlanOk(c)', SavedOk(c)',
         pc'[c] = "commit" => \A r \in Touched(upd[c])' : (got[c][r] = truth[r])'
  PROVE  /\ LockInv' /\ CallInv' /\ ExpectationsExact'
         /\ \A d \in Client : d # c => pc[d] \notin LockedPc
<1>1. \A d \in Client : d # c => pc[d] \notin LockedPc
  BY DEF IndInv, LockInv
<1>2. LockInv'
  BY <1>1 DEF IndInv, LockInv, LockedPc
<1>3. ASSUME NEW d \in Client, d # c PROVE PhaseOk(d)' /\ PlanOk(d)' /\ SavedOk(d)'
  BY <1>1, <1>3 DEF LockedPc, PhaseOk, PlanOk, SavedOk, RollsBack
<1>4. ExpectationsExact'
  BY <1>1 DEF ExpectationsExact, LockedPc
<1> QED BY <1>1, <1>2, <1>3, <1>4 DEF CallInv

(* The holder of the lock returns. *)
LEMMA ReturnKeeps ==
  ASSUME IndInv, NEW c \in Client, Return(c), pc[c] \in LockedPc,
         \A d \in Client : d # c => got'[d] = got[d],
         UNCHANGED <<open, truth>>,
         \A d \in Client : d # c /\ Reading(d) /\ AtFile(d)'
                             => ref'[want[d]] \in seen[d]
  PROVE  LockInv' /\ CallInv' /\ ReadInv' /\ ExpectationsExact'
<1>1. /\ pc'[c] = "idle" /\ holder' = NoClient /\ want'[c] = NoRef
      /\ \A d \in Client : d # c => UNCHANGED <<pc[d], want[d], seen[d]>>
  BY DEF Return, ForgetTask, Goto, IndInv, TypeOK, CallTypeOK, HistoryTypeOK
<1>2. \A d \in Client : pc'[d] \notin LockedPc
  BY <1>1 DEF IndInv, LockInv, LockedPc
<1>3. LockInv'
  BY <1>1, <1>2, RefPublicationAssumption DEF IndInv, LockInv
<1>4. \A d \in Client : PhaseOk(d)' /\ PlanOk(d)' /\ SavedOk(d)'
  BY <1>2 DEF LockedPc, PhaseOk, PlanOk, SavedOk, RollsBack
<1>5. \A d \in Client : pc'[d] \notin {"publish", "apply", "commit"}
  BY <1>2 DEF LockedPc
<1>6. ASSUME NEW d \in Client, Reading(d)' PROVE ReadOk(d)'
  <2>1. d # c /\ Reading(d) /\ UNCHANGED <<pc[d], want[d], seen[d]>> /\ ReadOk(d)
    BY <1>1, <1>6 DEF Reading, IndInv, ReadInv
  <2> QED BY <1>5, <2>1 DEF ReadOk, RollsBack
<1>7. ReadInv'
  BY <1>6 DEF ReadInv, ReadOk
<1> QED BY <1>3, <1>4, <1>5, <1>7 DEF CallInv, ExpectationsExact

-----------------------------------------------------------------------------
LEMMA OpenStep ==
  ASSUME IndInv, NEW h \in Handle, Open(h)
  PROVE  /\ LockInv' /\ HistoryInv' /\ BoundInv' /\ DirectInv' /\ WatermarkSoundAlways'
         /\ CallInv' /\ ReadInv' /\ ExpectationsExact'
<1> USE DEF IndInv
<1>1. /\ ~open[h] /\ open' = [open EXCEPT ![h] = TRUE]
      /\ mem' = [mem EXCEPT ![h] = [k \in Class |->
                   IF k = "shared" THEN fileShared ELSE fileLocal[WorktreeOf[h]]]]
      /\ UNCHANGED <<log, ref, fileLocal, fileShared, holder, pc, class, tip, upd, plan,
                     saved, want, got, seen, truth, last, direct, author>>
  BY DEF Open, fileVars, taskVars, readVars, history, writes
<1>2. \A c \in Client : HandleOf[c] = h => pc[c] = "idle"
  BY <1>1 DEF LockInv
<1>3. /\ \A g \in Handle : g # h => mem'[g] = mem[g]
      /\ mem'[h]["shared"] = fileShared
      /\ mem'[h]["local"] = fileLocal[WorktreeOf[h]]
  BY <1>1 DEF TypeOK, RepoTypeOK, Class
<1>4. LockInv' /\ HistoryInv' /\ ExpectationsExact'
  <2>1. LockInv'
    BY <1>1, <1>2 DEF LockInv, TypeOK, RepoTypeOK
  <2>2. HistoryInv' /\ ExpectationsExact'
    BY <1>1 DEF HistoryInv, ExpectationsExact, Touched
  <2> QED BY <2>1, <2>2
<1>5. BoundInv'
  BY <1>1, <1>3, ConstTypes DEF BoundInv, Class
<1>6. DirectInv'
  <2>1. ASSUME DirectWriters # {}, NEW g \in Handle
        PROVE  mem'[g]["shared"] <= fileShared /\ mem'[g]["local"] <= fileLocal[WorktreeOf[g]]
    <3>1. CASE g = h
      BY <1>3, <3>1, WatermarkTypes, ConstTypes
    <3>2. CASE g # h
      BY <1>3, <2>1, <3>2 DEF DirectInv
    <3> QED BY <3>1, <3>2
  <2> QED BY <1>1, <2>1 DEF DirectInv
<1>7. ASSUME NEW r \in Ref, NEW n \in Nat, Vouched(r, n)' PROVE Vouched(r, n)
  <2>1. CASE \E g \in Handle \ {h} : /\ r \in Thread \union {WorktreeOf[g]}
                                     /\ n <= mem[g][ClassOf(r)]
    BY <2>1 DEF Vouched
  <2>2. CASE n <= IF r \in Thread THEN fileShared ELSE fileLocal[r]
    BY <2>2 DEF Vouched
  <2>3. mem'[h][ClassOf(r)] = IF r \in Thread THEN fileShared ELSE fileLocal[WorktreeOf[h]]
    BY <1>3 DEF ClassOf
  <2>4. ClassOf(r)' = ClassOf(r)
    BY DEF ClassOf
  <2> QED BY <1>1, <1>3, <1>7, <2>1, <2>2, <2>3, <2>4 DEF Vouched
<1>10. \A r \in Ref : Covered(r)' => Covered(r)
  BY <1>1, <1>7, WatermarkTypes DEF Covered
<1>8. WatermarkSoundAlways'
  BY <1>1, <1>10 DEF WatermarkSoundAlways
<1>9. ASSUME NEW c \in Client PROVE PhaseOk(c)' /\ PlanOk(c)' /\ SavedOk(c)'
  <2>1. CASE HandleOf[c] = h
    BY <1>1, <1>2, <2>1 DEF PhaseOk, PlanOk, SavedOk, RollsBack
  <2>2. CASE HandleOf[c] # h
    <3>1. PhaseOk(c) /\ PlanOk(c) /\ SavedOk(c) /\ HandleOf[c] \in Handle
      BY RefPublicationAssumption DEF CallInv
    <3>2. PhaseOk(c)'
      BY <1>1, <1>3, <2>2, <3>1 DEF PhaseOk, Reading
    <3>3. PlanOk(c)'
      BY <1>1, <3>1 DEF PlanOk, OwnRefs, ClassOf, Home
    <3>4. SavedOk(c)'
      BY <1>1, <1>10, <3>1 DEF SavedOk, RollsBack
    <3> QED BY <3>2, <3>3, <3>4
  <2> QED BY <2>1, <2>2
<1>11. ASSUME NEW c \in Client, Reading(c) PROVE ReadOk(c)'
  <2>1. ReadOk(c) /\ want[c] \in Ref /\ tip[c] \in Nat
    BY <1>11, RefPublicationAssumption DEF ReadInv, Reading, TypeOK, CallTypeOK
  <2>2. AtFile(c)' => AtFile(c)
    BY <1>1, <1>7, <2>1 DEF AtFile
  <2> QED BY <1>1, <2>1, <2>2 DEF ReadOk, Reading, RollsBack
<1>12. ReadInv'
  BY <1>1, <1>11 DEF ReadInv, ReadOk, Reading
<1> QED BY <1>4, <1>5, <1>6, <1>8, <1>9, <1>12 DEF CallInv

LEMMA CloseStep ==
  ASSUME IndInv, NEW h \in Handle, Close(h)
  PROVE  /\ LockInv' /\ HistoryInv' /\ BoundInv' /\ DirectInv' /\ WatermarkSoundAlways'
         /\ CallInv' /\ ReadInv' /\ ExpectationsExact'
<1> USE DEF IndInv
<1>1. /\ open' = [open EXCEPT ![h] = FALSE]
      /\ mem' = [mem EXCEPT ![h] = [k \in Class |-> 0]]
      /\ UNCHANGED <<log, ref, fileLocal, fileShared, truth, last, direct, author>>
  BY DEF Close, fileVars, history, writes
<1>2. \A c \in Client : HandleOf[c] = h =>
        pc'[c] = "idle" /\ want'[c] = NoRef /\ holder' # c
  BY RefPublicationAssumption DEF Close
<1>3. \A c \in Client : HandleOf[c] # h =>
        /\ UNCHANGED <<pc[c], class[c], tip[c], upd[c], plan[c], saved[c], want[c],
                       got[c], seen[c]>>
        /\ holder' = c <=> holder = c
  BY RefPublicationAssumption DEF Close
<1>4. /\ \A g \in Handle : g # h => mem'[g] = mem[g] /\ open'[g] = open[g]
      /\ \A k \in Class : mem'[h][k] = 0
  BY <1>1 DEF TypeOK, RepoTypeOK
<1>5. LockInv' /\ HistoryInv'
  <2>1. HistoryInv'
    BY <1>1 DEF HistoryInv
  <2>2. ASSUME NEW c \in Client
        PROVE  (holder' = c <=> pc'[c] \in LockedPc) /\ (pc'[c] # "idle" => open'[HandleOf[c]])
    BY <1>2, <1>3, <1>4, RefPublicationAssumption DEF LockInv, LockedPc
  <2> QED BY <2>1, <2>2 DEF LockInv
<1>6. BoundInv' /\ DirectInv'
  BY <1>1, <1>4, WatermarkTypes, ConstTypes DEF BoundInv, DirectInv, Class
<1>7. ASSUME NEW r \in Ref, NEW n \in Nat, Vouched(r, n)' PROVE Vouched(r, n)
  <2>1. ClassOf(r) \in Class /\ (r \notin Thread => r \in Worktree)
    BY DEF ClassOf, Class, Ref
  <2>2. CASE n <= 0
    <3>1. n <= fileShared /\ (r \notin Thread => n <= fileLocal[r])
      BY <2>1, <2>2, WatermarkTypes
    <3> QED BY <3>1 DEF Vouched
  <2>3. CASE ~(n <= 0)
    BY <1>1, <1>4, <1>7, <2>1, <2>3 DEF Vouched, ClassOf
  <2> QED BY <2>2, <2>3
<1>11. \A r \in Ref : Covered(r)' => Covered(r)
  BY <1>1, <1>7, WatermarkTypes DEF Covered
<1>8. WatermarkSoundAlways'
  BY <1>1, <1>11 DEF WatermarkSoundAlways
<1>9. ASSUME NEW c \in Client PROVE PhaseOk(c)' /\ PlanOk(c)' /\ SavedOk(c)' /\ ReadOk(c)'
  <2>1. CASE HandleOf[c] = h
    BY <1>2, <2>1 DEF PhaseOk, PlanOk, SavedOk, ReadOk, Reading, RollsBack
  <2>2. CASE HandleOf[c] # h
    <3>1. PhaseOk(c) /\ PlanOk(c) /\ SavedOk(c) /\ ReadOk(c) /\ HandleOf[c] \in Handle
      BY RefPublicationAssumption DEF CallInv, ReadInv
    <3>2. PhaseOk(c)'
      BY <1>1, <1>3, <1>4, <2>2, <3>1 DEF PhaseOk, Reading
    <3>3. PlanOk(c)'
      BY <1>1, <1>3, <2>2, <3>1 DEF PlanOk, OwnRefs, ClassOf, Home
    <3>4. SavedOk(c)'
      BY <1>1, <1>3, <1>11, <2>2, <3>1 DEF SavedOk, RollsBack
    <3>5. \A d \in Client : pc'[d] \in {"publish", "apply"} =>
            UNCHANGED <<pc[d], plan[d], saved[d]>>
      BY <1>2, <1>3
    <3>6. ReadOk(c)'
      <4>1. tip[c] \in Nat /\ want[c] \in Ref \union {NoRef}
        BY RefPublicationAssumption DEF TypeOK, CallTypeOK
      <4>2. Reading(c) /\ AtFile(c)' => AtFile(c)
        BY <1>3, <1>7, <2>2, <4>1 DEF AtFile, Reading
      <4> QED BY <1>1, <1>3, <2>2, <3>1, <3>5, <4>2 DEF ReadOk, Reading, RollsBack
    <3> QED BY <3>2, <3>3, <3>4, <3>6
  <2> QED BY <2>1, <2>2
<1>10. ExpectationsExact'
  BY <1>1, <1>2, <1>3 DEF ExpectationsExact, Touched
<1> QED BY <1>5, <1>6, <1>8, <1>9, <1>10 DEF CallInv, ReadInv

LEMMA BeginReadStep ==
  ASSUME IndInv, NEW c \in Client, NEW r \in Ref, BeginRead(c, r)
  PROVE  ReadOk(c)'
<1>1. /\ seen'[c] = {truth[r]} /\ want'[c] = r /\ pc'[c] = "gate" /\ tip'[c] = Len(log)
      /\ \A d \in Client : d # c => pc'[d] = pc[d]
      /\ UNCHANGED <<fileLocal, fileShared, mem, ref, truth, plan, saved, got>>
  BY DEF BeginRead, Goto, IndInv, TypeOK, CallTypeOK, HistoryTypeOK, fileVars, history, writes
<1>2. ASSUME AtFile(c)'
      PROVE  /\ ref[r] = truth[r]
             /\ \A d \in Client : RollsBack(d)
                                    => saved[d][r] = truth[r]
  <2>1. Vouched(r, Len(log))
    BY <1>1, <1>2 DEF AtFile, Vouched
  <2>2. Covered(r)
    <3>1. /\ Len(log) \in Nat /\ last[r] \in Nat /\ last[r] <= Len(log)
          /\ ClassOf(r) \in Class /\ (r \notin Thread => r \in Worktree)
      BY WatermarkTypes DEF IndInv, HistoryInv, ClassOf, Class, Ref
    <3> QED BY <2>1, <3>1, WatermarkTypes DEF Covered, Vouched, IndInv
  <2> QED BY <2>2 DEF IndInv, WatermarkSoundAlways, CallInv, SavedOk
<1> QED BY <1>1, <1>2 DEF ReadOk, RollsBack

LEMMA GateStep ==
  ASSUME IndInv, NEW c \in Client, Gate(c)
  PROVE  ReadOk(c)'
<1>1. /\ pc[c] = "gate" /\ pc'[c] \in {"raw", "locking"}
      /\ pc'[c] = "raw" => Watermark(c, ClassOf(want[c])) >= tip[c]
      /\ \A d \in Client : d # c => pc'[d] = pc[d]
      /\ UNCHANGED <<ref, truth, plan, saved, want, got, seen>>
  BY DEF Gate, Goto, IndInv, TypeOK, CallTypeOK, readVars, history, writes
<1>2. Reading(c) /\ want[c] \in Thread \union {Home(c)} /\ ReadOk(c)
  BY <1>1 DEF IndInv, TaskInv, ReadInv
<1>3. pc'[c] = "raw" => AtFile(c)
  <2>1. /\ HandleOf[c] \in Handle /\ tip[c] \in Nat
        /\ mem[HandleOf[c]][ClassOf(want[c])] \in Nat
    BY RefPublicationAssumption, WatermarkTypes
       DEF IndInv, TypeOK, CallTypeOK, ClassOf, Class
  <2> QED BY <1>1, <1>2, <2>1 DEF AtFile, Vouched, Watermark, Home
<1> QED BY <1>1, <1>2, <1>3 DEF ReadOk, AtFile, Reading, RollsBack

(* The actions outside the locked region. *)
LEMMA OutsideStep ==
  ASSUME IndInv, NEW c \in Client,
         \/ \E r \in Ref : BeginRead(c, r)
         \/ \E u \in Batches(c) : BeginRecorded(c, u) \/ BeginDirect(c, u)
         \/ Gate(c) \/ RawRead(c) \/ FailUnlocked(c)
  PROVE  /\ LockInv' /\ HistoryInv' /\ BoundInv' /\ DirectInv' /\ WatermarkSoundAlways'
         /\ CallInv' /\ ReadInv' /\ ExpectationsExact'
<1>1. /\ pc[c] \notin LockedPc /\ pc'[c] \notin LockedPc
      /\ pc'[c] # "idle" => open[HandleOf[c]]
  BY DEF BeginRead, BeginRecorded, BeginDirect, Gate, RawRead, FailUnlocked, Goto,
         LockedPc, IndInv, LockInv, TypeOK, CallTypeOK
<1>2. UNCHANGED <<log, ref, fileLocal, fileShared, mem, open, holder, truth, last, direct, author>>
  BY DEF BeginRead, BeginRecorded, BeginDirect, Gate, RawRead, FailUnlocked, fileVars,
         history, writes
<1>3. \A d \in Client : d # c =>
        UNCHANGED <<pc[d], class[d], tip[d], upd[d], plan[d], saved[d], want[d],
                    got[d], seen[d]>>
  <2> USE DEF Goto, IndInv, TypeOK, CallTypeOK, HistoryTypeOK, taskVars, readVars
  <2>1. CASE \E r \in Ref : BeginRead(c, r)
    BY <2>1 DEF BeginRead
  <2>2. CASE \E u \in Batches(c) : BeginRecorded(c, u) \/ BeginDirect(c, u)
    BY <2>2 DEF BeginRecorded, BeginDirect
  <2>3. CASE RawRead(c)
    BY <2>3 DEF RawRead, ForgetTask
  <2>4. CASE FailUnlocked(c)
    BY <2>4 DEF FailUnlocked, ForgetTask, ForgetReads
  <2>5. CASE Gate(c)
    BY <2>5 DEF Gate
  <2> QED BY <2>1, <2>2, <2>3, <2>4, <2>5
<1>4. ReadOk(c)'
  <2>1. CASE \E r \in Ref : BeginRead(c, r)
    BY <2>1, BeginReadStep
  <2>2. CASE \E u \in Batches(c) : BeginRecorded(c, u) \/ BeginDirect(c, u)
    <3>1. pc[c] = "idle" /\ want' = want
      BY <2>2 DEF BeginRecorded, BeginDirect, readVars
    <3>2. ~Reading(c)'
      BY <3>1 DEF IndInv, TaskInv, Reading
    <3> QED BY <3>2 DEF ReadOk
  <2>3. CASE RawRead(c) \/ FailUnlocked(c)
    <3>1. want'[c] = NoRef
      BY <2>3 DEF RawRead, FailUnlocked, ForgetTask, IndInv, TypeOK, CallTypeOK
    <3> QED BY <3>1 DEF ReadOk, Reading
  <2>4. CASE Gate(c)
    BY <2>4, GateStep
  <2> QED BY <2>1, <2>2, <2>3, <2>4
<1> QED BY <1>1, <1>2, <1>3, <1>4, OutsideKeeps

(* The actions that give the lock up without touching a file. *)
LEMMA GiveUpStep ==
  ASSUME IndInv, NEW c \in Client, Conflict(c) \/ FailLocked(c) \/ ApplyDone(c)
  PROVE  /\ LockInv' /\ HistoryInv' /\ BoundInv' /\ DirectInv' /\ WatermarkSoundAlways'
         /\ CallInv' /\ ReadInv' /\ ExpectationsExact'
<1>1. /\ Return(c) /\ ForgetReads(c) /\ pc[c] \in LockedPc
      /\ UNCHANGED <<log, ref, fileLocal, fileShared, mem, open, truth, last, direct, author>>
  BY DEF Conflict, FailLocked, ApplyDone, LockedPc, fileVars, history, writes
<1>2. \A d \in Client : d # c => got'[d] = got[d]
  BY <1>1 DEF ForgetReads, IndInv, TypeOK, CallTypeOK
<1>3. \A d \in Client : d # c => UNCHANGED <<pc[d], want[d], tip[d]>>
  BY <1>1 DEF Return, ForgetTask, Goto, IndInv, TypeOK, CallTypeOK
<1>4. \A d \in Client : d # c /\ Reading(d) /\ AtFile(d)' => ref'[want[d]] \in seen[d]
  BY <1>1, <1>3, AtFileFrame DEF IndInv, ReadInv, ReadOk
<1> QED BY <1>1, <1>2, <1>4, RepoFrame, ReturnKeeps

LEMMA PublishFailStep ==
  ASSUME IndInv, NEW c \in Client, PublishFail(c)
  PROVE  /\ LockInv' /\ HistoryInv' /\ BoundInv' /\ DirectInv' /\ WatermarkSoundAlways'
         /\ CallInv' /\ ReadInv' /\ ExpectationsExact'
<1>1. /\ Return(c) /\ ForgetReads(c) /\ pc[c] \in LockedPc
      /\ RollsBack(c) /\ \A r \in Ref : ref'[r] \in {ref[r], saved[c][r]}
      /\ UNCHANGED <<log, fileLocal, fileShared, mem, open, truth, last, direct, author>>
  BY DEF PublishFail, RollsBack, LockedPc, fileVars, history, writes
<1>2. \A d \in Client : d # c => got'[d] = got[d]
  BY <1>1 DEF ForgetReads, IndInv, TypeOK, CallTypeOK
<1>3. \A d \in Client : d # c => UNCHANGED <<pc[d], want[d], tip[d]>>
  BY <1>1 DEF Return, ForgetTask, Goto, IndInv, TypeOK, CallTypeOK
<1>9. \A d \in Client : d # c /\ Reading(d) /\ AtFile(d)' => ref'[want[d]] \in seen[d]
  <2>1. ASSUME NEW d \in Client, d # c, Reading(d), AtFile(d)'
        PROVE  ref'[want[d]] \in seen[d]
    <3>1. AtFile(d) /\ want[d] \in Ref
      BY <1>1, <1>3, <2>1, AtFileFrame DEF Reading, IndInv, TypeOK, CallTypeOK
    <3> QED BY <1>1, <2>1, <3>1 DEF IndInv, ReadInv, ReadOk
  <2> QED BY <2>1
<1>4. \A r \in Ref : Covered(r) \/ direct[r] => ref'[r] = truth'[r]
  BY <1>1 DEF IndInv, CallInv, SavedOk, WatermarkSoundAlways, DirectInv
<1>5. HistoryInv' /\ BoundInv'
  BY <1>1 DEF IndInv, HistoryInv, BoundInv
<1>6. DirectInv'
  BY <1>1, <1>4 DEF IndInv, DirectInv
<1>7. \A r \in Ref : Covered(r)' => Covered(r)
  BY <1>1 DEF Covered, Vouched
<1>8. WatermarkSoundAlways'
  BY <1>4, <1>7 DEF WatermarkSoundAlways
<1> QED BY <1>1, <1>2, <1>5, <1>6, <1>8, <1>9, ReturnKeeps

LEMMA LockStep ==
  ASSUME IndInv, NEW c \in Client, Lock(c)
  PROVE  /\ LockInv' /\ HistoryInv' /\ BoundInv' /\ DirectInv' /\ WatermarkSoundAlways'
         /\ CallInv' /\ ReadInv' /\ ExpectationsExact'
<1>1. /\ pc[c] = "locking" /\ holder = NoClient /\ holder' = c
      /\ pc'[c] = "tip" /\ \A d \in Client : d # c => pc'[d] = pc[d]
      /\ class'[c] = IF Reading(c) THEN ClassOf(want[c]) ELSE "local"
      /\ UNCHANGED <<log, ref, fileLocal, fileShared, mem, open, tip, upd, plan, saved,
                     want, got, seen, truth, last, direct, author>>
  BY DEF Lock, Goto, fileVars, readVars, history, writes, IndInv, TypeOK, CallTypeOK
<1>2. \A d \in Client : pc[d] \notin LockedPc
  BY <1>1, RefPublicationAssumption DEF IndInv, LockInv
<1>3. LockInv'
  BY <1>1, <1>2 DEF IndInv, LockInv, LockedPc
<1>4. \A d \in Client : PhaseOk(d)' /\ PlanOk(d)' /\ SavedOk(d)'
  BY <1>1, <1>2 DEF LockedPc, PhaseOk, PlanOk, SavedOk, Reading, RollsBack
<1>5. \A d \in Client : pc'[d] \notin {"publish", "apply", "commit"}
  BY <1>1, <1>2 DEF LockedPc
<1>6. \A d \in Client : AtFile(d)' => AtFile(d)
  BY <1>1, AtFileFrame
<1>7. ReadInv' /\ ExpectationsExact'
  BY <1>1, <1>5, <1>6 DEF IndInv, ReadInv, ReadOk, Reading, ExpectationsExact, RollsBack
<1> QED BY <1>1, <1>3, <1>4, <1>7, RepoFrame DEF CallInv

LEMMA PublishStep ==
  ASSUME IndInv, NEW c \in Client, NEW r \in Ref, Publish(c, r)
  PROVE  /\ LockInv' /\ HistoryInv' /\ BoundInv' /\ DirectInv' /\ WatermarkSoundAlways'
         /\ CallInv' /\ ReadInv' /\ ExpectationsExact'
<1>1. /\ pc[c] = "publish" \/ (pc[c] = "apply" /\ c \notin DirectWriters)
      /\ plan[c][r] # Keep
      /\ ref' = [ref EXCEPT ![r] = plan[c][r]]
      /\ plan' = [plan EXCEPT ![c][r] = Keep]
      /\ UNCHANGED <<log, fileLocal, fileShared, mem, open, holder, pc, class, tip, upd,
                     saved, want, got, seen, truth, last, direct, author>>
  BY DEF Publish, fileVars, readVars, history, writes
<1>2. plan[c] # Nothing /\ plan[c][r] = truth[r] /\ PlanOk(c) /\ SavedOk(c) /\ PhaseOk(c)
  BY <1>1, ConstTypes DEF IndInv, CallInv, PlanOk
<1>3. /\ ref'[r] = truth[r] /\ \A s \in Ref : s # r => ref'[s] = ref[s]
      /\ plan'[c][r] = Keep /\ \A s \in Ref : s # r => plan'[c][s] = plan[c][s]
      /\ \A d \in Client : d # c => plan'[d] = plan[d]
  BY <1>1, <1>2 DEF IndInv, TypeOK, RepoTypeOK, CallTypeOK
<1>4. HistoryInv' /\ BoundInv'
  BY <1>1 DEF IndInv, HistoryInv, BoundInv
<1>5. DirectInv'
  BY <1>1, <1>3 DEF IndInv, DirectInv
<1>6. \A s \in Ref : Covered(s)' <=> Covered(s)
  BY <1>1 DEF Covered, Vouched
<1>7. WatermarkSoundAlways'
  BY <1>1, <1>3, <1>6 DEF IndInv, WatermarkSoundAlways
<1>8. PhaseOk(c)' /\ PlanOk(c)' /\ SavedOk(c)'
  <2>1. PhaseOk(c)'
    BY <1>1, <1>2 DEF PhaseOk, Reading
  <2>2. PlanOk(c)'
    BY <1>1, <1>2, <1>3 DEF PlanOk, OwnRefs, ClassOf, Home
  <2>3. SavedOk(c)'
    BY <1>1, <1>2, <1>6 DEF SavedOk, RollsBack
  <2> QED BY <2>1, <2>2, <2>3
<1>9. LockInv' /\ CallInv' /\ ExpectationsExact'
  BY <1>1, <1>3, <1>8, InsideKeeps DEF LockedPc
<1>10. ASSUME NEW d \in Client, Reading(d)' PROVE ReadOk(d)'
  <2>1. ReadOk(d) /\ want[d] \in Ref /\ Reading(d)
    BY <1>1, <1>10 DEF IndInv, ReadInv, Reading, TypeOK, CallTypeOK
  <2>2. AtFile(d)' => AtFile(d)
    BY <1>1, AtFileFrame
  <2> QED BY <1>1, <1>3, <2>1, <2>2 DEF ReadOk, RollsBack
<1>11. ReadInv'
  BY <1>10 DEF ReadInv, ReadOk
<1> QED BY <1>4, <1>5, <1>7, <1>9, <1>11

LEMMA PublishDirectStep ==
  ASSUME IndInv, NEW c \in Client, NEW r \in Ref,
         PublishDirect(c, r) \/ UndoDirect(c, r)
  PROVE  /\ LockInv' /\ HistoryInv' /\ BoundInv' /\ DirectInv' /\ WatermarkSoundAlways'
         /\ CallInv' /\ ReadInv' /\ ExpectationsExact'
<1> DEFINE v == ref'[r]
<1>1. /\ pc[c] = "apply" /\ c \in DirectWriters
      /\ ref' = [ref EXCEPT ![r] = v]
      /\ plan' = [plan EXCEPT ![c][r] = Keep] \/ plan' = plan
      /\ truth' = [truth EXCEPT ![r] = v]
      /\ direct' = [direct EXCEPT ![r] = TRUE]
      /\ author' = [author EXCEPT ![r] = Home(c)]
      /\ Observe(truth')
      /\ UNCHANGED <<log, fileLocal, fileShared, mem, open, holder, pc, class, tip, upd,
                     saved, want, got, last>>
  BY DEF PublishDirect, UndoDirect, DirectWrite, fileVars, IndInv, TypeOK, RepoTypeOK
<1>0. r \in Thread \union {Home(c)}
  <2>1. upd[c][r] # Keep
    BY <1>1 DEF PublishDirect, UndoDirect, IndInv, TaskInv
  <2> QED BY <2>1 DEF Touched, IndInv, TaskInv
<1> HIDE DEF v
<1>2. /\ ref'[r] = truth'[r]
      /\ author'[r] = Home(c)
      /\ \A s \in Ref : s # r => UNCHANGED <<ref[s], truth[s], direct[s], author[s]>>
      /\ \A d \in Client : d # c => plan'[d] = plan[d]
  BY <1>1 DEF IndInv, TypeOK, RepoTypeOK, CallTypeOK, HistoryTypeOK
<1>4. \A k \in Class : mem[HandleOf[c]][k] = Len(log)
  BY <1>1 DEF IndInv, CallInv, PhaseOk
<1>5. \A d \in Client : d # c => pc[d] \notin LockedPc
  BY <1>1 DEF IndInv, LockInv, LockedPc
<1>6. HistoryInv' /\ BoundInv'
  <2>1. ASSUME NEW s \in Ref, ~direct'[s] PROVE s # r
    BY <1>1, <2>1 DEF IndInv, TypeOK, HistoryTypeOK
  <2> QED BY <1>1, <1>2, <2>1 DEF IndInv, HistoryInv, BoundInv
<1>7. DirectInv'
  <2>1. /\ last[r] <= fileShared
        /\ \A w \in Worktree : w = r \/ w = Home(c) => last[r] <= fileLocal[w]
    <3>1. /\ Len(log) <= fileShared
          /\ Len(log) <= fileLocal[Home(c)]
          /\ HandleOf[c] \in Handle
      BY <1>1, <1>4, RefPublicationAssumption DEF IndInv, DirectInv, Class, Home
    <3>2. last[r] <= Len(log)
      BY DEF IndInv, HistoryInv
    <3>3. r \in Worktree => r = Home(c)
      BY <1>0, RefPublicationAssumption
    <3>4. /\ Len(log) \in Nat /\ last[r] \in Nat /\ fileShared \in Nat
          /\ \A w \in Worktree : fileLocal[w] \in Nat
      BY WatermarkTypes DEF IndInv
    <3>5. Home(c) \in Worktree
      BY ConstTypes
    <3>6. last[r] <= fileShared /\ last[r] <= fileLocal[Home(c)]
      BY <3>1, <3>2, <3>4, <3>5
    <3> QED BY <3>3, <3>6
  <2> QED BY <1>1, <1>2, <2>1 DEF IndInv, DirectInv
<1>8. WatermarkSoundAlways'
  <2>1. \A s \in Ref : Covered(s)' <=> Covered(s)
    BY <1>1 DEF Covered, Vouched
  <2> QED BY <1>2, <2>1 DEF IndInv, WatermarkSoundAlways
<1>9. PhaseOk(c)' /\ PlanOk(c)' /\ SavedOk(c)'
  <2>1. PhaseOk(c)'
    BY <1>1 DEF IndInv, CallInv, PhaseOk
  <2> QED BY <1>1, <2>1 DEF PlanOk, SavedOk, RollsBack
<1>10. LockInv' /\ CallInv' /\ ExpectationsExact'
  BY <1>1, <1>2, <1>9, InsideKeeps DEF LockedPc
<1>11. ASSUME NEW d \in Client, Reading(d)' PROVE ReadOk(d)'
  <2>1. ReadOk(d) /\ want[d] \in Ref /\ Reading(d)
    BY <1>1, <1>11 DEF IndInv, ReadInv, Reading, TypeOK, CallTypeOK
  <2>2. seen'[d] = seen[d] \union {truth'[want[d]]}
    BY <1>1, <2>1 DEF Observe, IndInv, TypeOK, HistoryTypeOK
  <2>3. ref'[want[d]] \in {ref[want[d]], truth'[want[d]]}
    BY <1>2, <2>1
  <2>4. \A e \in Client : ~RollsBack(e)'
    BY <1>1, <1>5 DEF RollsBack, LockedPc
  <2>5. AtFile(d)' => AtFile(d)
    BY <1>1, AtFileFrame
  <2> QED BY <1>1, <2>1, <2>2, <2>3, <2>4, <2>5 DEF ReadOk
<1>12. ReadInv'
  BY <1>11 DEF ReadInv, ReadOk
<1> QED BY <1>6, <1>7, <1>8, <1>10, <1>12

LEMMA ValidateStep ==
  ASSUME IndInv, NEW c \in Client, Validate(c)
  PROVE  /\ LockInv' /\ HistoryInv' /\ BoundInv' /\ DirectInv' /\ WatermarkSoundAlways'
         /\ CallInv' /\ ReadInv' /\ ExpectationsExact'
<1>1. /\ pc[c] = "validate" /\ pc' = [pc EXCEPT ![c] = "commit"]
      /\ UNCHANGED <<log, ref, fileLocal, fileShared, mem, open, holder, class, tip, upd,
                     plan, saved, want, got, seen, truth, last, direct, author>>
  BY DEF Validate, Goto, fileVars, taskVars, readVars, history, writes
<1>2. pc'[c] = "commit" /\ \A d \in Client : d # c => pc'[d] = pc[d]
  BY <1>1 DEF IndInv, TypeOK, CallTypeOK
<1>3. ASSUME NEW r \in Touched(upd[c]) PROVE got[c][r] = truth[r]
  <2>1. r \in Ref /\ CurrentUnderLock(c, r) = got[c][r]
    BY DEF Validate, Touched
  <2>2. ClassOf(r) \in Class /\ HandleOf[c] \in Handle
        /\ r \in Thread \union {WorktreeOf[HandleOf[c]]}
    BY <2>1, RefPublicationAssumption DEF Class, ClassOf, Home, IndInv, TaskInv
  <2>3. mem[HandleOf[c]][ClassOf(r)] = Len(log)
    BY <1>1, <2>2 DEF IndInv, CallInv, PhaseOk
  <2>4. Covered(r)
    BY <2>1, <2>2, <2>3, HandleCovers DEF IndInv, HistoryInv
  <2>5. Len(log) >= Len(log)
    BY WatermarkTypes DEF IndInv
  <2> QED BY <2>1, <2>3, <2>4, <2>5 DEF CurrentUnderLock, Watermark, IndInv,
      WatermarkSoundAlways
<1>4. PhaseOk(c)' /\ PlanOk(c)' /\ SavedOk(c)'
  BY <1>2 DEF PhaseOk, PlanOk, SavedOk, RollsBack
<1>5. LockInv' /\ CallInv' /\ ExpectationsExact'
      /\ \A d \in Client : d # c => pc[d] \notin LockedPc
  BY <1>1, <1>2, <1>3, <1>4, InsideKeeps DEF LockedPc, Touched
<1>6. \A d \in Client : AtFile(d)' => AtFile(d)
  BY <1>1, <1>2, AtFileFrame
<1>7. ReadInv'
  BY <1>1, <1>2, <1>5, <1>6 DEF IndInv, ReadInv, ReadOk, Reading, LockedPc, RollsBack
<1> QED BY <1>1, <1>5, <1>7, RepoFrame

LEMMA PlanDirectStep ==
  ASSUME IndInv, NEW c \in Client, PlanDirect(c)
  PROVE  /\ LockInv' /\ HistoryInv' /\ BoundInv' /\ DirectInv' /\ WatermarkSoundAlways'
         /\ CallInv' /\ ReadInv' /\ ExpectationsExact'
<1>1. /\ pc[c] = "validate" /\ c \in DirectWriters
      /\ UNCHANGED <<log, ref, fileLocal, fileShared, mem, open, holder, class, tip, upd,
                     want, got, seen, truth, last, direct, author>>
  BY DEF PlanDirect, fileVars, readVars, history, writes
<1>2. /\ pc'[c] = "apply" /\ saved'[c] = ref
      /\ \A d \in Client : d # c => UNCHANGED <<pc[d], plan[d], saved[d]>>
  BY DEF PlanDirect, Goto, IndInv, TypeOK, CallTypeOK
<1>3. /\ HistoryInv' /\ BoundInv' /\ DirectInv' /\ WatermarkSoundAlways'
      /\ \A r \in Ref : Covered(r)' <=> Covered(r)
  BY <1>1, RepoFrame
<1>4. PhaseOk(c)' /\ PlanOk(c)' /\ SavedOk(c)'
  <2>1. PhaseOk(c)' /\ PlanOk(c)'
    BY <1>1, <1>2 DEF IndInv, CallInv, PhaseOk, PlanOk
  <2>2. SavedOk(c)'
    BY <1>1, <1>2, <1>3 DEF SavedOk, IndInv, WatermarkSoundAlways, DirectInv
  <2> QED BY <2>1, <2>2
<1>5. LockInv' /\ CallInv' /\ ExpectationsExact'
      /\ \A d \in Client : d # c => pc[d] \notin LockedPc
  BY <1>1, <1>2, <1>4, InsideKeeps DEF LockedPc
<1>6. ASSUME NEW d \in Client, Reading(d)' PROVE ReadOk(d)'
  <2>1. AtFile(d)' => AtFile(d)
    BY <1>1, <1>2, AtFileFrame
  <2> QED BY <1>1, <1>2, <1>5, <1>6, <2>1 DEF IndInv, ReadInv, ReadOk, Reading, LockedPc, RollsBack
<1> QED BY <1>3, <1>5, <1>6 DEF ReadInv, ReadOk

LEMMA WatermarksBelow ==
  ASSUME TypeOK, BoundInv
  PROVE  /\ \A h \in Handle, k \in Class : ~(Len(log) + 1 <= mem[h][k])
         /\ ~(Len(log) + 1 <= fileShared)
         /\ \A w \in Worktree : ~(Len(log) + 1 <= fileLocal[w])
  BY WatermarkTypes DEF BoundInv

(* A write that appends its record is vouched for by no watermark. *)
LEMMA CommitStep ==
  ASSUME IndInv, NEW c \in Client, Commit(c)
  PROVE  /\ LockInv' /\ HistoryInv' /\ BoundInv' /\ DirectInv' /\ WatermarkSoundAlways'
         /\ CallInv' /\ ReadInv' /\ ExpectationsExact'
<1> DEFINE u == upd[c]
<1>1. /\ pc[c] = "commit"
      /\ log' = Append(log, [scope |-> Home(c), upd |-> u])
      /\ UNCHANGED <<ref, fileLocal, fileShared, mem, open, holder, class, tip, upd, want,
                     got>>
  BY DEF Commit, fileVars
<1>2. \A r \in Ref : /\ u[r] = Keep => UNCHANGED <<truth[r], last[r], direct[r], author[r]>>
                     /\ u[r] # Keep => /\ truth'[r] = u[r]
                                       /\ last'[r] = Len(log) + 1
                                       /\ ~direct'[r]
                                       /\ author'[r] = Home(c)
  BY DEF Commit
<1>3. /\ pc'[c] = "apply" /\ plan'[c] = u /\ saved'[c] = ref
      /\ \A d \in Client : d # c => UNCHANGED <<pc[d], plan[d], saved[d]>>
  BY DEF Commit, Goto, IndInv, TypeOK, CallTypeOK
<1>4. \A d \in Client : Reading(d) => seen'[d] = seen[d] \union {truth'[want[d]]}
  BY DEF Commit, Observe
<1>5. /\ log \in Seq(Entry) /\ Len(log) \in Nat /\ Len(log') = Len(log) + 1
      /\ log'[Len(log) + 1].upd = u /\ log'[Len(log) + 1].scope = Home(c) /\ c \notin DirectWriters
      /\ \A i \in 1..Len(log) : log'[i] = log[i]
  BY <1>1 DEF IndInv, TypeOK, RepoTypeOK, TaskInv
<1> HIDE DEF u
<1>6. HistoryInv'
  <2> SUFFICES ASSUME NEW r \in Ref
               PROVE  /\ last'[r] <= Len(log')
                      /\ last'[r] > 0 =>
                           /\ log'[last'[r]].upd[r] # Keep
                           /\ r \in Worktree => log'[last'[r]].scope = r
                           /\ ~direct'[r] => /\ truth'[r] = log'[last'[r]].upd[r]
                                             /\ author'[r] = log'[last'[r]].scope
                      /\ \A i \in 1..Len(log') : i > last'[r] => log'[i].upd[r] = Keep
    BY DEF HistoryInv
  <2>1. CASE u[r] # Keep
    <3>1. r \in Worktree => r = Home(c)
      BY <2>1, RefPublicationAssumption DEF u, Touched, IndInv, TaskInv
    <3> QED BY <1>2, <1>5, <2>1, <3>1
  <2>2. CASE u[r] = Keep
    <3>1. /\ last[r] \in Nat /\ last[r] <= Len(log)
          /\ last[r] > 0 => /\ log[last[r]].upd[r] # Keep
                            /\ r \in Worktree => log[last[r]].scope = r
                            /\ ~direct[r] => /\ truth[r] = log[last[r]].upd[r]
                                             /\ author[r] = log[last[r]].scope
          /\ \A i \in 1..Len(log) : i > last[r] => log[i].upd[r] = Keep
      BY WatermarkTypes DEF IndInv, HistoryInv
    <3> QED BY <1>2, <1>5, <2>2, <3>1
  <2> QED BY <2>1, <2>2
<1>7. BoundInv'
  BY <1>1, <1>5, WatermarkTypes DEF IndInv, BoundInv
<1>8. DirectInv'
  BY <1>1, <1>2 DEF IndInv, DirectInv
<1>9. ASSUME NEW r \in Ref, Covered(r)' \/ direct'[r]
      PROVE  u[r] = Keep /\ (Covered(r) \/ direct[r])
             /\ ref[r] = truth[r] /\ truth'[r] = truth[r]
  <2>1. u[r] = Keep
    <3> SUFFICES ASSUME u[r] # Keep PROVE FALSE
      OBVIOUS
    <3>1. last'[r] = Len(log) + 1 /\ ~direct'[r]
      BY <1>2
    <3>2. ClassOf(r) \in Class /\ (r \in Thread \/ r \in Worktree)
      BY DEF ClassOf, Class, Ref
    <3> QED BY <1>1, <1>9, <3>1, <3>2, WatermarksBelow DEF Covered, Vouched, IndInv
  <2>2. UNCHANGED <<truth[r], last[r], direct[r]>>
    BY <1>2, <2>1
  <2>3. Covered(r) \/ direct[r]
    BY <1>1, <1>9, <2>2 DEF Covered, Vouched
  <2> QED BY <2>1, <2>2, <2>3 DEF IndInv, WatermarkSoundAlways, DirectInv
<1>10. WatermarkSoundAlways'
  BY <1>1, <1>9 DEF WatermarkSoundAlways
<1>11. PhaseOk(c)' /\ PlanOk(c)' /\ SavedOk(c)'
  <2>1. PhaseOk(c)' /\ PlanOk(c)'
    BY <1>2, <1>3, <1>5 DEF PhaseOk, PlanOk
  <2>2. SavedOk(c)'
    BY <1>3, <1>9 DEF SavedOk
  <2> QED BY <2>1, <2>2
<1>12. LockInv' /\ CallInv' /\ ExpectationsExact'
       /\ \A d \in Client : d # c => pc[d] \notin LockedPc
  BY <1>1, <1>3, <1>11, InsideKeeps DEF LockedPc
<1>13. ASSUME NEW d \in Client, Reading(d)' PROVE ReadOk(d)'
  <2>1. ReadOk(d) /\ want'[d] = want[d] /\ Reading(d)
    BY <1>1, <1>13 DEF IndInv, ReadInv, Reading
  <2>2. seen'[d] = seen[d] \union {truth'[want[d]]}
    BY <1>4, <2>1
  <2>3. d # c /\ pc'[d] = pc[d]
    BY <1>1, <1>3, <2>1 DEF IndInv, TaskInv
  <2>4. AtFile(d)' => AtFile(d)
    BY <1>1, <1>3, AtFileFrame
  <2> QED BY <1>1, <1>3, <1>12, <2>1, <2>2, <2>3, <2>4 DEF ReadOk, LockedPc, RollsBack
<1> QED BY <1>6, <1>7, <1>8, <1>10, <1>12, <1>13 DEF ReadInv, ReadOk

(* A call whose class is up to date returns or goes on to its next phase. *)
LEMMA MaterializedKeeps ==
  ASSUME IndInv, NEW c \in Client, Materialized(c), pc[c] \in {"tip", "publish"},
         \A d \in Client : d # c => got'[d] = got[d],
         UNCHANGED <<log, ref, open, truth>>,
         mem'[HandleOf[c]][class[c]] = Len(log),
         \A j \in Class : j # class[c] => mem'[HandleOf[c]][j] = mem[HandleOf[c]][j],
         \A d \in Client : Reading(d) /\ AtFile(d)' => ref[want[d]] \in seen[d]
  PROVE  LockInv' /\ CallInv' /\ ReadInv' /\ ExpectationsExact'
<1>1. pc[c] \in LockedPc
  BY DEF LockedPc
<1>2. CASE Reading(c) /\ Return(c)
  BY <1>1, <1>2, ReturnKeeps
<1>3. CASE /\ ~Reading(c)
           /\ Goto(c, IF class[c] = "local" THEN "tip" ELSE "validate")
           /\ class' = [class EXCEPT ![c] = "shared"]
           /\ UNCHANGED <<holder, tip, upd, plan, saved, want, seen>>
  <2>1. /\ \A d \in Client : d # c => pc'[d] = pc[d]
        /\ pc'[c] = IF class[c] = "local" THEN "tip" ELSE "validate"
        /\ class'[c] = "shared" /\ class[c] \in {"local", "shared"}
    BY <1>3 DEF Goto, IndInv, TypeOK, CallTypeOK, Class
  <2>2. PhaseOk(c)'
    <3>1. class[c] = "shared" => mem[HandleOf[c]]["local"] = Len(log)
      BY <1>3 DEF IndInv, CallInv, PhaseOk
    <3> QED BY <2>1, <3>1 DEF PhaseOk, Class
  <2>3. PlanOk(c)' /\ SavedOk(c)'
    BY <2>1 DEF PlanOk, SavedOk, RollsBack
  <2>4. LockInv' /\ CallInv' /\ ExpectationsExact'
        /\ \A d \in Client : d # c => pc[d] \notin LockedPc
    BY <1>1, <1>3, <2>1, <2>2, <2>3, InsideKeeps DEF LockedPc
  <2>5. ASSUME NEW d \in Client, Reading(d)' PROVE ReadOk(d)'
    <3>1. d # c /\ Reading(d) /\ ReadOk(d) /\ pc'[d] = pc[d] /\ got'[d] = got[d]
      BY <1>3, <2>1, <2>5 DEF Reading, IndInv, ReadInv
    <3>2. \A e \in Client : pc'[e] \notin {"publish", "apply"}
      BY <2>1, <2>4 DEF LockedPc
    <3>3. AtFile(d)' => ref[want[d]] \in seen[d]
      BY <3>1
    <3> QED BY <1>3, <3>1, <3>2, <3>3 DEF ReadOk, RollsBack
  <2> QED BY <2>4, <2>5 DEF ReadInv, ReadOk
<1> QED BY <1>2, <1>3, MaterializedCases

LEMMA NotAtFile ==
  ASSUME TypeOK, NEW c \in Client, Materialized(c)
  PROVE  ~AtFile(c)'
<1>1. pc \in [Client -> PcValues]
  BY DEF TypeOK, CallTypeOK
<1>2. pc'[c] \in {"idle", "tip", "validate"}
  <2>1. CASE Return(c)
    BY <1>1, <2>1 DEF Return, Goto
  <2>2. CASE Goto(c, IF class[c] = "local" THEN "tip" ELSE "validate")
    BY <1>1, <2>2 DEF Goto
  <2> QED BY <2>1, <2>2, MaterializedCases
<1> QED BY <1>2 DEF AtFile

LEMMA MaterializedOthers ==
  ASSUME TypeOK, NEW c \in Client, Materialized(c), NEW d \in Client, d # c
  PROVE  UNCHANGED <<pc[d], want[d], tip[d]>>
<1>1. /\ pc \in [Client -> PcValues] /\ tip \in [Client -> 0..MaxLog]
      /\ want \in [Client -> Ref \union {NoRef}]
  BY DEF TypeOK, CallTypeOK
<1>2. CASE Return(c)
  BY <1>1, <1>2 DEF Return, ForgetTask, Goto
<1>3. CASE /\ Goto(c, IF class[c] = "local" THEN "tip" ELSE "validate")
           /\ UNCHANGED <<tip, want>>
  BY <1>1, <1>3 DEF Goto
<1> QED BY <1>2, <1>3, MaterializedCases

LEMMA MaterializeStep ==
  ASSUME ~MayRevert', IndInv, TypeOK', NEW c \in Client, MaterializeClass(c)
  PROVE  /\ LockInv' /\ HistoryInv' /\ BoundInv' /\ DirectInv' /\ WatermarkSoundAlways'
         /\ CallInv' /\ ReadInv' /\ ExpectationsExact'
<1> DEFINE k == class[c]
           h == HandleOf[c]
           m == FoldFrom(c, k)
<1>1. k \in Class /\ h \in Handle
  BY RefPublicationAssumption DEF IndInv, TypeOK, CallTypeOK
<1>2. /\ pc[c] = "tip"
      /\ mem' = [mem EXCEPT ![h][k] = m]
      /\ UNCHANGED <<log, ref, fileLocal, fileShared, open, truth, last, direct, author>>
      /\ \/ /\ m < Len(log)
            /\ got' = IF Reading(c)
                      THEN [got EXCEPT ![c][want[c]] = Reconciled(c, k, m, want[c])]
                      ELSE got
            /\ tip' = [tip EXCEPT ![c] = Len(log)]
            /\ plan' = [plan EXCEPT ![c] = Lagging(c, k, m)]
            /\ saved' = [saved EXCEPT ![c] = ref]
            /\ Goto(c, "publish")
            /\ UNCHANGED <<holder, class, upd, want, seen>>
            /\ foreign' = (foreign \/ Strays(c, plan'[c]))
         \/ /\ ~(m < Len(log))
            /\ got' = IF Reading(c)
                      THEN [got EXCEPT ![c][want[c]] = ref[want[c]]]
                      ELSE got
            /\ Materialized(c)
  BY DEF MaterializeClass, FoldFrom, fileVars, history, writes
<1> HIDE DEF k
<1>3. /\ m \in Nat /\ m <= Len(log)
      /\ mem[h][k] <= m
      /\ DirectWriters # {} => m <= Persisted(c, k)
      /\ \A r \in OwnRefs(c, k), n \in Nat : n <= m => Vouched(r, n)
      /\ \/ k = "local" /\ \E r \in Thread : /\ Lagging(c, k, m)[r] # Keep
                                             /\ author[r] # Home(c)
         \/ \A r \in Ref : Lagging(c, k, m)[r] \in {Keep, truth[r]}
      /\ \A r \in OwnRefs(c, k) : Lagging(c, k, m)[r] = Keep => ref[r] = truth[r]
      /\ \A r \in OwnRefs(c, k) : Reconciled(c, k, m, r) = truth[r]
  BY <1>1, FoldTruth
<1> HIDE DEF m
<1>4. /\ mem'[h][k] = m
      /\ \A j \in Class : j # k => mem'[h][j] = mem[h][j]
      /\ \A g \in Handle : g # h => mem'[g] = mem[g]
  BY <1>1, <1>2 DEF IndInv, TypeOK, RepoTypeOK
<1> HIDE DEF h
<1>5. ASSUME NEW r \in Ref, NEW n \in Nat, Vouched(r, n)' PROVE Vouched(r, n)
  <2>1. CASE r \in OwnRefs(c, k) /\ n <= m
    BY <1>3, <2>1
  <2>2. CASE ~(r \in OwnRefs(c, k) /\ n <= m)
    <3>1. ClassOf(r) \in Class
      BY DEF ClassOf, Class
    <3>3. r \in Thread \union {WorktreeOf[h]} => ClassOf(r) # k \/ ~(n <= m)
      BY <2>2 DEF OwnRefs, Home, h
    <3>2. \A g \in Handle : r \in Thread \union {WorktreeOf[g]} /\ n <= mem'[g][ClassOf(r)]
                              => n <= mem[g][ClassOf(r)]
      BY <1>4, <3>1, <3>3
    <3> QED BY <1>2, <1>5, <3>2 DEF Vouched
  <2> QED BY <2>1, <2>2
<1>11. \A r \in Ref : Covered(r)' => Covered(r)
  BY <1>2, <1>5, WatermarkTypes DEF Covered, IndInv
<1>12. ASSUME NEW d \in Client, Reading(d), AtFile(d)', d # c PROVE ref[want[d]] \in seen[d]
  <2>1. want[d] \in Ref /\ tip[d] \in Nat /\ ReadOk(d)
    BY <1>12, RefPublicationAssumption DEF IndInv, ReadInv, Reading, TypeOK, CallTypeOK
  <2>2. UNCHANGED <<pc[d], want[d], tip[d]>>
    <3>1. CASE Materialized(c)
      BY <1>12, <3>1, MaterializedOthers DEF IndInv
    <3>2. CASE /\ tip' = [tip EXCEPT ![c] = Len(log)]
               /\ Goto(c, "publish") /\ UNCHANGED want
      BY <1>12, <3>2 DEF Goto, IndInv, TypeOK, CallTypeOK
    <3> QED BY <1>2, <3>1, <3>2
  <2>3. AtFile(d)
    BY <1>5, <1>12, <2>1, <2>2 DEF AtFile
  <2> QED BY <1>12, <2>1, <2>3 DEF ReadOk
<1>6. WatermarkSoundAlways'
  BY <1>2, <1>11 DEF IndInv, WatermarkSoundAlways
<1>7. HistoryInv' /\ BoundInv'
  <2>1. HistoryInv'
    BY <1>2 DEF IndInv, HistoryInv
  <2>2. \A g \in Handle, j \in Class : mem'[g][j] <= Len(log)
    BY <1>3, <1>4 DEF IndInv, BoundInv
  <2> QED BY <1>2, <2>1, <2>2 DEF IndInv, BoundInv
<1>8. DirectInv'
  <2>1. ASSUME DirectWriters # {}, NEW g \in Handle
        PROVE  mem'[g]["shared"] <= fileShared /\ mem'[g]["local"] <= fileLocal[WorktreeOf[g]]
    <3>1. mem[g]["shared"] <= fileShared /\ mem[g]["local"] <= fileLocal[WorktreeOf[g]]
      BY <2>1 DEF IndInv, DirectInv
    <3>2. m <= IF k = "shared" THEN fileShared ELSE fileLocal[WorktreeOf[h]]
      BY <1>3, <2>1 DEF Persisted, Home, h
    <3> QED BY <1>1, <1>4, <3>1, <3>2 DEF Class
  <2> QED BY <1>2, <2>1 DEF IndInv, DirectInv
<1>9. CASE m < Len(log)
  <2>1. /\ got' = IF Reading(c)
                  THEN [got EXCEPT ![c][want[c]] = Reconciled(c, k, m, want[c])]
                  ELSE got
        /\ tip' = [tip EXCEPT ![c] = Len(log)]
        /\ plan' = [plan EXCEPT ![c] = Lagging(c, k, m)]
        /\ saved' = [saved EXCEPT ![c] = ref]
        /\ pc' = [pc EXCEPT ![c] = "publish"]
        /\ UNCHANGED <<holder, class, upd, want, seen>>
    BY <1>2, <1>9 DEF Goto
  <2>2. /\ tip'[c] = Len(log) /\ plan'[c] = Lagging(c, k, m) /\ saved'[c] = ref
        /\ pc'[c] = "publish" /\ class'[c] = k
        /\ \A d \in Client : d # c => UNCHANGED <<pc[d], plan[d], saved[d], got[d]>>
    BY <2>1 DEF IndInv, TypeOK, CallTypeOK, k
  <2>3. PhaseOk(c)'
    <3>1. ~Reading(c) /\ k = "shared" => mem[h]["local"] = Len(log)
      BY <1>2 DEF IndInv, CallInv, PhaseOk, k, h
    <3> QED BY <1>2, <1>4, <2>1, <2>2, <3>1 DEF PhaseOk, Reading, Class, h
  <2>4. PlanOk(c)'
    <3>1. ~Strays(c, Lagging(c, k, m))
      BY <1>2, <1>9, <2>2, Zenon DEF MayRevert
    <3>2. \A r \in Ref : Lagging(c, k, m)[r] \in {Keep, truth[r]}
      BY <1>3, <3>1 DEF Strays, k
    <3> QED BY <1>2, <1>3, <2>2, <3>2 DEF PlanOk, OwnRefs, ClassOf, Home
  <2>5. SavedOk(c)'
    BY <1>2, <1>11, <2>2 DEF SavedOk, IndInv, WatermarkSoundAlways, DirectInv
  <2>6. LockInv' /\ CallInv' /\ ExpectationsExact'
        /\ \A d \in Client : d # c => pc[d] \notin LockedPc
    BY <1>2, <2>1, <2>2, <2>3, <2>4, <2>5, InsideKeeps DEF LockedPc
  <2>7. Reading(c) => got'[c][want[c]] = truth[want[c]] /\ want[c] \in Ref
    <3>1. Reading(c) => want[c] \in OwnRefs(c, k) /\ want[c] \in Ref
      BY <1>2, ConstTypes DEF IndInv, TaskInv, TypeOK, CallTypeOK, Reading, OwnRefs, k
    <3>2. Reading(c) => got'[c][want[c]] = Reconciled(c, k, m, want[c])
      BY <2>1, <3>1 DEF IndInv, TypeOK, CallTypeOK
    <3> QED BY <1>3, <3>1, <3>2
  <2>8. ASSUME NEW d \in Client, Reading(d)' PROVE ReadOk(d)'
    <3>1. Reading(d) /\ ReadOk(d) /\ truth[want[d]] \in seen[d]
      BY <2>1, <2>8 DEF Reading, IndInv, ReadInv, ReadOk
    <3>2. CASE d = c
      BY <1>2, <2>1, <2>2, <2>7, <3>1, <3>2 DEF ReadOk, AtFile
    <3>3. CASE d # c
      <4>1. AtFile(d)' => ref[want[d]] \in seen[d]
        BY <1>12, <3>1, <3>3
      <4> QED BY <1>2, <2>1, <2>2, <2>6, <3>1, <3>3, <4>1 DEF ReadOk, LockedPc, RollsBack
    <3> QED BY <3>2, <3>3
  <2> QED BY <1>6, <1>7, <1>8, <2>6, <2>8 DEF ReadInv, ReadOk
<1>10. CASE ~(m < Len(log))
  <2>1. Materialized(c) /\ m = Len(log)
    BY <1>2, <1>3, <1>10, WatermarkTypes DEF IndInv
  <2>2. \A d \in Client : d # c => got'[d] = got[d]
    BY <1>2, <1>10 DEF IndInv, TypeOK, CallTypeOK
  <2>3. \A d \in Client : Reading(d) /\ AtFile(d)' => ref[want[d]] \in seen[d]
    BY <1>12, <2>1, NotAtFile DEF IndInv
  <2> QED BY <1>2, <1>4, <1>6, <1>7, <1>8, <2>1, <2>2, <2>3, MaterializedKeeps DEF k, h
<1> QED BY <1>9, <1>10

LEMMA AdvanceStep ==
  ASSUME ~MayRevert', IndInv, TypeOK', NEW c \in Client,
         AdvanceWatermark(c)
  PROVE  /\ LockInv' /\ HistoryInv' /\ BoundInv' /\ DirectInv' /\ WatermarkSoundAlways'
         /\ CallInv' /\ ReadInv' /\ ExpectationsExact'
<1> DEFINE k == class[c]
           h == HandleOf[c]
           new == [mem[h] EXCEPT ![k] = tip[c]]
<1>1. k \in Class /\ h \in Handle /\ Home(c) = WorktreeOf[h] /\ Home(c) \in Worktree
  BY RefPublicationAssumption, ConstTypes DEF IndInv, TypeOK, CallTypeOK, Home
<1>2. /\ pc[c] = "publish" /\ plan[c] = Nothing
      /\ mem' = [mem EXCEPT ![h] = new]
      /\ \/ fileLocal' = [fileLocal EXCEPT ![Home(c)] =
                            Larger(fileLocal[Home(c)], new["local"])]
         \/ unsaved' = TRUE /\ UNCHANGED fileLocal
      /\ \/ fileShared' = Larger(fileShared, new["shared"])
         \/ unsaved' = TRUE /\ UNCHANGED fileShared
      /\ Materialized(c)
      /\ UNCHANGED <<log, ref, open, got, truth, last, direct, author>>
  BY DEF AdvanceWatermark, fileVars, history, writes
<1>3. tip[c] = Len(log) /\ \A r \in OwnRefs(c, k) : r \in Ref /\ ref[r] = truth[r]
  BY <1>2, ConstTypes DEF IndInv, CallInv, PlanOk, OwnRefs
<1>4. /\ Len(log) \in Nat /\ fileShared \in Nat /\ fileShared' \in Nat
      /\ \A w \in Worktree : fileLocal[w] \in Nat /\ fileLocal'[w] \in Nat
      /\ \A g \in Handle, j \in Class : mem[g][j] \in Nat /\ mem[g][j] <= Len(log)
      /\ \A r \in Ref : last[r] \in Nat
      /\ "local" \in Class /\ "shared" \in Class
  <2>1. fileShared' \in 0..MaxLog /\ fileLocal' \in [Worktree -> 0..MaxLog]
    BY DEF TypeOK, RepoTypeOK
  <2>2. fileShared' \in Nat /\ \A w \in Worktree : fileLocal'[w] \in Nat
    BY <2>1, RefPublicationAssumption
  <2> QED BY <2>2, WatermarkTypes DEF IndInv, BoundInv, Class
<1>5. /\ new[k] = Len(log)
      /\ \A j \in Class : j # k => new[j] = mem[h][j]
      /\ \A j \in Class : new[j] \in Nat /\ new[j] <= Len(log)
  <2>1. mem[h] \in [Class -> 0..MaxLog]
    BY <1>1 DEF IndInv, TypeOK, RepoTypeOK
  <2> QED BY <1>1, <1>3, <1>4, <2>1
<1> HIDE DEF new, k
<1>6. /\ mem'[h] = new
      /\ \A g \in Handle : g # h => mem'[g] = mem[g]
  BY <1>1, <1>2 DEF IndInv, TypeOK, RepoTypeOK
<1>7. \/ fileLocal'[Home(c)] = Larger(fileLocal[Home(c)], new["local"])
      \/ unsaved' = TRUE /\ fileLocal'[Home(c)] = fileLocal[Home(c)]
  BY <1>1, <1>2 DEF IndInv, TypeOK, RepoTypeOK
<1>8. \A w \in Worktree : w # Home(c) => fileLocal'[w] = fileLocal[w]
  BY <1>1, <1>2 DEF IndInv, TypeOK, RepoTypeOK
<1> HIDE DEF h
<1>9. /\ fileShared <= fileShared' /\ fileShared' <= Len(log)
      /\ \A w \in Worktree : fileLocal[w] <= fileLocal'[w] /\ fileLocal'[w] <= Len(log)
  BY <1>2, <1>4, <1>5, <1>7, <1>8 DEF Larger, IndInv, BoundInv
<1>10. ASSUME NEW r \in Ref, NEW n \in Nat, Vouched(r, n)', r \notin OwnRefs(c, k)
       PROVE  Vouched(r, n)
  <2>1. \A g \in Handle : r \in Thread \union {WorktreeOf[g]}
                            => mem'[g][ClassOf(r)] = mem[g][ClassOf(r)]
    <3>1. ClassOf(r) \in Class
      BY DEF ClassOf, Class
    <3>2. r \in Thread \union {Home(c)} => ClassOf(r) # k
      BY <1>10 DEF OwnRefs
    <3> QED BY <1>1, <1>5, <1>6, <3>1, <3>2
  <2>2. CASE r \in Thread
    <3>0. k # "shared"
      BY <1>10, <2>2 DEF OwnRefs, ClassOf
    <3>1. fileShared' = fileShared \/ fileShared' = mem[h]["shared"]
      BY <1>2, <1>4, <1>5, <3>0 DEF Larger
    <3> QED BY <1>1, <1>2, <1>10, <2>1, <2>2, <3>1 DEF Vouched, ClassOf
  <2>3. CASE r \notin Thread
    <3>1. r \in Worktree
      BY <2>3 DEF Ref
    <3>2. CASE r = Home(c)
      <4>0. k # "local"
        BY <1>10, <2>3, <3>2 DEF OwnRefs, ClassOf
      <4>1. fileLocal'[r] = fileLocal[r] \/ fileLocal'[r] = mem[h]["local"]
        BY <1>4, <1>5, <1>7, <3>2, <4>0 DEF Larger
      <4> QED BY <1>1, <1>2, <1>10, <2>1, <2>3, <3>1, <3>2, <4>1 DEF Vouched, ClassOf
    <3>3. CASE r # Home(c)
      <4>1. fileLocal'[r] = fileLocal[r]
        BY <1>8, <3>1, <3>3
      <4> QED BY <1>10, <2>1, <2>3, <4>1 DEF Vouched, ClassOf
    <3> QED BY <3>2, <3>3
  <2> QED BY <2>2, <2>3
<1>11. WatermarkSoundAlways'
  <2>1. \A r \in Ref : Covered(r)' => Covered(r) \/ r \in OwnRefs(c, k)
    BY <1>2, <1>4, <1>10 DEF Covered
  <2> QED BY <1>2, <1>3, <2>1 DEF IndInv, WatermarkSoundAlways
<1>12. HistoryInv' /\ BoundInv'
  <2>1. HistoryInv'
    BY <1>2 DEF IndInv, HistoryInv
  <2>2. \A g \in Handle, j \in Class : mem'[g][j] <= Len(log)
    BY <1>4, <1>5, <1>6
  <2> QED BY <1>2, <1>9, <2>1, <2>2 DEF BoundInv
<1>13. DirectInv'
  <2>1. ASSUME DirectWriters # {}, NEW g \in Handle
        PROVE  mem'[g]["shared"] <= fileShared' /\ mem'[g]["local"] <= fileLocal'[WorktreeOf[g]]
    <3>1. WorktreeOf[g] \in Worktree
      BY ConstTypes
    <3>2. mem[g]["shared"] <= fileShared /\ mem[g]["local"] <= fileLocal[WorktreeOf[g]]
      BY <2>1 DEF IndInv, DirectInv
    <3>3. /\ fileShared' = Larger(fileShared, new["shared"])
          /\ fileLocal'[Home(c)] = Larger(fileLocal[Home(c)], new["local"])
      BY <1>2, <1>7, <2>1 DEF MayRevert
    <3>4. new["shared"] <= fileShared' /\ new["local"] <= fileLocal'[Home(c)]
      BY <1>1, <1>4, <1>5, <3>3 DEF Larger
    <3>5. CASE g = h
      BY <1>1, <1>6, <3>1, <3>4, <3>5
    <3>6. CASE g # h
      BY <1>4, <1>6, <1>9, <3>1, <3>2, <3>6
    <3> QED BY <3>5, <3>6
  <2>2. ASSUME NEW r \in Ref, direct[r]
        PROVE  /\ ref[r] = truth[r]
               /\ last[r] <= fileShared'
               /\ \A w \in Worktree : w = r \/ w = author[r] => last[r] <= fileLocal'[w]
    <3>1. /\ ref[r] = truth[r] /\ last[r] <= fileShared
          /\ \A w \in Worktree : w = r \/ w = author[r] => last[r] <= fileLocal[w]
      BY <2>2 DEF IndInv, DirectInv
    <3> QED BY <1>4, <1>9, <3>1
  <2> QED BY <1>2, <2>1, <2>2 DEF DirectInv
<1>14. ASSUME NEW d \in Client, Reading(d), AtFile(d)' PROVE ref[want[d]] \in seen[d]
  <2>1. /\ want[d] \in Ref /\ tip[d] \in Nat /\ ReadOk(d)
        /\ truth[want[d]] \in seen[d] /\ d # c
    BY <1>2, <1>14, NotAtFile, RefPublicationAssumption
       DEF IndInv, ReadInv, ReadOk, Reading, TypeOK, CallTypeOK
  <2>2. UNCHANGED <<pc[d], want[d], tip[d]>>
    BY <1>2, <2>1, MaterializedOthers DEF IndInv
  <2>3. AtFile(d) \/ want[d] \in OwnRefs(c, k)
    BY <1>10, <1>14, <2>1, <2>2 DEF AtFile
  <2> QED BY <1>3, <1>14, <2>1, <2>3 DEF ReadOk
<1>15. LockInv' /\ CallInv' /\ ReadInv' /\ ExpectationsExact'
  BY <1>2, <1>5, <1>6, <1>14, MaterializedKeeps DEF h, k
<1> QED BY <1>11, <1>12, <1>13, <1>15

(* Every step keeps the inductive invariant. *)
LEMMA InvStep ==
  ASSUME ~MayRevert', IndInv, TypeOK', TaskInv', Next
  PROVE  IndInv'
<1> DEFINE Kept == /\ LockInv' /\ HistoryInv' /\ BoundInv' /\ DirectInv'
                   /\ WatermarkSoundAlways' /\ CallInv' /\ ReadInv' /\ ExpectationsExact'
<1>1. ASSUME NEW h \in Handle, Open(h) \/ Close(h) PROVE Kept
  BY <1>1, OpenStep, CloseStep
<1>2. ASSUME NEW c \in Client, NEW r \in Ref,
             BeginRead(c, r) \/ Publish(c, r)
             \/ PublishDirect(c, r) \/ UndoDirect(c, r)
      PROVE  Kept
  BY <1>2, OutsideStep, PublishStep, PublishDirectStep
<1>3. ASSUME NEW c \in Client, NEW u \in Batches(c),
             BeginRecorded(c, u) \/ BeginDirect(c, u)
      PROVE  Kept
  BY <1>3, OutsideStep
<1>4. ASSUME NEW c \in Client, Gate(c) \/ RawRead(c) \/ FailUnlocked(c) PROVE Kept
  BY <1>4, OutsideStep
<1>5. ASSUME NEW c \in Client, Conflict(c) \/ FailLocked(c) \/ ApplyDone(c) PROVE Kept
  BY <1>5, GiveUpStep
<1>6. ASSUME NEW c \in Client, Lock(c) \/ PublishFail(c) \/ Validate(c) \/ PlanDirect(c)
      PROVE  Kept
  BY <1>6, LockStep, PublishFailStep, ValidateStep, PlanDirectStep
<1>7. ASSUME NEW c \in Client, MaterializeClass(c) \/ AdvanceWatermark(c) \/ Commit(c)
      PROVE  Kept
  BY <1>7, MaterializeStep, AdvanceStep, CommitStep
<1> HIDE DEF Kept
<1>8. Kept
  BY <1>1, <1>2, <1>3, <1>4, <1>5, <1>6, <1>7 DEF Next, ClientNext
<1> QED BY <1>8 DEF Kept, IndInv

LEMMA InitInv ==
  ASSUME Init PROVE IndInv
<1> USE RefPublicationAssumption, ConstTypes DEF Init
<1>1. TypeOK /\ TaskInv
  BY InitType
<1>2. LockInv /\ BoundInv /\ CallInv
  BY DEF LockInv, BoundInv, CallInv, PhaseOk, PlanOk, SavedOk, LockedPc, Class
<1>3. HistoryInv /\ DirectInv /\ WatermarkSoundAlways
  BY DEF HistoryInv, DirectInv, WatermarkSoundAlways, Class
<1>4. ReadInv /\ ExpectationsExact
  BY DEF ReadInv, ReadOk, ExpectationsExact, Reading
<1> QED BY <1>1, <1>2, <1>3, <1>4 DEF IndInv

LEMMA StutterInv ==
  ASSUME IndInv, UNCHANGED vars PROVE IndInv'
<1> USE DEF IndInv, vars, fileVars, taskVars, readVars, history, writes
<1>1. TypeOK' /\ TaskInv'
  BY StutterType
<1>2. LockInv' /\ BoundInv' /\ HistoryInv'
  BY DEF LockInv, BoundInv, HistoryInv
<1>3. DirectInv' /\ WatermarkSoundAlways'
  BY DEF DirectInv, WatermarkSoundAlways, Covered, Vouched
<1>4. CallInv'
  BY DEF CallInv, PhaseOk, PlanOk, SavedOk, Covered, Vouched, Reading, RollsBack
<1>5. ReadInv' /\ ExpectationsExact'
  BY AtFileFrame DEF ReadInv, ReadOk, ExpectationsExact, Reading, Touched, RollsBack
<1> QED BY <1>1, <1>2, <1>3, <1>4, <1>5

LEMMA Inductive ==
  ASSUME ~MayRevert', IndInv, [Next]_vars PROVE IndInv'
<1>1. TypeOK /\ TaskInv
  BY DEF IndInv
<1>2. CASE Next
  <2>1. TypeOK'
    BY <1>1, <1>2, TypeStep
  <2>2. TaskInv'
    BY <1>1, <1>2, <2>1, TaskStep
  <2> QED BY <1>2, <2>1, <2>2, InvStep
<1>3. CASE UNCHANGED vars
  BY <1>3, StutterInv
<1> QED BY <1>2, <1>3

(* No step takes back that a fold may have reverted a write. *)
LEMMA RevertStays ==
  ASSUME MayRevert, [Next]_vars PROVE MayRevert'
<1> USE DEF history, writes
<1>1. ASSUME NEW c \in Client, ClientNext(c)
      PROVE  (foreign => foreign') /\ (unsaved => unsaved')
  <2>1. CASE MaterializeClass(c)
    <3>1. unsaved' = unsaved
      BY <2>1 DEF MaterializeClass
    <3>2. foreign' = (foreign \/ Strays(c, plan'[c])) \/ foreign' = foreign
      BY <2>1, Zenon DEF MaterializeClass
    <3>3. foreign => foreign'
      <4>1. CASE foreign' = (foreign \/ Strays(c, plan'[c]))
        <5>1. PICK b \in BOOLEAN : b <=> (foreign \/ Strays(c, plan'[c]))
          BY Zenon
        <5>2. foreign' = b
          BY <4>1, <5>1, Zenon
        <5> QED BY <5>1, <5>2, Zenon
      <4>2. CASE foreign' = foreign
        BY <4>2, Zenon
      <4> QED BY <3>2, <4>1, <4>2, Zenon
    <3> QED BY <3>1, <3>3, Zenon
  <2>2. CASE AdvanceWatermark(c)
    <3>1. foreign' = foreign
      BY <2>2 DEF AdvanceWatermark
    <3>2. unsaved' = unsaved \/ unsaved' = TRUE
      BY <2>2 DEF AdvanceWatermark
    <3>3. unsaved => unsaved'
      <4>1. CASE unsaved' = unsaved
        BY <4>1, Zenon
      <4>2. CASE unsaved' = TRUE
        BY <4>2
      <4> QED BY <3>2, <4>1, <4>2, Zenon
    <3> QED BY <3>1, <3>3, Zenon
  <2>3. CASE /\ ~MaterializeClass(c) /\ ~AdvanceWatermark(c)
    <3>1. foreign' = foreign /\ unsaved' = unsaved
      BY <1>1, <2>3
         DEF ClientNext, Commit, PublishDirect, UndoDirect, DirectWrite, BeginRead, Publish,
             BeginRecorded, BeginDirect, Gate, RawRead, Lock, FailUnlocked, PublishFail,
             Validate, Conflict, PlanDirect, FailLocked, ApplyDone
    <3> QED BY <3>1, Zenon
  <2> QED BY <2>1, <2>2, <2>3, Zenon
<1>2. ASSUME NEW h \in Handle, Open(h) \/ Close(h)
      PROVE  (foreign => foreign') /\ (unsaved => unsaved')
  <2>1. foreign' = foreign /\ unsaved' = unsaved
    BY <1>2 DEF Open, Close
  <2> QED BY <2>1, Zenon
<1>3. CASE UNCHANGED vars
  <2>1. foreign' = foreign /\ unsaved' = unsaved
    BY <1>3 DEF vars
  <2> QED BY <2>1, Zenon DEF MayRevert
<1>4. CASE Next
  <2>1. (foreign => foreign') /\ (unsaved => unsaved')
    BY <1>1, <1>2, <1>4, Zenon DEF Next
  <2> QED BY <2>1, Zenon DEF MayRevert
<1> QED BY <1>3, <1>4

(* Until a fold may have reverted a write, the invariant holds. *)
LEMMA Invariant == Spec => [](MayRevert \/ IndInv)
<1>1. Init => IndInv
  BY InitInv
<1>2. (MayRevert \/ IndInv) /\ [Next]_vars => (MayRevert \/ IndInv)'
  BY Inductive, RevertStays
<1> QED BY <1>1, <1>2, PTL DEF Spec

(* A ref that a watermark vouches for has its newest value in its file:     *)
(* through every publish, crash, rollback, timeout and failed write of a    *)
(* watermark file, for any processes and worktrees, until the code lets a   *)
(* fold revert a write (MayRevert).                                         *)
THEOREM RefWatermarkSound == Spec => []WatermarkSound
<1>1. MayRevert \/ IndInv => WatermarkSound
  BY DEF IndInv, WatermarkSound
<1> QED BY <1>1, Invariant, PTL

(* Until then a recorded write that passed its expectations appends its     *)
(* record on top of exactly the values that it expects.                     *)
THEOREM RefExpectationsHold == Spec => []ExpectationsHold
<1>1. MayRevert \/ IndInv => ExpectationsHold
  BY DEF IndInv, ExpectationsExact, ExpectationsHold
<1> QED BY <1>1, Invariant, PTL

(* What a read that ends in this step returns was true during the read. *)
LEMMA ReadStep ==
  ASSUME IndInv, Next, NEW c \in Client,
         want[c] # NoRef, want'[c] = NoRef, got'[c][want[c]] # Unread
  PROVE  got'[c][want[c]] \in seen[c]
<1> DEFINE r == want[c]
<1> USE RefPublicationAssumption, ConstTypes
    DEF IndInv, TypeOK, CallTypeOK, Reading, readVars, taskVars
<1>1. r \in Ref /\ Reading(c) /\ truth[r] \in seen[c]
  BY DEF ReadInv, ReadOk
<1>0. ASSUME NEW d \in Client, ForgetTask(d), d # c PROVE FALSE
  BY <1>0 DEF ForgetTask
<1>2. ASSUME got'[c][r] = got[c][r], pc[c] = "publish" PROVE got'[c][r] \in seen[c]
  BY <1>1, <1>2 DEF ReadInv, ReadOk
<1>3. ASSUME NEW d \in Client, RawRead(d) PROVE got'[c][r] \in seen[c]
  <2>1. CASE d = c
    BY <1>1, <1>3, <2>1 DEF RawRead, ReadInv, ReadOk, AtFile
  <2>2. CASE d # c
    BY <1>0, <1>3, <2>2 DEF RawRead
  <2> QED BY <2>1, <2>2
<1>4. ASSUME NEW d \in Client, MaterializeClass(d) PROVE got'[c][r] \in seen[c]
  <2>1. CASE d = c
    <3> DEFINE k == class[c]
    <3>1. k \in Class /\ r \in OwnRefs(c, k)
      BY <1>1, <1>4, <2>1 DEF MaterializeClass, TaskInv, OwnRefs
    <3>2. /\ got'[c][r] = IF FoldFrom(c, k) < Len(log)
                          THEN Reconciled(c, k, FoldFrom(c, k), r) ELSE ref[r]
      BY <1>1, <1>4, <2>1 DEF MaterializeClass, FoldFrom
    <3>3. /\ FoldFrom(c, k) \in Nat
          /\ last[r] <= FoldFrom(c, k) => Covered(r)
          /\ Reconciled(c, k, FoldFrom(c, k), r) = truth[r]
      <4> HIDE DEF k, IndInv
      <4> QED BY <1>1, <3>1, FoldTruth, WatermarkTypes DEF IndInv, Covered
    <3>4. Len(log) \in Nat /\ last[r] \in Nat /\ last[r] <= Len(log)
      BY <1>1, WatermarkTypes DEF HistoryInv
    <3>5. ~(FoldFrom(c, k) < Len(log)) => ref[r] = truth[r]
      BY <1>1, <3>3, <3>4 DEF WatermarkSoundAlways
    <3> QED BY <1>1, <3>2, <3>3, <3>5
  <2>2. CASE d # c
    BY <1>0, <1>1, <1>4, <2>2, MaterializedCases DEF MaterializeClass, Return
  <2> QED BY <2>1, <2>2
<1>5. ASSUME NEW d \in Client, AdvanceWatermark(d) PROVE got'[c][r] \in seen[c]
  <2>1. got' = got /\ pc[d] = "publish" /\ Materialized(d)
    BY <1>5 DEF AdvanceWatermark
  <2>2. CASE d = c
    BY <1>1, <1>2, <2>1, <2>2
  <2>3. CASE d # c
    BY <1>0, <1>1, <2>1, <2>3, MaterializedCases DEF Return
  <2> QED BY <2>2, <2>3
<1>6. ASSUME NEW d \in Client,
             FailUnlocked(d) \/ PublishFail(d) \/ Conflict(d) \/ FailLocked(d) \/ ApplyDone(d)
      PROVE  FALSE
  <2>1. ForgetTask(d) /\ ForgetReads(d)
    BY <1>6 DEF FailUnlocked, PublishFail, Conflict, FailLocked, ApplyDone, Return
  <2> QED BY <1>1, <2>1 DEF ForgetTask, ForgetReads
<1>7. ASSUME NEW h \in Handle, Close(h) PROVE FALSE
  BY <1>1, <1>7 DEF Close
<1>8. ASSUME NEW h \in Handle, Open(h) PROVE FALSE
  BY <1>1, <1>8 DEF Open
<1>9. ASSUME NEW d \in Client, NEW s \in Ref,
             BeginRead(d, s) \/ Publish(d, s)
             \/ PublishDirect(d, s) \/ UndoDirect(d, s)
      PROVE  FALSE
  BY <1>1, <1>9 DEF BeginRead, Publish, PublishDirect, UndoDirect, DirectWrite
<1>10. ASSUME NEW d \in Client, NEW u \in Batches(d),
              BeginRecorded(d, u) \/ BeginDirect(d, u)
       PROVE  FALSE
  BY <1>1, <1>10 DEF BeginRecorded, BeginDirect
<1>11. ASSUME NEW d \in Client,
              Gate(d) \/ Lock(d) \/ Validate(d) \/ PlanDirect(d) \/ Commit(d)
       PROVE  FALSE
  BY <1>1, <1>11 DEF Gate, Lock, Validate, PlanDirect, Commit
<1> QED
  BY <1>3, <1>4, <1>5, <1>6, <1>7, <1>8, <1>9, <1>10, <1>11 DEF Next, ClientNext

(* Until then every logical read is fresh, whether it read the file without *)
(* a lock or folded the tail under it.                                      *)
THEOREM RefReadsFresh == Spec => ReadsFresh
<1> DEFINE Fresh ==
      \A c \in Client :
        LET r == want[c] IN
        r # NoRef /\ want'[c] = NoRef /\ got'[c][r] # Unread
          => got'[c][r] \in seen[c] \/ MayRevert
<1>1. (MayRevert \/ IndInv) /\ [Next]_vars => [Fresh]_vars
  BY ReadStep
<1>2. [](MayRevert \/ IndInv) /\ [][Next]_vars => [][Fresh]_vars
  BY <1>1, PTL
<1> QED BY <1>2, Invariant DEF Spec, ReadsFresh
=============================================================================
