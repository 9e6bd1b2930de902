------------------------ MODULE ThreadStart_proofs -------------------------
(***************************************************************************)
(* For any number of processes, paths and attempts: types, exactly-once    *)
(* commits, captured states and recorded creations of the thread, and what *)
(* a failed start that ran alone leaves behind.  For starts that do not    *)
(* overlap: a started thread and its checkout stay.                        *)
(***************************************************************************)
EXTENDS ThreadStart, SequenceTheorems, TLAPS

Active == Planning \union Staging \union Rewinding

(* A command in progress has a target and a base; its epoch is set before   *)
(* the gate; an attempt is left to it.                                      *)
LocalsInv ==
  \A p \in Proc :
    /\ pc[p] # "idle" => path[p] \in Path /\ base[p] \in State
    /\ pc[p] \in Active \ {"epoch"} => epoch[p] \in 1..MaxClock
    /\ pc[p] \in Active \union {"idle"} => attempt[p] < MaxAttempts

(* A claimed directory that is not gone is there. *)
ClaimInv ==
  \A p \in Proc :
    /\ pc[p] = "idle" => claim[p] = "none"
    /\ StillAtPath(p) => dir[path[p]] \in SUBSET Full

TypeInv == TypeOK /\ LocalsInv /\ ClaimInv

-----------------------------------------------------------------------------
(* The bounds are numbers. *)
LEMMA Bounds ==
  /\ MaxAttempts \in Nat \ {0}
  /\ MaxLog \in Nat /\ MaxClock \in Nat /\ MaxPresence \in Nat
BY ThreadStartAssumption

(* Sequences. *)

(* Appending to a log keeps it a log, and the last element is the new one.  *)
LEMMA AppendLemma ==
  ASSUME NEW S, NEW s \in Seq(S), NEW x \in S
  PROVE  /\ Append(s, x) \in Seq(S)
         /\ Len(Append(s, x)) = Len(s) + 1
         /\ \A i \in 1..Len(s) : Append(s, x)[i] = s[i]
         /\ Append(s, x)[Len(s) + 1] = x
BY AppendProperties

(* The newest inverse of a ledger, and the ledger without it. *)
LEMMA PopLemma ==
  ASSUME NEW s \in Seq(Effect), s # <<>>
  PROVE  /\ Len(s) \in Nat \ {0}
         /\ s[Len(s)] \in Effect
         /\ SubSeq(s, 1, Len(s) - 1) \in Seq(Effect)
         /\ Len(SubSeq(s, 1, Len(s) - 1)) = Len(s) - 1
         /\ \A i \in 1..(Len(s) - 1) : SubSeq(s, 1, Len(s) - 1)[i] = s[i]
<1>1. Len(s) \in Nat /\ Len(s) # 0
  BY EmptySeq
<1>2. s[Len(s)] \in Effect
  BY <1>1, ElementOfSeq
<1>3. SubSeq(s, 1, Len(s) - 1) \in Seq(Effect)
  BY <1>1, SubSeqProperties
<1>4. /\ Len(SubSeq(s, 1, Len(s) - 1)) = Len(s) - 1
      /\ \A i \in 1..(Len(s) - 1) : SubSeq(s, 1, Len(s) - 1)[i] = s[i]
  <2>. DEFINE n == Len(s) - 1
  <2>1. n \in 0..Len(s) /\ 1..n \subseteq 1..Len(s)
    BY <1>1
  <2>2. n \in Int /\ \A i \in 1..n : s[i] \in Effect
    BY <1>1, <2>1, ElementOfSeq
  <2>. HIDE DEF n
  <2>3. /\ Len(SubSeq(s, 1, n)) = IF 1 <= n THEN n - 1 + 1 ELSE 0
        /\ \A i \in 1..(n - 1 + 1) : SubSeq(s, 1, n)[i] = s[1 + i - 1]
    BY <2>2, SubSeqProperties
  <2>4. Len(SubSeq(s, 1, n)) = n /\ \A i \in 1..n : SubSeq(s, 1, n)[i] = s[i]
    BY <2>1, <2>2, <2>3
  <2>. QED  BY <2>4 DEF n
<1>. QED  BY <1>1, <1>2, <1>3, <1>4

(* An empty ledger is a ledger. *)
LEMMA EmptyLedger == <<>> \in Seq(Effect) /\ Len(<<>>) = 0
BY EmptySeq

-----------------------------------------------------------------------------
(* Type correctness. *)

(* The types hold at the start. *)
LEMMA InitTypeInv == Init => TypeInv
<1>. SUFFICES ASSUME Init PROVE TypeInv
  OBVIOUS
<1>. USE Bounds
<1>1. log \in Seq(Entry) /\ Len(log) <= MaxLog
  BY EmptySeq DEF Init
<1>2. dir \in [Path -> Dir]
  BY DEF Init, Dir
<1>3. solo \in Solo
  BY DEF Init, Solo, Nobody, Record, Dir
<1>4. ledger \in [Proc -> Seq(Effect)]
  BY EmptyLedger DEF Init
<1>5. LocalsInv
  <2>1. \A p \in Proc : pc[p] = "idle" /\ attempt[p] = 0
    BY DEF Init
  <2>2. 0 < MaxAttempts
    OBVIOUS
  <2>3. "idle" \notin Active
    BY DEF Active, Planning, Staging, Rewinding
  <2>. QED  BY <2>1, <2>2, <2>3, Zenon DEF LocalsInv
<1>6. ClaimInv
  BY DEF Init, ClaimInv, StillAtPath
<1>7. unsure \subseteq 1..MaxLog /\ crowded \in BOOLEAN
  BY DEF Init
<1>. QED
  BY <1>1, <1>2, <1>3, <1>4, <1>5, <1>6, <1>7
  DEF Init, TypeInv, TypeOK, State, FirstState, NoState, Record, PcValues, Claim

(* An inverse joins a ledger. *)
LEMMA PushType ==
  ASSUME TypeInv, NEW p \in Proc, NEW effect \in Effect, Push(p, effect)
  PROVE  ledger' \in [Proc -> Seq(Effect)]
BY AppendLemma DEF TypeInv, TypeOK, Push

(* A batch of another command is an entry of the log. *)
LEMMA NoTxEntry ==
  ASSUME NEW kind \in Kind PROVE [tx |-> NoTx, kind |-> kind] \in Entry
BY DEF Entry, Tx

(* The batch of a start is an entry. *)
LEMMA StartEntry ==
  ASSUME TypeInv, NEW p \in Proc, pc[p] = "commit"
  PROVE  [tx |-> TransactionId(p), kind |-> StagedKind(p)] \in Entry
<1>1. base[p] \in State /\ epoch[p] \in 1..MaxClock
  BY DEF TypeInv, LocalsInv, Active, Staging
<1>2. TransactionId(p) \in Tx
  BY <1>1 DEF TransactionId, Tx
<1>3. StagedKind(p) \in Kind
  BY DEF StagedKind, Kind
<1>. QED  BY <1>2, <1>3 DEF Entry

(* A batch is appended. *)
LEMMA LogGrows ==
  ASSUME TypeInv, NEW tx, NEW kind, [tx |-> tx, kind |-> kind] \in Entry,
         Append1(tx, kind)
  PROVE  /\ log' \in Seq(Entry)
         /\ Len(log') = Len(log) + 1 /\ Len(log') <= MaxLog
         /\ \A i \in 1..Len(log) : log'[i] = log[i]
         /\ log'[Len(log) + 1].tx = tx /\ log'[Len(log) + 1].kind = kind
<1>. DEFINE entry == [tx |-> tx, kind |-> kind]
<1>1. log \in Seq(Entry) /\ Len(log) \in Nat
  BY LenProperties DEF TypeInv, TypeOK
<1>2. log' = Append(log, entry) /\ Len(log) < MaxLog
  BY DEF Append1
<1>3. entry.tx = tx /\ entry.kind = kind
  OBVIOUS
<1>. HIDE DEF entry
<1>4. /\ Append(log, entry) \in Seq(Entry)
      /\ Len(Append(log, entry)) = Len(log) + 1
      /\ \A i \in 1..Len(log) : Append(log, entry)[i] = log[i]
      /\ Append(log, entry)[Len(log) + 1] = entry
  BY <1>1, AppendLemma DEF entry
<1>. QED  BY <1>1, <1>2, <1>3, <1>4, Bounds

(* The state that the next batch makes is one of the numbered states. *)
LEMMA NewStateType ==
  ASSUME TypeInv, NEW tx, NEW kind, Append1(tx, kind) PROVE NewState \in State
BY Bounds DEF TypeInv, TypeOK, Append1, NewState, State, FirstState

(* What a process leaves behind when it ends. *)
LEMMA LeaveType ==
  ASSUME TypeInv, NEW p \in Proc, Leave(p)
  PROVE  /\ pc' \in [Proc -> PcValues]
         /\ path' \in [Proc -> Path \union {NoPath}]
         /\ existing' \in [Proc -> State \union {NoState}]
         /\ base' \in [Proc -> State \union {NoState}]
         /\ epoch' \in [Proc -> 0..MaxClock]
         /\ planNew' \in [Proc -> BOOLEAN]
         /\ attempt' \in [Proc -> 0..MaxAttempts]
         /\ since' \in [Proc -> 0..MaxLog]
         /\ claim' \in [Proc -> Claim]
         /\ prior' \in [Proc -> Record]
         /\ ledger' \in [Proc -> Seq(Effect)]
         /\ bad' \in [Proc -> BOOLEAN]
         /\ captured' \in State \union {NoState}
         /\ live' \in Path \union {NoPath}
         /\ solo' \in Solo
         /\ unsure' \subseteq 1..MaxLog
         /\ crowded' \in BOOLEAN
         /\ LocalsInv'
         /\ dir' = dir => ClaimInv'
<1>. USE Bounds
<1>1. ledger' \in [Proc -> Seq(Effect)]
  BY EmptyLedger DEF TypeInv, TypeOK, Leave
<1>2. Nobody \in Solo
  BY DEF Nobody, Solo, NoState, Record, Dir
<1>3. solo' \in Solo
  BY <1>2 DEF TypeInv, TypeOK, Leave
<1>4. prior' \in [Proc -> Record] /\ claim' \in [Proc -> Claim]
  BY DEF TypeInv, TypeOK, Leave, Record, Claim
<1>5. LocalsInv'
  BY DEF TypeInv, TypeOK, LocalsInv, Leave, Goto, Active, Planning, Staging, Rewinding
<1>7. dir' = dir => ClaimInv'
  BY DEF TypeInv, TypeOK, ClaimInv, StillAtPath, Leave, Goto
<1>6. pc' \in [Proc -> PcValues]
  BY DEF TypeInv, TypeOK, Leave, Goto, PcValues
<1>. QED
  BY <1>1, <1>3, <1>4, <1>5, <1>6, <1>7 DEF TypeInv, TypeOK, Leave

(* One action at a time. *)
LEMMA NextTypeInv ==
  ASSUME TypeInv, [Next]_vars
  PROVE  TypeInv'
<1>. USE Bounds
<1>1. ASSUME NEW p \in Proc, Start(p) PROVE TypeInv'
  <2>1. solo' \in Solo
    BY <1>1 DEF TypeInv, TypeOK, Start, Solo, Nobody, Record, Dir
  <2>2. UNCHANGED <<log, main, ref, genesis, record, dir, presence, clock, captured, live,
                    unsure>>
    BY <1>1 DEF Start, repoVars
  <2>3. UNCHANGED <<epoch, planNew, attempt, since, claim, prior, ledger, bad>>
    BY <1>1 DEF Start, txVars
  <2>4. /\ path' \in [Proc -> Path \union {NoPath}]
        /\ existing' \in [Proc -> State \union {NoState}]
        /\ base' \in [Proc -> State \union {NoState}]
    BY <1>1 DEF TypeInv, TypeOK, Start
  <2>5. pc' \in [Proc -> PcValues]
    BY <1>1 DEF TypeInv, TypeOK, Start, Goto, PcValues, Planning
  <2>9. crowded' \in BOOLEAN
    BY <1>1, Zenon DEF Start
  <2>6. TypeOK'
    BY <2>1, <2>2, <2>3, <2>4, <2>5, <2>9 DEF TypeInv, TypeOK
  <2>7. LocalsInv'
    BY <1>1 DEF TypeInv, TypeOK, LocalsInv, Start, Goto, repoVars, txVars, Active,
       Planning, Staging, Rewinding, State, NoState
  <2>8. ClaimInv'
    BY <1>1 DEF TypeInv, TypeOK, ClaimInv, StillAtPath, Start, Goto, repoVars, txVars
  <2>. QED  BY <2>6, <2>7, <2>8 DEF TypeInv
<1>2. ASSUME NEW p \in Proc, ResolveEpoch(p) PROVE TypeInv'
  <2>1. TypeOK'
    <3>1. record # NoRecord => record.epoch \in 1..MaxClock
      BY DEF TypeInv, TypeOK, Record
    <3>2. clock' \in 0..MaxClock
      BY <1>2 DEF TypeInv, TypeOK, ResolveEpoch, FreshEpoch
    <3>4. \E n \in 0..MaxClock : epoch' = [epoch EXCEPT ![p] = n]
      BY <1>2, <3>1, <3>2 DEF ResolveEpoch, FreshEpoch
    <3>3. epoch' \in [Proc -> 0..MaxClock]
      BY <3>4 DEF TypeInv, TypeOK
    <3>. QED
      BY <1>2, <3>2, <3>3 DEF TypeInv, TypeOK, ResolveEpoch, Goto,
         repoVars, request, txVars, history, PcValues, Planning, Staging, Rewinding
  <2>2. LocalsInv'
    BY <1>2 DEF TypeInv, TypeOK, LocalsInv, Active, ResolveEpoch, Goto,
       repoVars, request, txVars, history, PcValues, Planning, Staging, Rewinding,
       FreshEpoch, Record
  <2>3. ClaimInv'
    BY <1>2 DEF TypeInv, TypeOK, ClaimInv, StillAtPath, ResolveEpoch, Goto,
       repoVars, request, txVars, history, PcValues, Planning, Staging, Rewinding,
       FreshEpoch, Record
  <2>. QED  BY <2>1, <2>2, <2>3 DEF TypeInv
<1>3. ASSUME NEW p \in Proc, CommitGate(p) PROVE TypeInv'
  <2>1. TypeOK'
    BY <1>3 DEF TypeInv, TypeOK, LocalsInv, Active, CommitGate, Goto,
       repoVars, request, txVars, history, PcValues, Planning, Staging, Rewinding
  <2>2. LocalsInv'
    BY <1>3 DEF TypeInv, TypeOK, LocalsInv, Active, CommitGate, Goto,
       repoVars, request, txVars, history, PcValues, Planning, Staging, Rewinding
  <2>3. ClaimInv'
    BY <1>3 DEF TypeInv, TypeOK, ClaimInv, StillAtPath, CommitGate, Goto,
       repoVars, request, txVars, history, PcValues, Planning, Staging, Rewinding
  <2>. QED  BY <2>1, <2>2, <2>3 DEF TypeInv
<1>4. ASSUME NEW p \in Proc, FinalizeCommitted(p) PROVE TypeInv'
  <2>1. TypeOK'
    BY <1>4 DEF TypeInv, TypeOK, LocalsInv, Active, FinalizeCommitted, Goto,
       repoVars, request, txVars, history, PcValues, Planning, Staging, Rewinding
  <2>2. LocalsInv'
    BY <1>4 DEF TypeInv, TypeOK, LocalsInv, Active, FinalizeCommitted, Goto,
       repoVars, request, txVars, history, PcValues, Planning, Staging, Rewinding
  <2>3. ClaimInv'
    BY <1>4 DEF TypeInv, TypeOK, ClaimInv, StillAtPath, FinalizeCommitted, Goto,
       repoVars, request, txVars, history, PcValues, Planning, Staging, Rewinding
  <2>. QED  BY <2>1, <2>2, <2>3 DEF TypeInv
<1>5. ASSUME NEW p \in Proc, PlanTarget(p) PROVE TypeInv'
  <2>1. TypeOK'
    BY <1>5 DEF TypeInv, TypeOK, LocalsInv, Active, PlanTarget, Goto,
       repoVars, request, txVars, history, PcValues, Planning, Staging, Rewinding
  <2>2. LocalsInv'
    BY <1>5 DEF TypeInv, TypeOK, LocalsInv, Active, PlanTarget, Goto,
       repoVars, request, txVars, history, PcValues, Planning, Staging, Rewinding
  <2>3. ClaimInv'
    BY <1>5 DEF TypeInv, TypeOK, ClaimInv, StillAtPath, PlanTarget, Goto,
       repoVars, request, txVars, history, PcValues, Planning, Staging, Rewinding
  <2>. QED  BY <2>1, <2>2, <2>3 DEF TypeInv
<1>6. ASSUME NEW p \in Proc, BindGenesis(p) PROVE TypeInv'
  <2>1. TypeOK'
    BY <1>6 DEF TypeInv, TypeOK, LocalsInv, Active, BindGenesis, Goto,
       repoVars, request, txVars, history, PcValues, Planning, Staging, Rewinding
  <2>2. LocalsInv'
    BY <1>6 DEF TypeInv, TypeOK, LocalsInv, Active, BindGenesis, Goto,
       repoVars, request, txVars, history, PcValues, Planning, Staging, Rewinding
  <2>3. ClaimInv'
    BY <1>6 DEF TypeInv, TypeOK, ClaimInv, StillAtPath, BindGenesis, Goto,
       repoVars, request, txVars, history, PcValues, Planning, Staging, Rewinding
  <2>. QED  BY <2>1, <2>2, <2>3 DEF TypeInv
<1>7. ASSUME NEW p \in Proc, Attempt(p) PROVE TypeInv'
  <2>1. TypeOK'
    BY <1>7 DEF TypeInv, TypeOK, LocalsInv, Active, Attempt, Goto,
       repoVars, request, txVars, history, PcValues, Planning, Staging, Rewinding, Claim
  <2>2. LocalsInv'
    BY <1>7 DEF TypeInv, TypeOK, LocalsInv, Active, Attempt, Goto,
       repoVars, request, txVars, history, PcValues, Planning, Staging, Rewinding, Claim
  <2>3. ClaimInv'
    BY <1>7 DEF TypeInv, TypeOK, ClaimInv, StillAtPath, Attempt, Goto,
       repoVars, request, txVars, history, PcValues, Planning, Staging, Rewinding, Claim
  <2>. QED  BY <2>1, <2>2, <2>3 DEF TypeInv
<1>8. ASSUME NEW p \in Proc, StageDir(p) PROVE TypeInv'
  <2>0. /\ dir' \in [Path -> Dir]
        /\ \A d \in Path : dir[d] \in SUBSET Full => dir'[d] \in SUBSET Full
    BY <1>8 DEF TypeInv, TypeOK, LocalsInv, StageDir, Dir
  <2>1. TypeOK'
    <3>1. ledger' = ledger \/ Push(p, "dir")
      BY <1>8 DEF StageDir
    <3>2. ledger' \in [Proc -> Seq(Effect)]
      BY <3>1, PushType DEF TypeInv, TypeOK, Effect
    <3>. QED
      BY <1>8, <2>0, <3>2 DEF TypeInv, TypeOK, StageDir, Goto, Abort, Claim,
         repoVars, request, txVars, history, PcValues, Planning, Staging, Rewinding
  <2>2. LocalsInv'
    BY <1>8 DEF TypeInv, TypeOK, LocalsInv, Active, StageDir, Goto,
       repoVars, request, txVars, history, PcValues, Planning, Staging, Rewinding, Push,
       Abort, Claim, Effect, Dir
  <2>3. ClaimInv'
    <3>1. pc[p] = "dir" /\ path' = path /\ path[p] \in Path
      BY <1>8 DEF StageDir, request, TypeInv, LocalsInv
    <3>2. CASE claim' = claim
      BY <1>8, <2>0, <3>1, <3>2 DEF TypeInv, TypeOK, LocalsInv, ClaimInv, StillAtPath,
         StageDir, Goto, Abort
    <3>3. CASE claim' # claim
      <4>1. dir'[path[p]] = {}
        BY <1>8, <3>1, <3>3 DEF StageDir, TypeInv, TypeOK
      <4>2. pc' = [pc EXCEPT ![p] = "setref"] /\ \A q \in Proc \ {p} : claim'[q] = claim[q]
        BY <1>8, <3>3 DEF StageDir, Goto, TypeInv, TypeOK
      <4>. QED
        BY <2>0, <3>1, <4>1, <4>2 DEF TypeInv, TypeOK, LocalsInv, ClaimInv, StillAtPath
    <3>. QED  BY <3>2, <3>3
  <2>. QED  BY <2>1, <2>2, <2>3 DEF TypeInv
<1>9. ASSUME NEW p \in Proc, StageRef(p) PROVE TypeInv'
  <2>1. TypeOK'
    <3>1. ledger' = ledger \/ Push(p, "ref")
      BY <1>9 DEF StageRef
    <3>2. ledger' \in [Proc -> Seq(Effect)]
      BY <3>1, PushType DEF TypeInv, TypeOK, Effect
    <3>. QED
      BY <1>9, <3>2 DEF TypeInv, TypeOK, StageRef, Goto, Abort,
         repoVars, request, txVars, history, PcValues, Planning, Staging, Rewinding
  <2>2. LocalsInv'
    BY <1>9 DEF TypeInv, TypeOK, LocalsInv, Active, StageRef, Goto,
       repoVars, request, txVars, history, PcValues, Planning, Staging, Rewinding, Push,
       Abort, Effect
  <2>3. ClaimInv'
    BY <1>9 DEF TypeInv, TypeOK, ClaimInv, StillAtPath, StageRef, Goto,
       repoVars, request, txVars, history, PcValues, Planning, Staging, Rewinding, Push,
       Abort, Effect
  <2>. QED  BY <2>1, <2>2, <2>3 DEF TypeInv
<1>10. ASSUME NEW p \in Proc, CheckCheckout(p) PROVE TypeInv'
  <2>1. TypeOK'
    <3>1. ledger' \in [Proc -> Seq(Effect)]
      BY <1>10, PushType DEF CheckCheckout, Effect
    <3>. QED
      BY <1>10, <3>1 DEF TypeInv, TypeOK, CheckCheckout, Goto, Abort, Claim, Dir,
         repoVars, request, txVars, history, PcValues, Planning, Staging, Rewinding
  <2>2. LocalsInv'
    BY <1>10 DEF TypeInv, TypeOK, LocalsInv, Active, CheckCheckout, Goto,
       repoVars, request, txVars, history, PcValues, Planning, Staging, Rewinding, Push,
       Effect
  <2>3. ClaimInv'
    BY <1>10 DEF TypeInv, TypeOK, ClaimInv, StillAtPath, CheckCheckout, Goto,
       repoVars, request, txVars, history, PcValues, Planning, Staging, Rewinding, Push,
       Effect
  <2>. QED  BY <2>1, <2>2, <2>3 DEF TypeInv
<1>11. ASSUME NEW p \in Proc, WriteMeta(p) PROVE TypeInv'
  <2>0. /\ dir' \in [Path -> Dir]
        /\ \A d \in Path : dir[d] \in SUBSET Full => dir'[d] \in SUBSET Full
    <3>1. path[p] \in Path
      BY <1>11 DEF TypeInv, LocalsInv, WriteMeta
    <3>2. CASE StillAtPath(p)
      <4>1. dir[path[p]] \in SUBSET Full
        BY <3>2 DEF TypeInv, ClaimInv
      <4>2. dir' = [dir EXCEPT ![path[p]] = dir[path[p]] \union {"meta"}]
        BY <1>11, <3>2 DEF WriteMeta, WriteCheckout
      <4>3. dir[path[p]] \union {"meta"} \in SUBSET Full
        BY <4>1 DEF Full
      <4>. QED  BY <3>1, <4>2, <4>3 DEF TypeInv, TypeOK, Dir
    <3>3. CASE ~StillAtPath(p)
      BY <1>11, <3>3 DEF WriteMeta, WriteCheckout, TypeInv, TypeOK
    <3>. QED  BY <3>2, <3>3
  <2>1. TypeOK'
    BY <1>11, <2>0 DEF TypeInv, TypeOK, WriteMeta, WriteCheckout, Abort, Goto,
       repoVars, request, txVars, history, PcValues, Planning, Staging, Rewinding
  <2>2. LocalsInv'
    BY <1>11 DEF TypeInv, TypeOK, LocalsInv, Active, WriteMeta, Goto,
       repoVars, request, txVars, history, PcValues, Planning, Staging, Rewinding,
       WriteCheckout, Abort, Full
  <2>3. ClaimInv'
    BY <1>11, <2>0 DEF TypeInv, TypeOK, LocalsInv, ClaimInv, StillAtPath, WriteMeta,
       WriteCheckout, Abort, Goto,
       repoVars, request, txVars, history, PcValues, Planning, Staging, Rewinding
  <2>. QED  BY <2>1, <2>2, <2>3 DEF TypeInv
<1>12. ASSUME NEW p \in Proc, WriteTree(p) PROVE TypeInv'
  <2>0. /\ dir' \in [Path -> Dir]
        /\ \A d \in Path : dir[d] \in SUBSET Full => dir'[d] \in SUBSET Full
    <3>1. path[p] \in Path
      BY <1>12 DEF TypeInv, LocalsInv, WriteTree
    <3>2. CASE StillAtPath(p)
      <4>1. dir[path[p]] \in SUBSET Full
        BY <3>2 DEF TypeInv, ClaimInv
      <4>2. dir' = [dir EXCEPT ![path[p]] = dir[path[p]] \union {"tree"}]
        BY <1>12, <3>2 DEF WriteTree, WriteCheckout
      <4>3. dir[path[p]] \union {"tree"} \in SUBSET Full
        BY <4>1 DEF Full
      <4>. QED  BY <3>1, <4>2, <4>3 DEF TypeInv, TypeOK, Dir
    <3>3. CASE ~StillAtPath(p)
      BY <1>12, <3>3 DEF WriteTree, WriteCheckout, TypeInv, TypeOK
    <3>. QED  BY <3>2, <3>3
  <2>1. TypeOK'
    BY <1>12, <2>0 DEF TypeInv, TypeOK, WriteTree, WriteCheckout, Abort, Goto,
       repoVars, request, txVars, history, PcValues, Planning, Staging, Rewinding
  <2>2. LocalsInv'
    BY <1>12 DEF TypeInv, TypeOK, LocalsInv, Active, WriteTree, Goto,
       repoVars, request, txVars, history, PcValues, Planning, Staging, Rewinding,
       WriteCheckout, Abort, Full
  <2>3. ClaimInv'
    BY <1>12, <2>0 DEF TypeInv, TypeOK, LocalsInv, ClaimInv, StillAtPath, WriteTree,
       WriteCheckout, Abort, Goto,
       repoVars, request, txVars, history, PcValues, Planning, Staging, Rewinding
  <2>. QED  BY <2>1, <2>2, <2>3 DEF TypeInv
<1>13. ASSUME NEW p \in Proc, SnapshotRecord(p) PROVE TypeInv'
  <2>1. TypeOK'
    <3>1. ledger' \in [Proc -> Seq(Effect)]
      BY <1>13, PushType DEF SnapshotRecord, Effect
    <3>. QED
      BY <1>13, <3>1 DEF TypeInv, TypeOK, SnapshotRecord, Goto, Abort, Claim, Dir,
         repoVars, request, txVars, history, PcValues, Planning, Staging, Rewinding
  <2>2. LocalsInv'
    BY <1>13 DEF TypeInv, TypeOK, LocalsInv, Active, SnapshotRecord, Goto,
       repoVars, request, txVars, history, PcValues, Planning, Staging, Rewinding, Push,
       Effect
  <2>3. ClaimInv'
    BY <1>13 DEF TypeInv, TypeOK, ClaimInv, StillAtPath, SnapshotRecord, Goto,
       repoVars, request, txVars, history, PcValues, Planning, Staging, Rewinding, Push,
       Effect
  <2>. QED  BY <2>1, <2>2, <2>3 DEF TypeInv
<1>14. ASSUME NEW p \in Proc, WriteRecord(p) PROVE TypeInv'
  <2>1. TypeOK'
    BY <1>14 DEF TypeInv, TypeOK, LocalsInv, Active, WriteRecord, Goto,
       repoVars, request, txVars, history, PcValues, Planning, Staging, Rewinding, Record
  <2>2. LocalsInv'
    BY <1>14 DEF TypeInv, TypeOK, LocalsInv, Active, WriteRecord, Goto,
       repoVars, request, txVars, history, PcValues, Planning, Staging, Rewinding, Record
  <2>3. ClaimInv'
    BY <1>14 DEF TypeInv, TypeOK, ClaimInv, StillAtPath, WriteRecord, Goto,
       repoVars, request, txVars, history, PcValues, Planning, Staging, Rewinding, Record
  <2>. QED  BY <2>1, <2>2, <2>3 DEF TypeInv
<1>15. ASSUME NEW p \in Proc, Fail(p) PROVE TypeInv'
  <2>1. TypeOK'
    BY <1>15 DEF TypeInv, TypeOK, LocalsInv, Active, Fail, Goto,
       repoVars, request, txVars, history, PcValues, Planning, Staging, Rewinding, Abort
  <2>2. LocalsInv'
    BY <1>15 DEF TypeInv, TypeOK, LocalsInv, Active, Fail, Goto,
       repoVars, request, txVars, history, PcValues, Planning, Staging, Rewinding, Abort
  <2>3. ClaimInv'
    BY <1>15 DEF TypeInv, TypeOK, ClaimInv, StillAtPath, Fail, Goto,
       repoVars, request, txVars, history, PcValues, Planning, Staging, Rewinding, Abort
  <2>. QED  BY <2>1, <2>2, <2>3 DEF TypeInv
<1>16. ASSUME NEW p \in Proc, RewindFails(p) PROVE TypeInv'
  <2>1. TypeOK'
    BY <1>16 DEF TypeInv, TypeOK, LocalsInv, Active, RewindFails, Goto,
       repoVars, request, txVars, history, PcValues, Planning, Staging, Rewinding, Older
  <2>2. LocalsInv'
    BY <1>16 DEF TypeInv, TypeOK, LocalsInv, Active, RewindFails, Goto,
       repoVars, request, txVars, history, PcValues, Planning, Staging, Rewinding, Older
  <2>3. ClaimInv'
    BY <1>16 DEF TypeInv, TypeOK, ClaimInv, StillAtPath, RewindFails, Goto,
       repoVars, request, txVars, history, PcValues, Planning, Staging, Rewinding, Older
  <2>. QED  BY <2>1, <2>2, <2>3 DEF TypeInv
<1>17. ASSUME NEW p \in Proc, RewindDone(p) PROVE TypeInv'
  <2>1. TypeOK'
    <3>0. pc[p] \in Rewinding => attempt[p] + 1 \in 0..MaxAttempts
      BY DEF TypeInv, TypeOK, LocalsInv, Active
    <3>1. attempt' \in [Proc -> 0..MaxAttempts]
      BY <1>17, <3>0 DEF TypeInv, TypeOK, RewindDone
    <3>. QED
      BY <1>17, <3>1 DEF TypeInv, TypeOK, RewindDone, Goto,
         repoVars, request, txVars, history, PcValues, Planning, Staging, Rewinding
  <2>2. LocalsInv'
    BY <1>17 DEF TypeInv, TypeOK, LocalsInv, Active, RewindDone, Goto,
       repoVars, request, txVars, history, PcValues, Planning, Staging, Rewinding
  <2>3. ClaimInv'
    BY <1>17 DEF TypeInv, TypeOK, ClaimInv, StillAtPath, RewindDone, Goto,
       repoVars, request, txVars, history, PcValues, Planning, Staging, Rewinding
  <2>. QED  BY <2>1, <2>2, <2>3 DEF TypeInv
<1>18. ASSUME NEW p \in Proc, Finalize(p) PROVE TypeInv'
  <2>1. Leave(p)
    BY <1>18 DEF Finalize
  <2>2. /\ UNCHANGED <<log, main, ref, genesis, record, dir, clock>>
        /\ presence' \in 0..MaxPresence
    BY <1>18 DEF Finalize, TypeInv, TypeOK, repoVars
  <2>. QED  BY <2>1, <2>2, LeaveType DEF TypeInv, TypeOK
<1>19. ASSUME NEW p \in Proc, FinalizeFails(p) PROVE TypeInv'
  <2>1. Leave(p)
    BY <1>19 DEF FinalizeFails
  <2>2. /\ UNCHANGED <<log, main, ref, genesis, record, dir, clock>>
        /\ presence' \in 0..MaxPresence
    BY <1>19 DEF FinalizeFails, TypeInv, TypeOK, repoVars
  <2>. QED  BY <2>1, <2>2, LeaveType DEF TypeInv, TypeOK
<1>20. ASSUME NEW p \in Proc, Return(p) PROVE TypeInv'
  <2>1. Leave(p)
    BY <1>20 DEF Return
  <2>2. /\ UNCHANGED <<log, main, ref, genesis, record, dir, clock>>
        /\ presence' \in 0..MaxPresence
    BY <1>20 DEF Return, TypeInv, TypeOK, repoVars
  <2>. QED  BY <2>1, <2>2, LeaveType DEF TypeInv, TypeOK
<1>21. ASSUME NEW p \in Proc, Crash(p) PROVE TypeInv'
  <2>1. Leave(p)
    BY <1>21 DEF Crash
  <2>2. /\ UNCHANGED <<log, main, ref, genesis, record, dir, clock>>
        /\ presence' \in 0..MaxPresence
    BY <1>21 DEF Crash, TypeInv, TypeOK, repoVars
  <2>. QED  BY <2>1, <2>2, LeaveType DEF TypeInv, TypeOK
<1>22. ASSUME NEW p \in Proc, Commit(p) PROVE TypeInv'
  <2>1. log' = log \/ Append1(TransactionId(p), StagedKind(p))
    BY <1>22 DEF Commit
  <2>2. [tx |-> TransactionId(p), kind |-> StagedKind(p)] \in Entry
    BY <1>22, StartEntry DEF Commit
  <2>3. log' \in Seq(Entry) /\ Len(log') <= MaxLog
    BY <2>1, <2>2, LogGrows DEF TypeInv, TypeOK
  <2>4. live' \in Path \union {NoPath}
    BY <1>22 DEF TypeInv, TypeOK, LocalsInv, Commit, Seal
  <2>5. \E label \in {"dup", "conflict", "done", "error"} : pc' = [pc EXCEPT ![p] = label]
    BY <1>22 DEF Commit, Seal, Abort, Goto
  <2>6. UNCHANGED <<main, ref, genesis, record, dir, presence, clock, request, txVars, captured, solo,
                    crowded>>
    BY <1>22 DEF Commit
  <2>10. unsure' \subseteq 1..MaxLog
    <3>1. unsure' = unsure \/ (unsure' = unsure \union {Len(log) + 1} /\ Len(log) < MaxLog)
      BY <1>22 DEF Commit, Append1
    <3>2. Len(log) \in Nat /\ unsure \subseteq 1..MaxLog
      BY LenProperties DEF TypeInv, TypeOK
    <3>3. Len(log) < MaxLog => Len(log) + 1 \in 1..MaxLog
      BY <3>2
    <3>. QED  BY <3>1, <3>2, <3>3, Zenon
  <2>7. TypeOK'
    BY <2>3, <2>4, <2>5, <2>6, <2>10 DEF TypeInv, TypeOK, request, txVars, PcValues, Rewinding
  <2>8. pc[p] = "commit"
    BY <1>22 DEF Commit
  <2>9. LocalsInv' /\ ClaimInv'
    BY <2>5, <2>6, <2>8 DEF TypeInv, TypeOK, LocalsInv, ClaimInv, StillAtPath, Active,
       Planning, Staging, Rewinding, request, txVars
  <2>. QED  BY <2>7, <2>9 DEF TypeInv
<1>23. ASSUME NEW p \in Proc, Rewind(p) PROVE TypeInv'
  <2>1. /\ path[p] \in Path /\ ledger[p] # <<>> /\ ledger[p] \in Seq(Effect)
        /\ Undo(p, Newest(p))
    BY <1>23 DEF TypeInv, TypeOK, LocalsInv, Rewind, Rewinding
  <2>2. Older(p) \in Seq(Effect) /\ Newest(p) \in Effect
    BY <2>1, PopLemma DEF Older, Newest
  <2>3. Popped(p) \in Seq(Effect)
    BY <2>2, AppendLemma DEF Popped, Effect
  <2>4. ledger' \in [Proc -> Seq(Effect)]
    BY <1>23, <2>3 DEF Rewind, TypeInv, TypeOK
  <2>5. claim' \in [Proc -> Claim]
    BY <1>23 DEF Rewind, TypeInv, TypeOK, Disclaimed, Claim
  <2>6. dir' \in [Path -> Dir]
    BY <2>1 DEF Undo, RemoveDir, ClearDir, TypeInv, TypeOK, Dir
  <2>7. ref' \in State \union {NoState} /\ record' \in Record
    BY <2>1 DEF Undo, RollbackRef, RestoreRecord, TypeInv, TypeOK
  <2>8. UNCHANGED <<log, main, genesis, presence, clock, pc, path, existing, base,
                    epoch, planNew, attempt, since, prior, bad, captured, live, solo,
                    unsure, crowded>>
    BY <1>23 DEF Rewind, request, history
  <2>9. TypeOK' /\ LocalsInv'
    BY <2>4, <2>5, <2>6, <2>7, <2>8 DEF TypeInv, TypeOK, LocalsInv
  <2>10. ClaimInv'
    <3>1. CASE Newest(p) = "dir" /\ Removable(p)
      <4>1. dir' = [dir EXCEPT ![path[p]] = Absent]
        BY <2>1, <3>1 DEF Undo, RemoveDir
      <4>2. claim' = Disclaimed(path[p])
        BY <1>23, <3>1 DEF Rewind
      <4>. QED
        BY <2>1, <2>8, <4>1, <4>2 DEF TypeInv, TypeOK, LocalsInv, ClaimInv, StillAtPath,
           Disclaimed
    <3>2. CASE ~(Newest(p) = "dir" /\ Removable(p))
      <4>1. claim' = claim
        BY <1>23, <3>2 DEF Rewind
      <4>2. dir' = dir \/ dir' = [dir EXCEPT ![path[p]] = {}]
        BY <2>1, <3>2 DEF Undo, RemoveDir, ClearDir
      <4>. QED
        BY <2>1, <2>8, <4>1, <4>2 DEF TypeInv, TypeOK, LocalsInv, ClaimInv, StillAtPath
    <3>. QED  BY <3>1, <3>2
  <2>. QED  BY <2>9, <2>10 DEF TypeInv
<1>24. ASSUME Capture PROVE TypeInv'
  <2>1. log' \in Seq(Entry) /\ Len(log') <= MaxLog
    BY <1>24, NoTxEntry, LogGrows DEF Capture, Kind
  <2>2. NewState \in State
    BY <1>24, NewStateType DEF Capture, TypeInv
  <2>3. Nobody \in Solo
    BY DEF Nobody, Solo, NoState, Record, Dir
  <2>. QED
    BY <1>24, <2>1, <2>2, <2>3 DEF TypeInv, TypeOK, LocalsInv, ClaimInv, StillAtPath,
       Capture,
       request, txVars
<1>25. ASSUME MainCommit PROVE TypeInv'
  <2>1. log' \in Seq(Entry) /\ Len(log') <= MaxLog
    BY <1>25, NoTxEntry, LogGrows DEF MainCommit, Kind
  <2>2. NewState \in State
    BY <1>25, NewStateType DEF MainCommit, TypeInv
  <2>. QED
    BY <1>25, <2>1, <2>2 DEF TypeInv, TypeOK, LocalsInv, ClaimInv, StillAtPath, MainCommit,
       request, txVars, history
<1>26. ASSUME NEW delete \in BOOLEAN, Drop(delete) PROVE TypeInv'
  <2>1. log' \in Seq(Entry) /\ Len(log') <= MaxLog
    <3>1. log' = log \/ Append1(NoTx, "delete")
      BY <1>26 DEF Drop
    <3>. QED  BY <3>1, NoTxEntry, LogGrows DEF TypeInv, TypeOK, Kind
  <2>2. record' \in Record
    <3>1. record \in [epoch : 1..MaxClock, path : Path, active : BOOLEAN]
      BY <1>26 DEF TypeInv, TypeOK, Drop, Record
    <3>2. record' = [record EXCEPT !.active = FALSE]
      BY <1>26 DEF Drop
    <3>. QED  BY <3>1, <3>2 DEF Record
  <2>3. dir' \in [Path -> Dir]
    BY <1>26 DEF TypeInv, TypeOK, Drop, Dir
  <2>4. \A p \in Proc : pc[p] = "idle"
    BY <1>26 DEF Drop
  <2>5. TypeOK'
    BY <1>26, <2>1, <2>2, <2>3 DEF TypeInv, TypeOK, Drop, request, txVars, NoState
  <2>6. LocalsInv' /\ ClaimInv'
    BY <1>26, <2>4 DEF TypeInv, LocalsInv, ClaimInv, StillAtPath, Drop, request, txVars
  <2>. QED  BY <2>5, <2>6 DEF TypeInv
<1>27. ASSUME UNCHANGED vars PROVE TypeInv'
  BY <1>27 DEF vars, repoVars, request, txVars, history, TypeInv, TypeOK, LocalsInv,
     ClaimInv,
     StillAtPath
<1>. QED
  BY <1>1, <1>2, <1>3, <1>4, <1>5, <1>6, <1>7, <1>8, <1>9, <1>10, <1>11, <1>12, <1>13,
     <1>14, <1>15, <1>16, <1>17, <1>18, <1>19, <1>20, <1>21, <1>22, <1>23, <1>24, <1>25,
     <1>26, <1>27, Zenon DEF Next, Run

-----------------------------------------------------------------------------
(* Every variable keeps its type, for any number of processes and paths.    *)
THEOREM TypeCorrect == Spec => []TypeOK
<1>1. TypeInv /\ [Next]_vars => TypeInv'
  BY NextTypeInv
<1>2. TypeInv => TypeOK
  BY DEF TypeInv
<1>. QED  BY InitTypeInv, <1>1, <1>2, PTL DEF Spec

-----------------------------------------------------------------------------
(* Exactly-once commits. *)

(* A commit that appends its batch. *)
Appends(p) ==
  /\ Commit(p)
  /\ ~Committed(TransactionId(p))
  /\ Append1(TransactionId(p), StagedKind(p))

(* What happens to the log: nothing, the batch of a start, or the batch of  *)
(* another command.                                                         *)
LEMMA LogStep ==
  ASSUME TypeInv, [Next]_vars
  PROVE  \/ log' = log
         \/ \E p \in Proc : Appends(p)
         \/ \E kind \in {"capture", "main", "delete"} : Append1(NoTx, kind)
<1>1. ASSUME NEW p \in Proc, Start(p) \/ Crash(p) PROVE log' = log
  BY <1>1 DEF Start, Crash, repoVars
<1>2. ASSUME NEW p \in Proc, Run(p) PROVE log' = log \/ Appends(p)
  <2>1. CASE Commit(p)
    BY <2>1 DEF Commit, Appends
  <2>2. CASE ResolveEpoch(p) \/ CommitGate(p) \/ FinalizeCommitted(p) \/ PlanTarget(p)
             \/ BindGenesis(p) \/ Attempt(p) \/ Fail(p)
    BY <2>2 DEF ResolveEpoch, CommitGate, FinalizeCommitted, PlanTarget, BindGenesis,
       Attempt, Fail, repoVars
  <2>3. CASE StageDir(p) \/ StageRef(p) \/ CheckCheckout(p) \/ WriteMeta(p)
             \/ WriteTree(p) \/ SnapshotRecord(p) \/ WriteRecord(p)
    BY <2>3 DEF StageDir, StageRef, CheckCheckout, WriteMeta, WriteTree, WriteCheckout,
       SnapshotRecord, WriteRecord, repoVars
  <2>4. CASE Rewind(p) \/ RewindFails(p) \/ RewindDone(p)
    BY <2>4 DEF Rewind, RewindFails, RewindDone, repoVars
  <2>5. CASE Finalize(p) \/ FinalizeFails(p) \/ Return(p)
    BY <2>5 DEF Finalize, FinalizeFails, Return, repoVars
  <2>. QED  BY <1>2, <2>1, <2>2, <2>3, <2>4, <2>5, Zenon DEF Run
<1>3. CASE Capture \/ MainCommit
  BY <1>3 DEF Capture, MainCommit
<1>4. ASSUME NEW delete \in BOOLEAN, Drop(delete) PROVE log' = log \/ Append1(NoTx, "delete")
  BY <1>4 DEF Drop
<1>5. CASE UNCHANGED vars
  BY <1>5 DEF vars, repoVars
<1>. QED  BY <1>1, <1>2, <1>3, <1>4, <1>5 DEF Next

(* The log only grows at its end. *)
LEMMA LogPrefix ==
  ASSUME TypeInv, [Next]_vars
  PROVE  /\ Len(log) \in Nat /\ Len(log') \in Nat /\ Len(log) <= Len(log')
         /\ \A i \in 1..Len(log) : log'[i] = log[i]
<1>1. log \in Seq(Entry) /\ Len(log) \in Nat
  BY LenProperties DEF TypeInv, TypeOK
<1>2. CASE log' = log
  BY <1>1, <1>2
<1>3. ASSUME NEW p \in Proc, Appends(p)
      PROVE  /\ Len(log') \in Nat /\ Len(log) <= Len(log')
             /\ \A i \in 1..Len(log) : log'[i] = log[i]
  <2>1. /\ [tx |-> TransactionId(p), kind |-> StagedKind(p)] \in Entry
        /\ Append1(TransactionId(p), StagedKind(p))
    BY <1>3, StartEntry DEF Appends, Commit
  <2>. QED  BY <1>1, <2>1, LogGrows
<1>4. ASSUME NEW kind \in {"capture", "main", "delete"}, Append1(NoTx, kind)
      PROVE  /\ Len(log') \in Nat /\ Len(log) <= Len(log')
             /\ \A i \in 1..Len(log) : log'[i] = log[i]
  BY <1>1, <1>4, NoTxEntry, LogGrows DEF Kind
<1>. QED  BY <1>2, <1>3, <1>4, LogStep

(* No step of any process or command puts a transaction into the log that   *)
(* is there already.                                                        *)
LEMMA ExactlyOnceStep ==
  ASSUME TypeInv, ExactlyOnce, [Next]_vars
  PROVE  ExactlyOnce'
<1>1. log \in Seq(Entry) /\ Len(log) \in Nat /\ DOMAIN log = 1..Len(log)
  BY LenProperties DEF TypeInv, TypeOK
<1>2. CASE log' = log
  BY <1>2 DEF ExactlyOnce
<1>3. ASSUME NEW tx, NEW kind, [tx |-> tx, kind |-> kind] \in Entry, Append1(tx, kind),
             tx = NoTx \/ ~Committed(tx)
      PROVE  ExactlyOnce'
  <2>1. /\ log' \in Seq(Entry) /\ Len(log') = Len(log) + 1
        /\ \A i \in 1..Len(log) : log'[i] = log[i]
        /\ log'[Len(log) + 1].tx = tx
    BY <1>3, LogGrows
  <2>2. DOMAIN log' = 1..(Len(log) + 1)
    BY <2>1, LenProperties
  <2>3. tx = NoTx \/ \A i \in 1..Len(log) : log[i].tx # tx
    BY <1>1, <1>3 DEF Committed
  <2>4. SUFFICES ASSUME NEW i \in 1..(Len(log) + 1), NEW j \in 1..(Len(log) + 1),
                        log'[i].tx # NoTx, log'[i].tx = log'[j].tx
                 PROVE  i = j
    BY <2>2 DEF ExactlyOnce
  <2>5. CASE i \in 1..Len(log) /\ j \in 1..Len(log)
    BY <1>1, <2>1, <2>4, <2>5 DEF ExactlyOnce
  <2>6. CASE i = Len(log) + 1 \/ j = Len(log) + 1
    BY <1>1, <2>1, <2>3, <2>4, <2>6
  <2>. QED  BY <1>1, <2>5, <2>6
<1>4. ASSUME NEW p \in Proc, Appends(p) PROVE ExactlyOnce'
  BY <1>3, <1>4, StartEntry DEF Appends, Commit
<1>5. ASSUME NEW kind \in {"capture", "main", "delete"}, Append1(NoTx, kind)
      PROVE  ExactlyOnce'
  BY <1>3, <1>5, NoTxEntry DEF Kind
<1>. QED  BY <1>2, <1>4, <1>5, LogStep

(* Whatever crashes, errors, conflicts, retries and concurrent starts do,   *)
(* the transaction of a start is in the log at most once: the lookup and    *)
(* the append are one step under the log's lock.                            *)
THEOREM CommitsExactlyOnce == Spec => []ExactlyOnce
<1>1. Init => TypeInv /\ ExactlyOnce
  BY InitTypeInv DEF Init, ExactlyOnce
<1>2. TypeInv /\ ExactlyOnce /\ [Next]_vars => (TypeInv /\ ExactlyOnce)'
  BY NextTypeInv, ExactlyOnceStep
<1>. QED  BY <1>1, <1>2, PTL DEF Spec

-----------------------------------------------------------------------------
(* What a step does to the ref and to what the commands know. *)

(* A command keeps its base and the ref it read until it ends. *)
LEMMA RequestStep ==
  ASSUME TypeInv, [Next]_vars, NEW q \in Proc, pc'[q] # "idle"
  PROVE  \/ Start(q)
         \/ pc[q] # "idle" /\ existing'[q] = existing[q] /\ base'[q] = base[q]
<1>1. ASSUME NEW p \in Proc, Start(p), p # q
      PROVE  pc[q] # "idle" /\ existing'[q] = existing[q] /\ base'[q] = base[q]
  BY <1>1 DEF Start, Goto, TypeInv, TypeOK
<1>2. ASSUME NEW p \in Proc, Run(p)
      PROVE  pc[q] # "idle" /\ existing'[q] = existing[q] /\ base'[q] = base[q]
  <2>1. CASE Commit(p)
    BY <2>1 DEF Commit, Seal, Goto, Abort, request, TypeInv, TypeOK
  <2>2. CASE ResolveEpoch(p) \/ CommitGate(p) \/ FinalizeCommitted(p)
             \/ PlanTarget(p) \/ BindGenesis(p) \/ Attempt(p) \/ Fail(p)
    BY <2>2 DEF TypeInv, TypeOK, Planning, Staging, Rewinding, ResolveEpoch, CommitGate,
       FinalizeCommitted, PlanTarget, BindGenesis, Attempt, Fail, Goto, Abort, repoVars,
       request, txVars, history
  <2>3. CASE StageDir(p) \/ CheckCheckout(p) \/ WriteMeta(p)
             \/ WriteTree(p) \/ SnapshotRecord(p) \/ WriteRecord(p)
    BY <2>3 DEF TypeInv, TypeOK, Planning, Staging, Rewinding, StageDir, CheckCheckout,
       WriteMeta, WriteTree, SnapshotRecord, WriteRecord, WriteCheckout, Goto, Abort,
       repoVars, request, txVars, history
  <2>4. CASE RewindFails(p) \/ RewindDone(p)
    BY <2>4 DEF TypeInv, TypeOK, Planning, Staging, Rewinding, RewindFails, RewindDone,
       Goto, repoVars, request, txVars, history
  <2>5. CASE Finalize(p) \/ FinalizeFails(p) \/ Return(p)
    BY <2>5 DEF TypeInv, TypeOK, Planning, Staging, Rewinding, Finalize, FinalizeFails,
       Return, Leave, Goto, repoVars
  <2>6. CASE StageRef(p) \/ Rewind(p)
    BY <2>6 DEF StageRef, Rewind, Goto, Abort, request, TypeInv, TypeOK
  <2>. QED  BY <1>2, <2>1, <2>2, <2>3, <2>4, <2>5, <2>6, Zenon DEF Run
<1>3. ASSUME NEW p \in Proc, Crash(p)
      PROVE  pc[q] # "idle" /\ existing'[q] = existing[q] /\ base'[q] = base[q]
  BY <1>3 DEF Crash, Leave, Goto, TypeInv, TypeOK
<1>4. ASSUME Capture \/ MainCommit \/ \E delete \in BOOLEAN : Drop(delete)
      PROVE  pc[q] # "idle" /\ existing'[q] = existing[q] /\ base'[q] = base[q]
  BY <1>4 DEF Capture, MainCommit, Drop, request
<1>5. ASSUME UNCHANGED vars
      PROVE  pc[q] # "idle" /\ existing'[q] = existing[q] /\ base'[q] = base[q]
  BY <1>5 DEF vars, request
<1>. QED  BY <1>1, <1>2, <1>3, <1>4, <1>5 DEF Next

(* The ref is set, rolled back, moved by a capture or deleted. *)
LEMMA RefStep ==
  ASSUME TypeInv, [Next]_vars
  PROVE  \/ UNCHANGED <<ref, captured>>
         \/ \E p \in Proc : StageRef(p) /\ ref = existing[p] /\ ref' = base[p]
         \/ \E p \in Proc : Rewind(p) /\ Newest(p) = "ref" /\ RollbackRef(p)
         \/ Capture
         \/ /\ \A p \in Proc : pc[p] = "idle"
            /\ UNCHANGED pc /\ ref' = NoState /\ captured' = NoState
            /\ Append1(NoTx, "delete")
<1>1. ASSUME NEW p \in Proc, Start(p) \/ Crash(p) PROVE UNCHANGED <<ref, captured>>
  BY <1>1 DEF Start, Crash, Leave, repoVars
<1>2. ASSUME NEW p \in Proc, Run(p)
      PROVE  \/ UNCHANGED <<ref, captured>>
             \/ StageRef(p) /\ ref = existing[p] /\ ref' = base[p]
             \/ Rewind(p) /\ Newest(p) = "ref" /\ RollbackRef(p)
  <2>1. CASE Commit(p)
    BY <2>1 DEF Commit
  <2>2. CASE StageRef(p) \/ Rewind(p)
    BY <2>2 DEF StageRef, Rewind, Undo, history
  <2>3. CASE ResolveEpoch(p) \/ CommitGate(p) \/ FinalizeCommitted(p)
             \/ PlanTarget(p) \/ BindGenesis(p) \/ Attempt(p) \/ Fail(p)
    BY <2>3 DEF ResolveEpoch, CommitGate, FinalizeCommitted, PlanTarget, BindGenesis,
       Attempt, Fail, Goto, Abort, repoVars, request, txVars, history
  <2>4. CASE StageDir(p) \/ CheckCheckout(p) \/ WriteMeta(p)
             \/ WriteTree(p) \/ SnapshotRecord(p) \/ WriteRecord(p)
    BY <2>4 DEF StageDir, CheckCheckout, WriteMeta, WriteTree, SnapshotRecord,
       WriteRecord, WriteCheckout, Goto, Abort, repoVars, request, txVars, history
  <2>5. CASE RewindFails(p) \/ RewindDone(p)
    BY <2>5 DEF RewindFails, RewindDone, Goto, repoVars, request, txVars, history
  <2>6. CASE Finalize(p) \/ FinalizeFails(p) \/ Return(p)
    BY <2>6 DEF Finalize, FinalizeFails, Return, Leave, Goto, repoVars
  <2>. QED  BY <1>2, <2>1, <2>2, <2>3, <2>4, <2>5, <2>6, Zenon DEF Run
<1>3. CASE MainCommit
  BY <1>3 DEF MainCommit, history
<1>4. ASSUME NEW delete \in BOOLEAN, Drop(delete)
      PROVE  \/ UNCHANGED <<ref, captured>>
             \/ /\ \A p \in Proc : pc[p] = "idle"
                /\ UNCHANGED pc /\ ref' = NoState /\ captured' = NoState
                /\ Append1(NoTx, "delete")
  BY <1>4 DEF Drop
<1>5. CASE UNCHANGED vars
  BY <1>5 DEF vars, repoVars, history
<1>. QED  BY <1>1, <1>2, <1>3, <1>4, <1>5 DEF Next

-----------------------------------------------------------------------------
(* Captured states. *)

(* The state was made by a batch of that kind. *)
MadeBy(l, state, kind) == state - 1 \in 1..Len(l) /\ l[state - 1].kind = kind

MainState(l, state) == state = FirstState \/ MadeBy(l, state, "main")

(* A start moves the ref to where it is, or from nothing to a state of      *)
(* main; a captured state is not a state of main.                           *)
OriginInv ==
  /\ captured # NoState => MadeBy(log, captured, "capture")
  /\ MainState(log, main)
  /\ \A p \in Proc :
       pc[p] # "idle" =>
         /\ existing[p] = NoState => MainState(log, base[p])
         /\ existing[p] # NoState => base[p] = existing[p]

(* A batch that made a state stays where it is. *)
LEMMA MadeByStays ==
  ASSUME TypeInv, [Next]_vars, NEW state, NEW kind, MadeBy(log, state, kind)
  PROVE  MadeBy(log', state, kind)
<1>1. state - 1 \in 1..Len(log) /\ log[state - 1].kind = kind
  BY DEF MadeBy
<1>2. state - 1 \in 1..Len(log') /\ log'[state - 1] = log[state - 1]
  BY <1>1, LogPrefix
<1>. QED  BY <1>1, <1>2 DEF MadeBy

(* The state that a batch makes was made by it. *)
LEMMA MadeByNew ==
  ASSUME TypeInv, NEW kind \in Kind, Append1(NoTx, kind)
  PROVE  MadeBy(log', NewState, kind)
<1>1. Len(log) \in Nat
  BY LenProperties DEF TypeInv, TypeOK
<1>2. Len(log') = Len(log) + 1 /\ log'[Len(log) + 1].kind = kind
  BY NoTxEntry, LogGrows
<1>3. NewState - 1 = Len(log) + 1
  BY <1>1 DEF NewState
<1>. QED  BY <1>1, <1>2, <1>3 DEF MadeBy

(* A captured state is no state of main. *)
LEMMA NotMain ==
  ASSUME NEW l, NEW state \in Int, MadeBy(l, state, "capture")
  PROVE  ~MainState(l, state)
BY DEF MadeBy, MainState, FirstState

(* main is moved by its own commits only. *)
LEMMA MainStep ==
  ASSUME TypeInv, [Next]_vars
  PROVE  main' = main \/ MainCommit
<1>1. ASSUME NEW p \in Proc, Start(p) \/ Crash(p) PROVE main' = main
  BY <1>1 DEF Start, Crash, repoVars
<1>2. ASSUME NEW p \in Proc, Run(p) PROVE main' = main
  <2>1. CASE Commit(p) \/ StageRef(p) \/ Rewind(p)
    BY <2>1 DEF Commit, StageRef, Rewind
  <2>2. CASE ResolveEpoch(p) \/ CommitGate(p) \/ FinalizeCommitted(p)
             \/ PlanTarget(p) \/ BindGenesis(p) \/ Attempt(p) \/ Fail(p)
    BY <2>2 DEF ResolveEpoch, CommitGate, FinalizeCommitted, PlanTarget, BindGenesis,
       Attempt, Fail, Goto, Abort, repoVars, request, txVars, history
  <2>3. CASE StageDir(p) \/ CheckCheckout(p) \/ WriteMeta(p)
             \/ WriteTree(p) \/ SnapshotRecord(p) \/ WriteRecord(p)
    BY <2>3 DEF StageDir, CheckCheckout, WriteMeta, WriteTree, SnapshotRecord,
       WriteRecord, WriteCheckout, Goto, Abort, repoVars, request, txVars, history
  <2>4. CASE RewindFails(p) \/ RewindDone(p)
    BY <2>4 DEF RewindFails, RewindDone, Goto, repoVars, request, txVars, history
  <2>5. CASE Finalize(p) \/ FinalizeFails(p) \/ Return(p)
    BY <2>5 DEF Finalize, FinalizeFails, Return, Leave, Goto, repoVars
  <2>. QED  BY <1>2, <2>1, <2>2, <2>3, <2>4, <2>5, Zenon DEF Run
<1>3. ASSUME Capture \/ \E delete \in BOOLEAN : Drop(delete) PROVE main' = main
  BY <1>3 DEF Capture, Drop
<1>4. CASE UNCHANGED vars
  BY <1>4 DEF vars, repoVars
<1>. QED  BY <1>1, <1>2, <1>3, <1>4 DEF Next

(* Every step keeps the origins, and no step moves the ref off a captured   *)
(* state.                                                                   *)
LEMMA CapturedStep ==
  ASSUME TypeInv, OriginInv, CapturesKept, [Next]_vars
  PROVE  OriginInv' /\ CapturesKept'
<1>1. \A state : MainState(log, state) => MainState(log', state)
  BY MadeByStays DEF MainState
<1>2. MainState(log', main')
  <2>1. CASE main' = main
    BY <1>1, <2>1 DEF OriginInv
  <2>2. CASE MainCommit
    BY <2>2, MadeByNew DEF MainCommit, MainState, Kind
  <2>. QED  BY <2>1, <2>2, MainStep
<1>3. ASSUME NEW q \in Proc, pc'[q] # "idle"
      PROVE  /\ existing'[q] = NoState => MainState(log', base'[q])
             /\ existing'[q] # NoState => base'[q] = existing'[q]
  <2>1. CASE Start(q)
    <3>1. existing'[q] = ref /\ base'[q] = IF ref = NoState THEN main ELSE ref
      BY <2>1 DEF Start, TypeInv, TypeOK
    <3>. QED  BY <1>1, <3>1 DEF OriginInv
  <2>2. CASE pc[q] # "idle" /\ existing'[q] = existing[q] /\ base'[q] = base[q]
    BY <1>1, <2>2 DEF OriginInv
  <2>. QED  BY <1>3, <2>1, <2>2, RequestStep
<1>4. (captured' # NoState => MadeBy(log', captured', "capture")) /\ CapturesKept'
  <2>1. CASE UNCHANGED <<ref, captured>>
    BY <2>1, MadeByStays DEF OriginInv, CapturesKept
  <2>2. ASSUME NEW p \in Proc, StageRef(p), ref = existing[p], ref' = base[p]
        PROVE  (captured' # NoState => MadeBy(log', captured', "capture")) /\ CapturesKept'
    BY <2>2, MadeByStays DEF StageRef, history, OriginInv, CapturesKept
  <2>3. ASSUME NEW p \in Proc, Rewind(p), RollbackRef(p)
        PROVE  (captured' # NoState => MadeBy(log', captured', "capture")) /\ CapturesKept'
    <3>1. captured' = captured /\ pc[p] # "idle"
      BY <2>3 DEF Rewind, Rewinding, history
    <3>2. captured # NoState => ref' = captured
      <4>1. SUFFICES ASSUME captured # NoState PROVE ref' = captured
        OBVIOUS
      <4>2. ref = captured /\ captured \in Int /\ MadeBy(log, captured, "capture")
        BY <4>1 DEF OriginInv, CapturesKept, TypeInv, TypeOK, State, FirstState
      <4>3. ref = base[p] => existing[p] = base[p]
        BY <3>1, <4>2, NotMain DEF OriginInv
      <4>. QED  BY <2>3, <4>2, <4>3 DEF RollbackRef
    <3>. QED  BY <3>1, <3>2, MadeByStays DEF OriginInv, CapturesKept
  <2>4. CASE Capture
    BY <2>4, MadeByNew DEF Capture, CapturesKept, Kind
  <2>5. CASE captured' = NoState
    BY <2>5 DEF CapturesKept
  <2>. QED  BY <2>1, <2>2, <2>3, <2>4, <2>5, RefStep
<1>. QED  BY <1>2, <1>3, <1>4 DEF OriginInv

(* A state captured on the thread stays its tip until the thread is         *)
(* deleted, whatever starts set, roll back or abandon meanwhile.            *)
THEOREM CapturesAreKept == Spec => []CapturesKept
<1>1. Init => OriginInv /\ CapturesKept
  BY DEF Init, OriginInv, CapturesKept, MainState
<1>2. TypeInv /\ OriginInv /\ CapturesKept /\ [Next]_vars
        => (TypeInv /\ OriginInv /\ CapturesKept)'
  BY NextTypeInv, CapturedStep
<1>. QED  BY InitTypeInv, <1>1, <1>2, PTL DEF Spec

-----------------------------------------------------------------------------
(* The ledger. *)

(* The number of inverses registered at a label. *)
Staged(label) ==
  IF label = "setref" THEN 1
  ELSE IF label = "checkout" THEN 2
  ELSE IF label \in {"meta", "tree", "snapshot"} THEN 3
  ELSE IF label \in {"record", "commit"} THEN 4
  ELSE 0

(* The inverse of the ref is the second of a ledger and no other one. *)
Ordered(effects) ==
  \A k \in 1..Len(effects) :
    (effects[k] = "ref" <=> k = 2) /\ (effects[k] = "checkout" => k = 3)

LedgerInv ==
  \A p \in Proc :
    /\ pc[p] \in Planning \union Staging \union {"idle"} => Len(ledger[p]) = Staged(pc[p])
    /\ Ordered(ledger[p])

(* Registering the next inverse keeps the order. *)
LEMMA OrderedPush ==
  ASSUME NEW effects \in Seq(Effect), Ordered(effects), NEW effect \in Effect,
         effect = "ref" <=> Len(effects) = 1,
         effect = "checkout" => Len(effects) = 2
  PROVE  Ordered(Append(effects, effect)) /\ Len(Append(effects, effect)) = Len(effects) + 1
<1>1. Len(effects) \in Nat
  BY LenProperties
<1>2. /\ Len(Append(effects, effect)) = Len(effects) + 1
      /\ \A k \in 1..Len(effects) : Append(effects, effect)[k] = effects[k]
      /\ Append(effects, effect)[Len(effects) + 1] = effect
  BY AppendLemma
<1>3. ASSUME NEW k \in 1..(Len(effects) + 1)
      PROVE  /\ Append(effects, effect)[k] = "ref" <=> k = 2
             /\ Append(effects, effect)[k] = "checkout" => k = 3
  <2>1. CASE k \in 1..Len(effects)
    BY <1>2, <2>1 DEF Ordered
  <2>2. CASE k = Len(effects) + 1
    <3>1. Append(effects, effect)[k] = effect
      BY <1>2, <2>2
    <3>2. \A n \in Nat : (n + 1 = 2 <=> n = 1) /\ (n + 1 = 3 <=> n = 2)
      OBVIOUS
    <3>. QED  BY <1>1, <2>2, <3>1, <3>2, Zenon
  <2>. QED  BY <1>1, <2>1, <2>2
<1>. QED  BY <1>2, <1>3 DEF Ordered

(* Running or skipping the newest inverse keeps the order. *)
LEMMA OrderedPop ==
  ASSUME TypeInv, NEW p \in Proc, Ordered(ledger[p]), ledger[p] # <<>>
  PROVE  Ordered(Older(p)) /\ Ordered(Popped(p))
<1>1. ledger[p] \in Seq(Effect)
  BY DEF TypeInv, TypeOK
<1>2. /\ Len(ledger[p]) \in Nat \ {0}
      /\ Older(p) \in Seq(Effect) /\ Len(Older(p)) = Len(ledger[p]) - 1
      /\ \A k \in 1..(Len(ledger[p]) - 1) : Older(p)[k] = ledger[p][k]
  BY <1>1, PopLemma DEF Older
<1>3. Ordered(Older(p))
  BY <1>2 DEF Ordered
<1>4. CASE Newest(p) = "checkout"
  <2>0. Len(ledger[p]) \in 1..Len(ledger[p])
    BY <1>2
  <2>1. Len(ledger[p]) = 3
    BY <1>4, <2>0, Zenon DEF Ordered, Newest
  <2>2. "dir" \in Effect /\ Len(Older(p)) = 2
    BY <1>2, <2>1 DEF Effect
  <2>3. "dir" # "ref" /\ "dir" # "checkout" /\ Len(Older(p)) # 1
    BY <2>2
  <2>4. Ordered(Append(Older(p), "dir"))
    BY <1>2, <1>3, <2>2, <2>3, OrderedPush
  <2>. QED  BY <1>3, <2>4 DEF Popped
<1>5. CASE Newest(p) # "checkout"
  BY <1>3, <1>5 DEF Popped
<1>. QED  BY <1>3, <1>4, <1>5

(* An inverse leaves the ledger, or another takes its place. *)
LEMMA PoppedLength ==
  ASSUME TypeInv, NEW p \in Proc, ledger[p] # <<>>
  PROVE  /\ Len(ledger[p]) \in Nat /\ Len(Older(p)) = Len(ledger[p]) - 1
         /\ Len(Popped(p)) \in {Len(ledger[p]) - 1, Len(ledger[p])}
<1>1. ledger[p] \in Seq(Effect)
  BY DEF TypeInv, TypeOK
<1>2. /\ Len(ledger[p]) \in Nat \ {0}
      /\ Older(p) \in Seq(Effect) /\ Len(Older(p)) = Len(ledger[p]) - 1
  BY <1>1, PopLemma DEF Older
<1>3. Len(Append(Older(p), "dir")) = Len(Older(p)) + 1
  BY <1>2, AppendLemma DEF Effect
<1>. QED  BY <1>2, <1>3 DEF Popped

(* Every step keeps the ledgers in order. *)
LEMMA LedgerStep ==
  ASSUME TypeInv, LedgerInv, [Next]_vars
  PROVE  LedgerInv'
<1>. DEFINE Fits(label, effects) ==
       /\ label \in Planning \union Staging \union {"idle"} => Len(effects) = Staged(label)
       /\ Ordered(effects)
<1>1. ASSUME NEW p \in Proc, NEW label, NEW effects, Fits(label, effects),
             pc' = [pc EXCEPT ![p] = label], ledger' = [ledger EXCEPT ![p] = effects]
      PROVE  LedgerInv'
  BY <1>1 DEF LedgerInv, TypeInv, TypeOK
<1>2. ASSUME NEW p \in Proc, NEW label, pc' = [pc EXCEPT ![p] = label], ledger' = ledger,
             Fits(label, ledger[p])
      PROVE  LedgerInv'
  BY <1>2 DEF LedgerInv, TypeInv, TypeOK
<1>3. ASSUME UNCHANGED <<pc, ledger>> PROVE LedgerInv'
  BY <1>3 DEF LedgerInv
<1>4. ASSUME NEW p \in Proc, Leave(p) PROVE LedgerInv'
  <2>1. Fits("idle", <<>>)
    BY EmptyLedger DEF Ordered, Staged
  <2>. QED  BY <1>1, <1>4, <2>1 DEF Leave, Goto
<1>5. ASSUME NEW p \in Proc, NEW effect \in Effect, NEW label \in Staging \union Rewinding,
             pc[p] \in Staging, Push(p, effect), Goto(p, label),
             effect = "ref" <=> Staged(pc[p]) = 1,
             effect = "checkout" => Staged(pc[p]) = 2,
             label \in Staging => Staged(label) = Staged(pc[p]) + 1
      PROVE  LedgerInv'
  <2>1. /\ ledger[p] \in Seq(Effect) /\ Len(ledger[p]) = Staged(pc[p])
        /\ Ordered(ledger[p])
    BY <1>5 DEF TypeInv, TypeOK, LedgerInv
  <2>2. /\ Ordered(Append(ledger[p], effect))
        /\ Len(Append(ledger[p], effect)) = Staged(pc[p]) + 1
    BY <1>5, <2>1, OrderedPush
  <2>3. Fits(label, Append(ledger[p], effect))
    BY <1>5, <2>2 DEF Planning, Staging, Rewinding
  <2>. QED  BY <1>1, <1>5, <2>3 DEF Push, Goto
<1>6. ASSUME NEW p \in Proc, NEW label, ledger' = ledger, Goto(p, label),
             label \in Planning \union Staging \union {"idle"} =>
               /\ pc[p] \in Planning \union Staging \union {"idle"}
               /\ Staged(label) = Staged(pc[p])
      PROVE  LedgerInv'
  <2>1. Fits(label, ledger[p])
    BY <1>6 DEF LedgerInv
  <2>. QED  BY <1>2, <1>6, <2>1 DEF Goto
<1>. HIDE DEF Fits
<1>7. ASSUME NEW p \in Proc, Start(p) PROVE LedgerInv'
  BY <1>6, <1>7 DEF Start, txVars, Staged
<1>8. ASSUME NEW p \in Proc, Run(p) PROVE LedgerInv'
  <2>1. CASE ResolveEpoch(p)
    BY <1>6, <2>1 DEF ResolveEpoch, txVars, Planning, Staged
  <2>2. CASE CommitGate(p)
    <3>1. PICK label \in {"committed", "plan"} : Goto(p, label)
      BY <2>2 DEF CommitGate
    <3>. QED  BY <1>6, <2>2, <3>1 DEF CommitGate, txVars, Planning, Staging, Staged
  <2>3. CASE FinalizeCommitted(p)
    <3>1. PICK label \in {"failed", "done"} : Goto(p, label)
      BY <2>3 DEF FinalizeCommitted
    <3>. QED  BY <1>6, <2>3, <3>1 DEF FinalizeCommitted, txVars, Planning, Staging
  <2>4. CASE PlanTarget(p)
    <3>1. PICK label \in {"bind", "failed"} : Goto(p, label)
      BY <2>4 DEF PlanTarget
    <3>. QED  BY <1>6, <2>4, <3>1 DEF PlanTarget, txVars, Planning, Staging, Staged
  <2>5. CASE BindGenesis(p)
    <3>1. PICK label \in {"attempt", "failed"} : Goto(p, label)
      BY <2>5 DEF BindGenesis
    <3>. QED  BY <1>6, <2>5, <3>1 DEF BindGenesis, txVars, Planning, Staging, Staged
  <2>6. CASE Attempt(p)
    BY <1>6, <2>6 DEF Attempt, Planning, Staging, Staged
  <2>7. CASE StageDir(p)
    <3>1. CASE Push(p, "dir") /\ Goto(p, "setref")
      BY <1>5, <2>7, <3>1 DEF StageDir, Effect, Staging, Staged
    <3>2. CASE ledger' = ledger /\ Abort(p)
      BY <1>6, <3>2 DEF Abort, Planning, Staging
    <3>. QED  BY <2>7, <3>1, <3>2 DEF StageDir
  <2>8. CASE StageRef(p)
    <3>1. CASE Push(p, "ref") /\ Goto(p, "checkout")
      BY <1>5, <2>8, <3>1 DEF StageRef, Effect, Staging, Staged
    <3>2. CASE ledger' = ledger /\ Abort(p)
      BY <1>6, <3>2 DEF Abort, Planning, Staging
    <3>. QED  BY <2>8, <3>1, <3>2 DEF StageRef
  <2>9. CASE CheckCheckout(p)
    <3>1. PICK label \in {"meta", "error"} : Goto(p, label)
      BY <2>9 DEF CheckCheckout
    <3>2. pc[p] = "checkout" /\ Push(p, "checkout")
      BY <2>9 DEF CheckCheckout
    <3>3. "checkout" \in Effect /\ label \in Staging \union Rewinding /\ pc[p] \in Staging
      BY <3>1, <3>2 DEF Effect, Staging, Rewinding
    <3>4. Staged(pc[p]) = 2 /\ (label \in Staging => Staged(label) = 3)
      BY <3>1, <3>2 DEF Staged, Staging
    <3>. QED  BY <1>5, <3>1, <3>2, <3>3, <3>4
  <2>10. CASE WriteMeta(p) \/ WriteTree(p)
    <3>1. /\ pc[p] \in {"meta", "tree"} /\ ledger' = ledger
          /\ \E label \in {"tree", "snapshot", "error"} : Goto(p, label)
      BY <2>10 DEF WriteMeta, WriteTree, WriteCheckout, Abort, txVars
    <3>. QED  BY <1>6, <3>1 DEF Planning, Staging, Staged
  <2>11. CASE SnapshotRecord(p)
    BY <1>5, <2>11 DEF SnapshotRecord, Effect, Staging, Staged
  <2>12. CASE WriteRecord(p)
    BY <1>6, <2>12 DEF WriteRecord, txVars, Staging, Staged
  <2>13. CASE Commit(p)
    <3>1. /\ ledger' = ledger
          /\ \E label \in {"dup", "conflict", "done", "error"} : Goto(p, label)
      BY <2>13 DEF Commit, Seal, Abort, txVars
    <3>. QED  BY <1>6, <3>1 DEF Planning, Staging
  <2>14. CASE Fail(p)
    <3>1. ledger' = ledger /\ \E label \in {"failed", "error"} : Goto(p, label)
      BY <2>14 DEF Fail, Abort, txVars
    <3>. QED  BY <1>6, <3>1 DEF Planning, Staging
  <2>15. CASE Rewind(p) \/ RewindFails(p)
    <3>1. /\ pc[p] \in Rewinding /\ ledger[p] # <<>> /\ pc' = pc
          /\ \/ ledger' = [ledger EXCEPT ![p] = Popped(p)]
             \/ ledger' = [ledger EXCEPT ![p] = Older(p)]
      BY <2>15 DEF Rewind, RewindFails
    <3>2. Ordered(Older(p)) /\ Ordered(Popped(p))
      BY <3>1, OrderedPop DEF LedgerInv
    <3>3. pc[p] \notin Planning \union Staging \union {"idle"}
      BY <3>1 DEF Planning, Staging, Rewinding
    <3>. QED  BY <3>1, <3>2, <3>3 DEF LedgerInv, TypeInv, TypeOK
  <2>16. CASE RewindDone(p)
    <3>1. /\ ledger' = ledger /\ ledger[p] = <<>>
          /\ \E label \in {"failed", "done", "attempt"} : Goto(p, label)
      BY <2>16 DEF RewindDone
    <3>2. Fits("failed", ledger[p]) /\ Fits("done", ledger[p]) /\ Fits("attempt", ledger[p])
      BY <3>1, EmptyLedger DEF Fits, Staged, Planning, Staging, Ordered
    <3>. QED  BY <1>2, <3>1, <3>2 DEF Goto
  <2>17. CASE Finalize(p) \/ FinalizeFails(p) \/ Return(p)
    BY <1>4, <2>17 DEF Finalize, FinalizeFails, Return
  <2>. QED
    BY <1>8, <2>1, <2>2, <2>3, <2>4, <2>5, <2>6, <2>7, <2>8, <2>9, <2>10, <2>11, <2>12,
       <2>13, <2>14, <2>15, <2>16, <2>17, Zenon DEF Run
<1>9. ASSUME NEW p \in Proc, Crash(p) PROVE LedgerInv'
  BY <1>4, <1>9 DEF Crash
<1>10. ASSUME Capture \/ MainCommit \/ (\E delete \in BOOLEAN : Drop(delete)) \/ UNCHANGED vars
       PROVE  LedgerInv'
  BY <1>3, <1>10 DEF Capture, MainCommit, Drop, vars, txVars
<1>. QED  BY <1>7, <1>8, <1>9, <1>10, Zenon DEF Next

-----------------------------------------------------------------------------
(* Recorded creations. *)

(* The creation of the thread is p's: it made the ref and has neither       *)
(* committed nor taken that back.                                           *)
Creates(p) ==
  /\ existing[p] = NoState
  /\ pc[p] \in Staging \union Rewinding
  /\ Len(ledger[p]) >= 2

(* A creation is recorded, other than one whose append reported an error,   *)
(* and no deletion since.                                                   *)
Standing(l, u) ==
  \E i \in 1..Len(l) :
    /\ l[i].kind = "create" /\ i \notin u
    /\ \A j \in i..Len(l) : l[j].kind # "delete"

(* A thread is being created by one start at most, and by none while its    *)
(* creation is recorded; in both cases the ref is there.                    *)
CreateInv ==
  /\ \A p \in Proc : Creates(p) => ref # NoState
  /\ \A p, q \in Proc : Creates(p) /\ Creates(q) => p = q
  /\ Standing(log, unsure) => ref # NoState /\ \A p \in Proc : ~Creates(p)

(* Only a start that finds no ref becomes the creator. *)
MakesRef(p) == StageRef(p) /\ ref = NoState /\ ref' = base[p] /\ pc'[p] = "checkout"

(* A start that creates did so before, or makes the ref in this step. *)
LEMMA CreatesStep ==
  ASSUME TypeInv, LedgerInv, LedgerInv', [Next]_vars, NEW q \in Proc, Creates(q)'
  PROVE  Creates(q) \/ MakesRef(q)
<1>1. /\ existing'[q] = NoState /\ pc'[q] \in Staging \union Rewinding
      /\ Len(ledger'[q]) >= 2
  BY DEF Creates
<1>2. pc'[q] \notin Planning \union {"idle", "committed", "done", "failed"}
  BY <1>1 DEF Planning, Staging, Rewinding
<1>3. ASSUME NEW p \in Proc, Start(p) \/ Crash(p) \/ Run(p), p # q PROVE Creates(q)
  <2>1. pc'[q] = pc[q] /\ ledger'[q] = ledger[q] /\ existing'[q] = existing[q]
    <3>1. CASE Start(p) \/ Crash(p)
      BY <1>3, <3>1 DEF Start, Crash, Leave, Goto, txVars, TypeInv, TypeOK
    <3>2. CASE Run(p)
      <4>1. CASE Commit(p) \/ StageRef(p) \/ Rewind(p)
        BY <1>3, <4>1 DEF Commit, StageRef, Rewind, Seal, Abort, Goto, Push, request,
           txVars,
           TypeInv, TypeOK
      <4>2. CASE ResolveEpoch(p) \/ CommitGate(p) \/ FinalizeCommitted(p)
             \/ PlanTarget(p) \/ BindGenesis(p) \/ Attempt(p) \/ Fail(p)
        BY <1>3, <4>2 DEF TypeInv, TypeOK, Push, ResolveEpoch, CommitGate,
           FinalizeCommitted,
       PlanTarget, BindGenesis, Attempt, Fail, Goto, Abort, repoVars, request, txVars,
       history
      <4>3. CASE StageDir(p) \/ CheckCheckout(p) \/ WriteMeta(p)
             \/ WriteTree(p) \/ SnapshotRecord(p) \/ WriteRecord(p)
        BY <1>3, <4>3 DEF TypeInv, TypeOK, Push, StageDir, CheckCheckout, WriteMeta,
           WriteTree,
       SnapshotRecord, WriteRecord, WriteCheckout, Goto, Abort, repoVars, request,
       txVars, history
      <4>4. CASE RewindFails(p) \/ RewindDone(p)
        BY <1>3, <4>4 DEF TypeInv, TypeOK, Push, RewindFails, RewindDone, Goto,
           repoVars, request,
       txVars, history
      <4>5. CASE Finalize(p) \/ FinalizeFails(p) \/ Return(p)
        BY <1>3, <4>5 DEF TypeInv, TypeOK, Push, Finalize, FinalizeFails, Return, Leave,
           Goto,
       repoVars
      <4>. QED  BY <3>2, <4>1, <4>2, <4>3, <4>4, <4>5, Zenon DEF Run
    <3>. QED  BY <1>3, <3>1, <3>2
  <2>. QED  BY <1>1, <2>1 DEF Creates
<1>4. ASSUME Start(q) \/ Crash(q) PROVE FALSE
  BY <1>2, <1>4 DEF Start, Crash, Leave, Goto, TypeInv, TypeOK, Planning
<1>5. ASSUME Run(q) PROVE Creates(q) \/ MakesRef(q)
  <2>. DEFINE n == Len(ledger[q])
  <2>1. CASE \/ ResolveEpoch(q) \/ CommitGate(q) \/ FinalizeCommitted(q) \/ PlanTarget(q)
             \/ BindGenesis(q) \/ RewindDone(q)
             \/ Finalize(q) \/ FinalizeFails(q) \/ Return(q)
    BY <1>2, <2>1 DEF ResolveEpoch, CommitGate, FinalizeCommitted, PlanTarget, BindGenesis,
       RewindDone, Finalize, FinalizeFails, Return, Leave, Goto, TypeInv, TypeOK, Planning
  <2>2. CASE Attempt(q) \/ StageDir(q)
    <3>1. pc[q] \in {"attempt", "dir"} /\ ledger[q] \in Seq(Effect) /\ n = 0
      BY <2>2 DEF Attempt, StageDir, LedgerInv, Planning, Staging, Staged, TypeInv, TypeOK
    <3>2. ledger'[q] = ledger[q] \/ ledger'[q] = Append(ledger[q], "dir")
      BY <2>2 DEF Attempt, StageDir, Push, TypeInv, TypeOK
    <3>3. Len(Append(ledger[q], "dir")) = 1
      BY <3>1, AppendLemma DEF Effect
    <3>. QED  BY <1>1, <3>1, <3>2, <3>3
  <2>3. CASE StageRef(q)
    <3>1. pc[q] = "setref" /\ n = 1 /\ existing'[q] = existing[q]
      BY <2>3 DEF StageRef, LedgerInv, Staging, Staged, request
    <3>2. CASE ledger' = ledger
      <4>1. Len(ledger'[q]) = 1
        BY <3>1, <3>2
      <4>. QED  BY <1>1, <4>1
    <3>3. CASE ref = existing[q] /\ ref' = base[q] /\ Goto(q, "checkout")
      BY <1>1, <2>3, <3>1, <3>3 DEF MakesRef, Goto, TypeInv, TypeOK
    <3>. QED  BY <2>3, <3>2, <3>3 DEF StageRef
  <2>4. CASE \/ CheckCheckout(q) \/ WriteMeta(q) \/ WriteTree(q) \/ SnapshotRecord(q)
             \/ WriteRecord(q) \/ Commit(q)
    <3>1. /\ pc[q] \in {"checkout", "meta", "tree", "snapshot", "record", "commit"}
          /\ existing'[q] = existing[q]
      BY <2>4 DEF CheckCheckout, WriteMeta, WriteTree, WriteCheckout, SnapshotRecord,
         WriteRecord, Commit, request
    <3>2. pc[q] \in Staging /\ n = Staged(pc[q])
      BY <3>1 DEF LedgerInv, Staging
    <3>3. n >= 2
      BY <3>1, <3>2 DEF Staged
    <3>. QED  BY <1>1, <3>1, <3>2, <3>3 DEF Creates
  <2>5. CASE Fail(q)
    <3>1. ledger' = ledger /\ existing' = existing
      BY <2>5 DEF Fail, request, txVars
    <3>2. pc[q] \in Staging
      BY <1>2, <2>5 DEF Fail, Goto, TypeInv, TypeOK
    <3>. QED  BY <1>1, <3>1, <3>2 DEF Creates
  <2>6. CASE Rewind(q) \/ RewindFails(q)
    <3>1. /\ pc[q] \in Rewinding /\ ledger[q] # <<>> /\ existing' = existing
          /\ ledger'[q] = Popped(q) \/ ledger'[q] = Older(q)
      BY <2>6 DEF Rewind, RewindFails, request, TypeInv, TypeOK
    <3>2. n \in Nat /\ Len(Older(q)) = n - 1 /\ Len(Popped(q)) \in {n - 1, n}
      BY <3>1, PoppedLength
    <3>. QED  BY <1>1, <3>1, <3>2 DEF Creates
  <2>. QED  BY <1>5, <2>1, <2>2, <2>3, <2>4, <2>5, <2>6, Zenon DEF Run
<1>6. ASSUME Capture \/ MainCommit \/ (\E delete \in BOOLEAN : Drop(delete)) \/ UNCHANGED vars
      PROVE  Creates(q)
  BY <1>1, <1>6 DEF Creates, Capture, MainCommit, Drop, vars, request, txVars
<1>. QED  BY <1>3, <1>4, <1>5, <1>6, Zenon DEF Next


(* An append in doubt stays so, and only a start that begins tells whether  *)
(* starts overlap.                                                          *)
LEMMA HistoryStep ==
  ASSUME [Next]_vars
  PROVE  /\ unsure \subseteq unsure'
         /\ crowded' = crowded \/ \E p \in Proc : Start(p)
<1>1. ASSUME NEW p \in Proc, Start(p) PROVE unsure' = unsure
  BY <1>1 DEF Start
<1>4. ASSUME NEW p \in Proc, Crash(p) PROVE unsure' = unsure /\ crowded' = crowded
  BY <1>4 DEF Crash, Leave
<1>2. ASSUME NEW p \in Proc, Run(p) PROVE unsure \subseteq unsure' /\ crowded' = crowded
  <2>1. CASE Commit(p)
    BY <2>1 DEF Commit
  <2>2. CASE \/ Finalize(p) \/ FinalizeFails(p) \/ Return(p)
    BY <2>2 DEF Finalize, FinalizeFails, Return, Leave
  <2>3. CASE \/ ResolveEpoch(p) \/ CommitGate(p) \/ FinalizeCommitted(p)
             \/ PlanTarget(p) \/ BindGenesis(p) \/ Attempt(p) \/ StageDir(p) \/ StageRef(p)
             \/ CheckCheckout(p) \/ WriteMeta(p) \/ WriteTree(p) \/ SnapshotRecord(p)
             \/ WriteRecord(p) \/ Fail(p) \/ Rewind(p) \/ RewindFails(p) \/ RewindDone(p)
    BY <2>3 DEF ResolveEpoch, CommitGate, FinalizeCommitted, PlanTarget, BindGenesis,
       Attempt, StageDir, StageRef, CheckCheckout, WriteMeta, WriteTree, WriteCheckout,
       SnapshotRecord, WriteRecord, Fail, Rewind, RewindFails, RewindDone, txVars, history
  <2>. QED  BY <1>2, <2>1, <2>2, <2>3, Zenon DEF Run
<1>3. CASE Capture \/ MainCommit \/ (\E delete \in BOOLEAN : Drop(delete)) \/ UNCHANGED vars
  BY <1>3 DEF Capture, MainCommit, Drop, vars, history
<1>. QED  BY <1>1, <1>2, <1>3, <1>4, Zenon DEF Next

(* Appending a batch that is no creation, or one in doubt, makes none       *)
(* standing, and a deletion ends the one that stands.                       *)
LEMMA StandingStep ==
  ASSUME TypeInv, NEW tx, NEW kind, [tx |-> tx, kind |-> kind] \in Entry, Append1(tx, kind),
         unsure \subseteq unsure'
  PROVE  /\ /\ kind # "create" \/ Len(log) + 1 \in unsure'
            /\ Standing(log', unsure')
            => Standing(log, unsure)
         /\ kind = "delete" => ~Standing(log', unsure')
<1>1. Len(log) \in Nat
  BY LenProperties DEF TypeInv, TypeOK
<1>2. /\ Len(log') = Len(log) + 1
      /\ \A i \in 1..Len(log) : log'[i] = log[i]
      /\ log'[Len(log) + 1].kind = kind
  BY LogGrows
<1>3. ASSUME NEW i \in 1..(Len(log) + 1), log'[i].kind = "create", i \notin unsure',
             \A j \in i..(Len(log) + 1) : log'[j].kind # "delete"
      PROVE  /\ kind # "delete"
             /\ kind # "create" \/ Len(log) + 1 \in unsure' => Standing(log, unsure)
  <2>1. kind # "delete"
    BY <1>1, <1>2, <1>3
  <2>2. ASSUME kind # "create" \/ Len(log) + 1 \in unsure' PROVE Standing(log, unsure)
    <3>1. i \in 1..Len(log)
      BY <1>1, <1>2, <1>3, <2>2
    <3>2. log[i].kind = "create" /\ \A j \in i..Len(log) : log[j].kind # "delete"
      BY <1>1, <1>2, <1>3, <3>1
    <3>. QED  BY <1>3, <3>1, <3>2 DEF Standing
  <2>. QED  BY <2>1, <2>2
<1>. QED  BY <1>2, <1>3 DEF Standing

(* The ref goes away only when its creator takes it back, or by a deletion. *)
LEMMA RefGoes ==
  ASSUME TypeInv, LedgerInv, [Next]_vars, ref # NoState, ref' = NoState
  PROVE  \/ \E p \in Proc : Creates(p) /\ ~Creates(p)' /\ log' = log
         \/ (\A p \in Proc : ~Creates(p)') /\ Append1(NoTx, "delete")
<1>1. CASE UNCHANGED <<ref, captured>>
  BY <1>1
<1>2. ASSUME NEW p \in Proc, StageRef(p), ref' = base[p] PROVE FALSE
  BY <1>2 DEF StageRef, TypeInv, LocalsInv, State, FirstState, NoState
<1>3. ASSUME NEW p \in Proc, Rewind(p), Newest(p) = "ref", RollbackRef(p)
      PROVE  Creates(p) /\ ~Creates(p)' /\ log' = log
  <2>1. existing[p] = NoState
    BY <1>3 DEF RollbackRef
  <2>2. pc[p] \in Rewinding /\ ledger[p] # <<>> /\ log' = log /\ ledger'[p] = Popped(p)
    BY <1>3 DEF Rewind, TypeInv, TypeOK
  <2>3. Len(ledger[p]) \in 1..Len(ledger[p])
    BY <2>2, PopLemma DEF TypeInv, TypeOK
  <2>4. Len(ledger[p]) = 2
    BY <1>3, <2>3, Zenon DEF LedgerInv, Ordered, Newest
  <2>5. ledger'[p] = Older(p)
    BY <1>3, <2>2 DEF Popped
  <2>6. Len(Older(p)) = 1
    <3>1. Len(Older(p)) = Len(ledger[p]) - 1
      BY <2>2, PoppedLength
    <3>. QED  BY <2>4, <3>1
  <2>7. ~Creates(p)'
    BY <2>5, <2>6 DEF Creates
  <2>. QED  BY <2>1, <2>2, <2>4, <2>7 DEF Creates
<1>4. ASSUME Capture PROVE FALSE
  BY <1>4, NewStateType DEF Capture, State, FirstState, NoState
<1>5. ASSUME \A p \in Proc : pc[p] = "idle", UNCHANGED pc
      PROVE  \A p \in Proc : ~Creates(p)'
  BY <1>5 DEF Creates, Staging, Rewinding
<1>. QED  BY <1>1, <1>2, <1>3, <1>4, <1>5, RefStep

(* A commit ends its transaction, or reports an error for its batch. *)
LEMMA CommitSeals ==
  ASSUME TypeInv, NEW p \in Proc, Appends(p)
  PROVE  pc'[p] = "done" \/ Len(log) + 1 \in unsure'
<1>1. Len(log') = Len(log) + 1 /\ Len(log) \in Nat
  BY StartEntry, LogGrows, LenProperties DEF Appends, Commit, TypeInv, TypeOK
<1>2. log' # log
  BY <1>1
<1>3. Seal(p) \/ Len(log) + 1 \in unsure'
  BY <1>2 DEF Appends, Commit
<1>. QED  BY <1>3 DEF Seal, Goto, TypeInv, TypeOK

(* A batch with a creation is the creator's, and then it creates no more,   *)
(* unless the append reported an error.                                     *)
LEMMA CreatorCommits ==
  ASSUME TypeInv, LedgerInv, NEW p \in Proc, Appends(p)
  PROVE  /\ ref' = ref /\ \A q \in Proc : ~MakesRef(q)
         /\ ~Creates(p)' \/ Len(log) + 1 \in unsure'
         /\ StagedKind(p) = "create" => Creates(p)
         /\ StagedKind(p) \in {"create", "marker"}
<1>1. pc[p] = "commit" /\ ref' = ref
  BY DEF Appends, Commit
<1>2. pc'[p] = "done" \/ Len(log) + 1 \in unsure'
  BY CommitSeals
<1>3. ~Creates(p)' \/ Len(log) + 1 \in unsure'
  BY <1>2 DEF Creates, Staging, Rewinding
<1>4. ASSUME NEW q \in Proc, MakesRef(q) PROVE FALSE
  <2>1. log' = log
    BY <1>4 DEF MakesRef, StageRef
  <2>2. Len(log') = Len(log) + 1 /\ Len(log) \in Nat
    BY <1>1, StartEntry, LogGrows, LenProperties DEF Appends, TypeInv, TypeOK
  <2>. QED  BY <2>1, <2>2
<1>5. StagedKind(p) = "create" => Creates(p)
  <2>1. pc[p] \in Staging /\ Len(ledger[p]) = 4
    BY <1>1 DEF LedgerInv, Staging, Staged
  <2>. QED  BY <2>1 DEF StagedKind, Creates
<1>. QED  BY <1>1, <1>3, <1>4, <1>5 DEF StagedKind

(* Every step keeps the creator unique. *)
LEMMA CreateStep ==
  ASSUME TypeInv, LedgerInv, CreateInv, [Next]_vars
  PROVE  CreateInv'
<1>1. LedgerInv'
  BY LedgerStep
<1>0. unsure \subseteq unsure'
  BY HistoryStep
<1>2. \A q \in Proc : Creates(q)' => Creates(q) \/ MakesRef(q)
  BY <1>1, CreatesStep
<1>3. \A q \in Proc : MakesRef(q) => ref = NoState /\ ref' # NoState
  BY DEF MakesRef, StageRef, TypeInv, LocalsInv, State, FirstState, NoState
<1>4. ASSUME NEW q \in Proc, Creates(q)' PROVE ref' # NoState
  <2>1. CASE MakesRef(q)
    BY <1>3, <2>1
  <2>2. CASE Creates(q)
    <3>1. ref # NoState
      BY <2>2 DEF CreateInv
    <3>2. ASSUME ref' = NoState PROVE FALSE
      <4>1. PICK p \in Proc : Creates(p) /\ ~Creates(p)'
        BY <1>4, <3>1, <3>2, RefGoes
      <4>2. p = q
        BY <2>2, <4>1 DEF CreateInv
      <4>. QED  BY <1>4, <4>1, <4>2
    <3>. QED  BY <3>2
  <2>. QED  BY <1>2, <1>4, <2>1, <2>2
<1>5. ASSUME NEW q \in Proc, NEW r \in Proc, Creates(q)', Creates(r)' PROVE q = r
  <2>1. CASE Creates(q) /\ Creates(r)
    BY <2>1 DEF CreateInv
  <2>2. CASE MakesRef(q) /\ MakesRef(r)
    <3>1. pc[r] = "setref" /\ Goto(q, "checkout") /\ pc'[r] = "checkout"
      <4>1. pc[q] = "setref" /\ pc'[q] = "checkout"
        BY <2>2 DEF MakesRef, StageRef
      <4>2. Goto(q, "checkout") \/ Abort(q)
        BY <2>2 DEF MakesRef, StageRef
      <4>. QED  BY <2>2, <4>1, <4>2 DEF MakesRef, StageRef, Abort, Goto, TypeInv, TypeOK
    <3>. QED  BY <3>1 DEF Goto, TypeInv, TypeOK
  <2>3. ~(Creates(q) /\ MakesRef(r)) /\ ~(MakesRef(q) /\ Creates(r))
    BY <1>3 DEF CreateInv
  <2>. QED  BY <1>2, <1>5, <2>1, <2>2, <2>3
<1>6. ASSUME Standing(log', unsure') PROVE ref' # NoState /\ \A q \in Proc : ~Creates(q)'
  <2>1. ASSUME Standing(log, unsure), ~Append1(NoTx, "delete")
        PROVE  ref' # NoState /\ \A q \in Proc : ~Creates(q)'
    <3>1. ref # NoState /\ \A q \in Proc : ~Creates(q)
      BY <2>1 DEF CreateInv
    <3>2. ref' # NoState
      BY <2>1, <3>1, RefGoes
    <3>. QED  BY <1>2, <1>3, <3>1, <3>2
  <2>2. ASSUME NEW tx, NEW kind, [tx |-> tx, kind |-> kind] \in Entry, Append1(tx, kind),
               kind # "create" \/ Len(log) + 1 \in unsure'
        PROVE  ref' # NoState /\ \A q \in Proc : ~Creates(q)'
    <3>1. Standing(log, unsure)
      BY <1>0, <1>6, <2>2, StandingStep
    <3>2. ~Append1(NoTx, "delete")
      <4>1. "delete" \in Kind
        BY DEF Kind
      <4>. QED  BY <1>0, <1>6, <4>1, NoTxEntry, StandingStep
    <3>. QED  BY <2>1, <3>1, <3>2
  <2>3. CASE log' = log
    <3>1. ~Append1(NoTx, "delete")
      <4>1. "delete" \in Kind
        BY DEF Kind
      <4>. QED  BY <1>0, <1>6, <4>1, NoTxEntry, StandingStep
    <3>2. Standing(log, unsure)
      BY <1>0, <1>6, <2>3 DEF Standing
    <3>. QED  BY <2>1, <3>1, <3>2
  <2>4. ASSUME NEW p \in Proc, Appends(p)
        PROVE  ref' # NoState /\ \A q \in Proc : ~Creates(q)'
    <3>1. CASE StagedKind(p) = "create" /\ Len(log) + 1 \notin unsure'
      <4>1. /\ Creates(p) /\ ~Creates(p)' /\ ref' = ref
            /\ \A q \in Proc : ~MakesRef(q)
        BY <2>4, <3>1, CreatorCommits
      <4>. QED  BY <1>2, <4>1 DEF CreateInv
    <3>2. CASE StagedKind(p) # "create" \/ Len(log) + 1 \in unsure'
      <4>1. /\ [tx |-> TransactionId(p), kind |-> StagedKind(p)] \in Entry
            /\ Append1(TransactionId(p), StagedKind(p))
        BY <2>4, StartEntry DEF Appends, Commit
      <4>. QED  BY <2>2, <3>2, <4>1
    <3>. QED  BY <3>1, <3>2
  <2>5. ASSUME NEW kind \in {"capture", "main", "delete"}, Append1(NoTx, kind)
        PROVE  ref' # NoState /\ \A q \in Proc : ~Creates(q)'
    <3>1. kind \in Kind /\ kind # "create"
      BY DEF Kind
    <3>. QED  BY <2>2, <2>5, <3>1, NoTxEntry
  <2>. QED  BY <2>3, <2>4, <2>5, LogStep
<1>. QED  BY <1>4, <1>5, <1>6 DEF CreateInv

(* A creation is appended only when none stands. *)
LEMMA CreatedOnceStep ==
  ASSUME TypeInv, LedgerInv, CreateInv, CreatedOnce, [Next]_vars
  PROVE  CreatedOnce'
<1>1. log \in Seq(Entry) /\ Len(log) \in Nat /\ DOMAIN log = 1..Len(log)
  BY LenProperties DEF TypeInv, TypeOK
<1>0. unsure \subseteq unsure'
  BY HistoryStep
<1>2. CASE log' = log
  BY <1>0, <1>2 DEF CreatedOnce, Recreated
<1>3. ASSUME NEW tx, NEW kind, [tx |-> tx, kind |-> kind] \in Entry, Append1(tx, kind),
             kind = "create" => ~Standing(log, unsure)
      PROVE  CreatedOnce'
  <2>1. /\ log' \in Seq(Entry) /\ Len(log') = Len(log) + 1
        /\ \A i \in 1..Len(log) : log'[i] = log[i]
        /\ log'[Len(log) + 1].kind = kind
    BY <1>3, LogGrows
  <2>2. DOMAIN log' = 1..(Len(log) + 1)
    BY <2>1, LenProperties
  <2>3. SUFFICES ASSUME NEW i \in 1..(Len(log) + 1), NEW j \in 1..(Len(log) + 1),
                        i < j, log'[i].kind = "create", log'[j].kind = "create",
                        i \notin unsure'
                 PROVE  \E k \in i..j : log'[k].kind = "delete"
    BY <2>2 DEF CreatedOnce, Recreated
  <2>4. i \in 1..Len(log) /\ log[i].kind = "create"
    BY <1>1, <2>1, <2>3
  <2>5. CASE j \in 1..Len(log)
    <3>1. PICK k \in i..j : log[k].kind = "delete"
      BY <1>0, <1>1, <2>1, <2>3, <2>4, <2>5 DEF CreatedOnce, Recreated
    <3>. QED  BY <1>1, <2>1, <2>4, <2>5, <3>1
  <2>6. CASE j = Len(log) + 1
    <3>1. ~Standing(log, unsure)
      BY <1>3, <2>1, <2>3, <2>6
    <3>2. PICK k \in i..Len(log) : log[k].kind = "delete"
      BY <1>0, <2>3, <2>4, <3>1 DEF Standing
    <3>. QED  BY <1>1, <2>1, <2>4, <2>6, <3>2
  <2>. QED  BY <1>1, <2>5, <2>6
<1>4. ASSUME NEW p \in Proc, Appends(p) PROVE CreatedOnce'
  <2>1. /\ [tx |-> TransactionId(p), kind |-> StagedKind(p)] \in Entry
        /\ Append1(TransactionId(p), StagedKind(p))
    BY <1>4, StartEntry DEF Appends, Commit
  <2>2. StagedKind(p) = "create" => ~Standing(log, unsure)
    BY <1>4, CreatorCommits DEF CreateInv
  <2>. QED  BY <1>3, <2>1, <2>2
<1>5. ASSUME NEW kind \in {"capture", "main", "delete"}, Append1(NoTx, kind)
      PROVE  CreatedOnce'
  <2>1. kind \in Kind /\ kind # "create"
    BY DEF Kind
  <2>. QED  BY <1>3, <1>5, <2>1, NoTxEntry
<1>. QED  BY <1>2, <1>4, <1>5, LogStep

(* Of starts that race for a name, fail, are rolled back or crash, one      *)
(* records the creation of the thread until the thread is deleted, unless   *)
(* the append of the first reported an error for its batch.                 *)
THEOREM CreatedAtMostOnce == Spec => []CreatedOnce
<1>1. Init => LedgerInv /\ CreateInv /\ CreatedOnce
  <2>. SUFFICES ASSUME Init PROVE LedgerInv /\ CreateInv /\ CreatedOnce
    OBVIOUS
  <2>1. Len(log) = 0 /\ log = <<>> /\ \A p \in Proc : pc[p] = "idle" /\ ledger[p] = <<>>
    BY EmptyLedger DEF Init
  <2>2. \A p \in Proc : ~Creates(p)
    BY <2>1 DEF Creates, Staging, Rewinding
  <2>3. LedgerInv
    <3>1. Staged("idle") = 0
      BY DEF Staged
    <3>2. Ordered(<<>>)
      BY EmptyLedger DEF Ordered
    <3>. QED  BY <2>1, <3>1, <3>2, EmptyLedger, Zenon DEF LedgerInv
  <2>4. CreatedOnce
    BY <2>1 DEF CreatedOnce
  <2>. QED  BY <2>1, <2>2, <2>3, <2>4 DEF CreateInv, Standing
<1>2. TypeInv /\ LedgerInv /\ CreateInv /\ CreatedOnce /\ [Next]_vars
        => (TypeInv /\ LedgerInv /\ CreateInv /\ CreatedOnce)'
  BY NextTypeInv, LedgerStep, CreateStep, CreatedOnceStep
<1>. QED  BY InitTypeInv, <1>1, <1>2, PTL DEF Spec

-----------------------------------------------------------------------------
(* A start that runs alone. *)

(* The ref, the record and the directories are as the start found them. *)
Found == ref = solo.ref /\ record = solo.record /\ dir = solo.dir

(* The inverses of a ledger, in order.  The last one may be the removal of  *)
(* a directory that was just cleared.                                       *)
Shaped(effects) ==
  /\ Len(effects) <= 4
  /\ Len(effects) >= 1 => effects[1] = "dir"
  /\ Len(effects) >= 2 => effects[2] = "ref"
  /\ Len(effects) >= 3 => effects[3] \in {"checkout", "dir"}
  /\ Len(effects) = 4 => effects[3] = "checkout" /\ effects[4] = "record"

(* The checkout has an inverse. *)
Clears(effects) == Len(effects) >= 3 /\ effects[3] = "checkout"

(* What differs from what the start found has an inverse on the ledger that *)
(* restores it.                                                             *)
RecordBack(p) ==
  IF Len(ledger[p]) = 4 THEN prior[p] = solo.record ELSE record = solo.record

RefBack(p) == ref = IF Len(ledger[p]) >= 2 THEN base[p] ELSE solo.ref

DirBack(p) ==
  /\ \A d \in Path \ {path[p]} : dir[d] = solo.dir[d]
  /\ Len(ledger[p]) = 0 => dir[path[p]] = solo.dir[path[p]]
  /\ Len(ledger[p]) > 0 =>
       \/ /\ claim[p] = "created" /\ solo.dir[path[p]] = Absent
          /\ dir[path[p]] = {} \/ Clears(ledger[p])
       \/ /\ claim[p] = "adopted" /\ solo.dir[path[p]] = {}
          /\ dir[path[p]] = {} \/ Clears(ledger[p])
       \/ claim[p] = "gone" /\ solo.dir[path[p]] = Absent /\ dir[path[p]] = Absent

Undoes(p) ==
  /\ Shaped(ledger[p])
  /\ pc[p] \in Staging /\ Len(ledger[p]) = 3 => Clears(ledger[p])
  /\ RecordBack(p) /\ RefBack(p) /\ DirBack(p)

(* No other command runs, and what the start did so far can be undone,      *)
(* unless an inverse failed.                                                *)
SoloOf(p) ==
  /\ pc[p] # "idle"
  /\ \A q \in Proc \ {p} : pc[q] = "idle"
  /\ existing[p] = solo.ref
  /\ ~bad[p] =>
       /\ pc[p] \in Planning \union {"committed", "failed"} => Found
       /\ pc[p] \in Staging \union Rewinding => Undoes(p)

SoloInv == \A p \in Proc : solo.proc = p => SoloOf(p)

(* Registering the next inverse. *)
LEMMA ShapedPush ==
  ASSUME NEW l \in Seq(Effect), NEW e \in Effect, Shaped(l), Len(l) < 4,
         Len(l) = 0 => e = "dir",
         Len(l) = 1 => e = "ref",
         Len(l) = 2 => e = "checkout",
         Len(l) = 3 => e = "record" /\ Clears(l)
  PROVE  /\ Shaped(Append(l, e)) /\ Len(Append(l, e)) = Len(l) + 1
         /\ Len(l) >= 2 => Clears(Append(l, e))
<1>1. Len(l) \in Nat
  BY LenProperties
<1>0. \A n \in Nat : n < 4 => n = 0 \/ n = 1 \/ n = 2 \/ n = 3
  OBVIOUS
<1>2. PICK k : k = Append(l, e)
  OBVIOUS
<1>3. /\ Len(k) = Len(l) + 1
      /\ \A i \in 1..Len(l) : k[i] = l[i]
      /\ k[Len(l) + 1] = e
  BY <1>2, AppendLemma
<1>4. Len(l) = 0 \/ Len(l) = 1 \/ Len(l) = 2 \/ Len(l) = 3
  BY <1>0, <1>1, Zenon
<1>5. Shaped(k) /\ (Len(l) >= 2 => Clears(k))
  <2>1. CASE Len(l) = 0
    BY <1>3, <2>1 DEF Shaped
  <2>2. CASE Len(l) = 1
    BY <1>3, <2>2 DEF Shaped
  <2>3. CASE Len(l) = 2
    BY <1>3, <2>3 DEF Shaped, Clears
  <2>4. CASE Len(l) = 3
    BY <1>3, <2>4 DEF Shaped, Clears
  <2>. QED  BY <1>4, <2>1, <2>2, <2>3, <2>4
<1>. QED  BY <1>2, <1>3, <1>5

(* Running the newest inverse. *)
LEMMA ShapedPop ==
  ASSUME TypeInv, NEW p \in Proc, Shaped(ledger[p]), ledger[p] # <<>>
  PROVE  /\ Len(ledger[p]) \in {1, 2, 3, 4}
         /\ Len(ledger[p]) = 1 => Newest(p) = "dir"
         /\ Len(ledger[p]) = 2 => Newest(p) = "ref"
         /\ Len(ledger[p]) = 3 => /\ Newest(p) \in {"checkout", "dir"}
                                  /\ Newest(p) = "checkout" <=> Clears(ledger[p])
         /\ Len(ledger[p]) = 4 => Newest(p) = "record" /\ Clears(ledger[p])
         /\ Shaped(Popped(p))
         /\ Newest(p) # "checkout" \/ claim[p] # "created" =>
              /\ Len(Popped(p)) = Len(ledger[p]) - 1
              /\ Len(ledger[p]) = 4 => Clears(Popped(p))
         /\ Newest(p) = "checkout" /\ claim[p] = "created" =>
              Len(Popped(p)) = 3 /\ ~Clears(Popped(p))
<1>. DEFINE l == ledger[p]
<1>0. l \in Seq(Effect)
  BY DEF TypeInv, TypeOK
<1>1. PICK o : o = Older(p)
  OBVIOUS
<1>2. /\ Len(l) \in Nat \ {0}
      /\ o \in Seq(Effect) /\ Len(o) = Len(l) - 1
      /\ \A k \in 1..(Len(l) - 1) : o[k] = l[k]
  BY <1>0, <1>1, PopLemma DEF Older
<1>3. Len(l) = 1 \/ Len(l) = 2 \/ Len(l) = 3 \/ Len(l) = 4
  <2>1. \A n \in Nat \ {0} : n <= 4 => n = 1 \/ n = 2 \/ n = 3 \/ n = 4
    OBVIOUS
  <2>. QED  BY <1>2, <2>1, Zenon DEF Shaped
<1>4. /\ Len(l) = 1 => Newest(p) = "dir"
      /\ Len(l) = 2 => Newest(p) = "ref"
      /\ Len(l) = 3 => /\ Newest(p) \in {"checkout", "dir"}
                       /\ Newest(p) = "checkout" <=> Clears(l)
      /\ Len(l) = 4 => Newest(p) = "record" /\ Clears(l)
  <2>1. CASE Len(l) = 1
    BY <2>1 DEF Shaped, Newest
  <2>2. CASE Len(l) = 2
    BY <2>2 DEF Shaped, Newest
  <2>3. CASE Len(l) = 3
    BY <2>3 DEF Shaped, Newest, Clears
  <2>4. CASE Len(l) = 4
    BY <2>4 DEF Shaped, Newest, Clears
  <2>. QED  BY <1>3, <2>1, <2>2, <2>3, <2>4
<1>5. Shaped(o) /\ (Len(l) = 4 => Clears(o))
  <2>1. CASE Len(l) = 1
    BY <1>2, <2>1 DEF Shaped
  <2>2. CASE Len(l) = 2
    BY <1>2, <2>2 DEF Shaped
  <2>3. CASE Len(l) = 3
    BY <1>2, <2>3 DEF Shaped
  <2>4. CASE Len(l) = 4
    BY <1>2, <2>4 DEF Shaped, Clears
  <2>. QED  BY <1>3, <2>1, <2>2, <2>3, <2>4
<1>6. CASE Newest(p) = "checkout" /\ claim[p] = "created"
  <2>1. PICK k : k = Append(o, "dir")
    OBVIOUS
  <2>2. Len(l) = 3
    BY <1>3, <1>4, <1>6
  <2>3. /\ Len(k) = 3 /\ k[3] = "dir"
        /\ \A i \in 1..2 : k[i] = l[i]
    <3>1. /\ Len(k) = Len(o) + 1 /\ k[Len(o) + 1] = "dir"
          /\ \A i \in 1..Len(o) : k[i] = o[i]
      BY <1>2, <2>1, AppendLemma DEF Effect
    <3>. QED  BY <1>2, <2>2, <3>1
  <2>4. Shaped(k) /\ ~Clears(k)
    BY <2>2, <2>3 DEF Shaped, Clears
  <2>5. Popped(p) = k
    BY <1>1, <1>6, <2>1 DEF Popped
  <2>. QED  BY <1>3, <1>4, <1>6, <2>3, <2>4, <2>5
<1>7. CASE ~(Newest(p) = "checkout" /\ claim[p] = "created")
  <2>1. Popped(p) = o
    BY <1>1, <1>7 DEF Popped
  <2>. QED  BY <1>2, <1>3, <1>4, <1>5, <1>7, <2>1
<1>. QED  BY <1>6, <1>7

(* A step that leaves the repository, the ledger and the snapshot alone.    *)
LEMMA SoloKept ==
  ASSUME NEW p \in Proc, SoloOf(p), solo.proc = p, ~bad[p],
         UNCHANGED <<ref, record, dir, solo, ledger, prior, claim, path, base>>
  PROVE  /\ Found => Found'
         /\ pc[p] \in Staging /\ pc'[p] \in Staging \union Rewinding => Undoes(p)'
         /\ pc[p] \in Rewinding /\ pc'[p] \in Rewinding => Undoes(p)'
<1>1. Found => Found'
  BY DEF Found
<1>2. pc[p] \in Staging \union Rewinding => Undoes(p)
  BY DEF SoloOf
<1>3. (RecordBack(p) => RecordBack(p)') /\ (RefBack(p) => RefBack(p)')
      /\ (DirBack(p) => DirBack(p)')
  BY DEF RecordBack, RefBack, DirBack
<1>4. Staging \intersect Rewinding = {}
  BY DEF Staging, Rewinding
<1>. QED  BY <1>1, <1>2, <1>3, <1>4 DEF Undoes

(* A directory, staged or found. *)
LEMMA SoloStageDir ==
  ASSUME TypeInv, LedgerInv, NEW p \in Proc, SoloOf(p), solo.proc = p, ~bad[p], StageDir(p)
  PROVE  pc'[p] \in Staging \union Rewinding /\ Undoes(p)'
<1>1. /\ pc[p] = "dir" /\ Undoes(p) /\ path[p] \in Path
      /\ ledger[p] \in Seq(Effect) /\ Len(ledger[p]) = 0
  BY DEF StageDir, SoloOf, LedgerInv, TypeInv, TypeOK, LocalsInv, Staging, Staged
<1>2. UNCHANGED <<ref, record, solo, prior, path, base>>
  BY DEF StageDir, request, history
<1>3. CASE Goto(p, "error") /\ UNCHANGED <<dir, claim, ledger>>
  <2>1. pc'[p] = "error"
    BY <1>3 DEF Goto, TypeInv, TypeOK
  <2>2. UNCHANGED <<ref, record, dir, solo, ledger, prior, claim, path, base>>
    BY <1>2, <1>3
  <2>3. pc[p] \in Staging /\ pc'[p] \in Staging \union Rewinding
    BY <1>1, <2>1 DEF Staging, Rewinding
  <2>. QED  BY <2>2, <2>3, SoloKept
<1>4. ASSUME NEW how \in {"created", "adopted"}, claim' = [claim EXCEPT ![p] = how],
             Push(p, "dir"), Goto(p, "setref"), dir' = [dir EXCEPT ![path[p]] = {}],
             dir[path[p]] = IF how = "created" THEN Absent ELSE {}
      PROVE  pc'[p] \in Staging \union Rewinding /\ Undoes(p)'
  <2>1. pc'[p] = "setref" /\ claim'[p] = how
    BY <1>4 DEF Goto, TypeInv, TypeOK
  <2>2. ledger'[p] = Append(ledger[p], "dir")
    BY <1>4 DEF Push, TypeInv, TypeOK
  <2>3. Shaped(ledger'[p]) /\ Len(ledger'[p]) = 1
    BY <1>1, <2>2, ShapedPush DEF Undoes, Effect
  <2>4. dir'[path[p]] = {} /\ \A d \in Path \ {path[p]} : dir'[d] = dir[d]
    BY <1>1, <1>4 DEF TypeInv, TypeOK
  <2>5. DirBack(p)'
    BY <1>1, <1>2, <1>4, <2>1, <2>3, <2>4 DEF DirBack, Undoes
  <2>6. RecordBack(p)' /\ RefBack(p)'
    BY <1>1, <1>2, <2>3 DEF RecordBack, RefBack, Undoes
  <2>7. pc'[p] \in Staging \union Rewinding
    BY <2>1 DEF Staging
  <2>. QED  BY <2>3, <2>5, <2>6, <2>7 DEF Undoes
<1>5. CASE claim' = [claim EXCEPT ![p] = "adopted"] /\ dir[path[p]] = {} /\ dir' = dir
           /\ Push(p, "dir") /\ Goto(p, "setref")
  <2>1. dir' = [dir EXCEPT ![path[p]] = {}]
    BY <1>1, <1>5 DEF TypeInv, TypeOK
  <2>. QED  BY <1>4, <1>5, <2>1
<1>6. CASE claim' = [claim EXCEPT ![p] = "created"] /\ dir[path[p]] = Absent
           /\ dir' = [dir EXCEPT ![path[p]] = {}] /\ Push(p, "dir") /\ Goto(p, "setref")
  BY <1>4, <1>6
<1>. QED  BY <1>3, <1>5, <1>6 DEF StageDir, Abort

(* The ref, and the inverse of the checkout before the checkout. *)
LEMMA SoloStageRef ==
  ASSUME TypeInv, LedgerInv, NEW p \in Proc, SoloOf(p), solo.proc = p, ~bad[p], StageRef(p)
  PROVE  pc'[p] \in Staging \union Rewinding /\ Undoes(p)'
<1>1. /\ pc[p] = "setref" /\ Undoes(p)
      /\ ledger[p] \in Seq(Effect) /\ Len(ledger[p]) = 1
  BY DEF StageRef, SoloOf, LedgerInv, TypeInv, TypeOK, Staging, Staged
<1>2. UNCHANGED <<record, dir, solo, prior, claim, path, base>>
  BY DEF StageRef, request, history
<1>3. CASE Goto(p, "error") /\ UNCHANGED <<ref, ledger>>
  <2>1. pc'[p] = "error"
    BY <1>3 DEF Goto, TypeInv, TypeOK
  <2>2. pc[p] \in Staging /\ pc'[p] \in Staging \union Rewinding
    BY <1>1, <2>1 DEF Staging, Rewinding
  <2>. QED  BY <1>2, <1>3, <2>2, SoloKept
<1>4. CASE ref' = base[p] /\ Push(p, "ref") /\ Goto(p, "checkout")
  <2>1. pc'[p] = "checkout" /\ ledger'[p] = Append(ledger[p], "ref")
    BY <1>4 DEF Goto, Push, TypeInv, TypeOK
  <2>2. Shaped(ledger'[p]) /\ Len(ledger'[p]) = 2
    BY <1>1, <2>1, ShapedPush DEF Undoes, Effect
  <2>3. ~Clears(ledger[p])
    BY <1>1 DEF Clears
  <2>4. RecordBack(p)' /\ RefBack(p)' /\ DirBack(p)'
    BY <1>1, <1>2, <1>4, <2>2, <2>3 DEF RecordBack, RefBack, DirBack, Undoes
  <2>5. pc'[p] \in Staging \union Rewinding
    BY <2>1 DEF Staging
  <2>. QED  BY <2>2, <2>4, <2>5 DEF Undoes
<1>. QED  BY <1>3, <1>4 DEF StageRef, Abort

LEMMA SoloCheckCheckout ==
  ASSUME TypeInv, LedgerInv, NEW p \in Proc, SoloOf(p), solo.proc = p, ~bad[p],
         CheckCheckout(p)
  PROVE  pc'[p] \in Staging \union Rewinding /\ Undoes(p)'
<1>1. /\ pc[p] = "checkout" /\ Undoes(p)
      /\ ledger[p] \in Seq(Effect) /\ Len(ledger[p]) = 2
  BY DEF CheckCheckout, SoloOf, LedgerInv, TypeInv, TypeOK, Staging, Staged
<1>2. UNCHANGED <<ref, record, dir, solo, prior, claim, path, base>>
  BY DEF CheckCheckout, repoVars, request, history
<1>3. pc'[p] \in {"meta", "error"} /\ ledger'[p] = Append(ledger[p], "checkout")
  BY DEF CheckCheckout, Goto, Push, TypeInv, TypeOK
<1>4. Shaped(ledger'[p]) /\ Len(ledger'[p]) = 3 /\ Clears(ledger'[p])
  BY <1>1, <1>3, ShapedPush DEF Undoes, Effect
<1>5. RecordBack(p)' /\ RefBack(p)'
  <2>1. record = solo.record /\ ref = base[p]
    BY <1>1 DEF RecordBack, RefBack, Undoes
  <2>. QED  BY <1>2, <1>4, <2>1 DEF RecordBack, RefBack
<1>6. DirBack(p)'
  BY <1>1, <1>2, <1>4 DEF DirBack, Undoes
<1>7. pc'[p] \in Staging \union Rewinding
  BY <1>3 DEF Staging, Rewinding
<1>. QED  BY <1>4, <1>5, <1>6, <1>7 DEF Undoes

(* The files of the checkout: they come after its inverse. *)
LEMMA SoloWrite ==
  ASSUME TypeInv, LedgerInv, NEW p \in Proc, SoloOf(p), solo.proc = p, ~bad[p],
         WriteMeta(p) \/ WriteTree(p)
  PROVE  pc'[p] \in Staging \union Rewinding /\ Undoes(p)'
<1>1. /\ pc[p] \in {"meta", "tree"} /\ Undoes(p) /\ path[p] \in Path
      /\ Len(ledger[p]) = 3 /\ Clears(ledger[p])
  BY DEF WriteMeta, WriteTree, SoloOf, LedgerInv, TypeInv, TypeOK, LocalsInv, Staging,
     Staged, Undoes
<1>2. UNCHANGED <<ref, record, solo, ledger, prior, claim, path, base>>
  BY DEF WriteMeta, WriteTree, WriteCheckout, request, txVars, history
<1>3. pc'[p] \in {"tree", "snapshot", "error"}
  BY DEF WriteMeta, WriteTree, WriteCheckout, Abort, Goto, TypeInv, TypeOK
<1>4. /\ \A d \in Path \ {path[p]} : dir'[d] = dir[d]
      /\ ~StillAtPath(p) => dir' = dir
  BY <1>1 DEF WriteMeta, WriteTree, WriteCheckout, TypeInv, TypeOK
<1>5. DirBack(p)'
  BY <1>1, <1>2, <1>4 DEF DirBack, Undoes, StillAtPath
<1>6. RecordBack(p)' /\ RefBack(p)'
  BY <1>1, <1>2 DEF RecordBack, RefBack, Undoes
<1>7. pc'[p] \in Staging \union Rewinding
  BY <1>3 DEF Staging, Rewinding
<1>. QED  BY <1>1, <1>2, <1>5, <1>6, <1>7 DEF Undoes

(* The record: the snapshot is what the start found. *)
LEMMA SoloRecord ==
  ASSUME TypeInv, LedgerInv, NEW p \in Proc, SoloOf(p), solo.proc = p, ~bad[p],
         SnapshotRecord(p) \/ WriteRecord(p)
  PROVE  pc'[p] \in Staging \union Rewinding /\ Undoes(p)'
<1>1. UNCHANGED <<ref, dir, solo, claim, path, base>>
  BY DEF SnapshotRecord, WriteRecord, repoVars, request, txVars, history
<1>2. CASE SnapshotRecord(p)
  <2>1. /\ pc[p] = "snapshot" /\ Undoes(p)
        /\ ledger[p] \in Seq(Effect) /\ Len(ledger[p]) = 3 /\ Clears(ledger[p])
    BY <1>2 DEF SnapshotRecord, SoloOf, LedgerInv, TypeInv, TypeOK, Staging, Staged, Undoes
  <2>2. /\ pc'[p] = "record" /\ prior'[p] = record
        /\ ledger'[p] = Append(ledger[p], "record")
    BY <1>2 DEF SnapshotRecord, Goto, Push, TypeInv, TypeOK
  <2>3. Shaped(ledger'[p]) /\ Len(ledger'[p]) = 4 /\ Clears(ledger'[p])
    BY <2>1, <2>2, ShapedPush DEF Undoes, Effect
  <2>4. RecordBack(p)' /\ RefBack(p)' /\ DirBack(p)'
    BY <1>1, <2>1, <2>2, <2>3 DEF RecordBack, RefBack, DirBack, Undoes
  <2>5. pc'[p] \in Staging \union Rewinding
    BY <2>2 DEF Staging
  <2>. QED  BY <2>3, <2>4, <2>5 DEF Undoes
<1>3. CASE WriteRecord(p)
  <2>1. /\ pc[p] = "record" /\ Undoes(p) /\ Len(ledger[p]) = 4
    BY <1>3 DEF WriteRecord, SoloOf, LedgerInv, Staging, Staged
  <2>2. pc'[p] = "commit" /\ UNCHANGED <<ledger, prior>>
    BY <1>3 DEF WriteRecord, Goto, txVars, TypeInv, TypeOK
  <2>3. RecordBack(p)' /\ RefBack(p)' /\ DirBack(p)'
    BY <1>1, <2>1, <2>2 DEF RecordBack, RefBack, DirBack, Undoes
  <2>4. pc'[p] \in Staging \union Rewinding
    BY <2>2 DEF Staging
  <2>. QED  BY <2>1, <2>2, <2>3, <2>4 DEF Undoes
<1>. QED  BY <1>2, <1>3

(* An inverse runs. *)
LEMMA SoloRewind ==
  ASSUME TypeInv, LedgerInv, NEW p \in Proc, SoloOf(p), solo.proc = p, ~bad[p], Rewind(p)
  PROVE  Undoes(p)'
<1>. DEFINE n == Len(ledger[p])
<1>1. /\ pc[p] \in Rewinding /\ Undoes(p) /\ existing[p] = solo.ref /\ path[p] \in Path
      /\ ledger[p] # <<>>
  BY DEF Rewind, Rewinding, SoloOf, TypeInv, LocalsInv
<1>2. UNCHANGED <<solo, prior, path, base, pc>> /\ ledger'[p] = Popped(p)
  BY DEF Rewind, request, history, TypeInv, TypeOK
<1>3. Undo(p, Newest(p)) /\ pc'[p] \notin Staging
  BY <1>1, <1>2 DEF Rewind, Staging, Rewinding
<1>4. /\ n \in {1, 2, 3, 4}
      /\ n = 1 => Newest(p) = "dir"
      /\ n = 2 => Newest(p) = "ref"
      /\ n = 3 => /\ Newest(p) \in {"checkout", "dir"}
                  /\ Newest(p) = "checkout" <=> Clears(ledger[p])
      /\ n = 4 => Newest(p) = "record" /\ Clears(ledger[p])
      /\ Shaped(ledger'[p])
      /\ Newest(p) # "checkout" \/ claim[p] # "created" =>
           /\ Len(ledger'[p]) = n - 1
           /\ n = 4 => Clears(ledger'[p])
      /\ Newest(p) = "checkout" /\ claim[p] = "created" =>
           Len(ledger'[p]) = 3 /\ ~Clears(ledger'[p])
  BY <1>1, <1>2, ShapedPop DEF Undoes
<1>5. Clears(ledger[p]) => n \in {3, 4}
  BY <1>4 DEF Clears
<1>6. CASE Newest(p) = "record"
  <2>1. n = 4 /\ record' = prior[p] /\ dir' = dir /\ ref' = ref /\ claim' = claim
    BY <1>3, <1>4, <1>6 DEF Undo, RestoreRecord, Rewind
  <2>2. Len(ledger'[p]) = 3 /\ Clears(ledger[p]) /\ Clears(ledger'[p])
    BY <1>4, <1>6, <2>1
  <2>3. prior[p] = solo.record /\ ref = base[p]
    BY <1>1, <2>1 DEF RecordBack, RefBack, Undoes
  <2>4. RecordBack(p)' /\ RefBack(p)'
    BY <1>2, <2>1, <2>2, <2>3 DEF RecordBack, RefBack
  <2>5. DirBack(p)'
    BY <1>1, <1>2, <2>1, <2>2 DEF DirBack, Undoes
  <2>. QED  BY <1>3, <1>4, <2>4, <2>5 DEF Undoes
<1>7. CASE Newest(p) = "checkout"
  <2>1. n = 3 /\ Clears(ledger[p]) /\ ref' = ref /\ record' = record /\ claim' = claim
        /\ ClearDir(p)
    BY <1>3, <1>4, <1>7 DEF Undo, Rewind
  <2>2. Len(ledger'[p]) \in {2, 3}
    BY <1>4, <1>7, <2>1
  <2>3. RecordBack(p)' /\ RefBack(p)'
    <3>1. record = solo.record /\ ref = base[p]
      BY <1>1, <2>1 DEF RecordBack, RefBack, Undoes
    <3>. QED  BY <1>2, <2>1, <2>2, <3>1 DEF RecordBack, RefBack
  <2>4. DirBack(p)'
    <3>1. CASE StillAtPath(p)
      <4>1. dir'[path[p]] = {} /\ \A d \in Path \ {path[p]} : dir'[d] = dir[d]
        BY <1>1, <2>1, <3>1 DEF ClearDir, TypeInv, TypeOK
      <4>. QED  BY <1>1, <1>2, <2>1, <2>2, <3>1, <4>1 DEF DirBack, Undoes, StillAtPath
    <3>2. CASE ~StillAtPath(p)
      <4>1. dir' = dir
        BY <2>1, <3>2 DEF ClearDir
      <4>. QED  BY <1>1, <1>2, <2>1, <2>2, <3>2, <4>1 DEF DirBack, Undoes, StillAtPath
    <3>. QED  BY <3>1, <3>2
  <2>. QED  BY <1>3, <1>4, <2>3, <2>4 DEF Undoes
<1>8. CASE Newest(p) = "ref"
  <2>1. n = 2 /\ RollbackRef(p) /\ dir' = dir /\ record' = record /\ claim' = claim
    BY <1>3, <1>4, <1>8 DEF Undo, Rewind
  <2>2. Len(ledger'[p]) = 1 /\ ~Clears(ledger[p])
    BY <1>4, <1>5, <1>8, <2>1
  <2>3. RecordBack(p)' /\ RefBack(p)' /\ DirBack(p)'
    BY <1>1, <1>2, <2>1, <2>2 DEF RecordBack, RefBack, DirBack, Undoes, RollbackRef
  <2>. QED  BY <1>3, <1>4, <2>3 DEF Undoes
<1>9. CASE Newest(p) = "dir"
  <2>1. n \in {1, 3} /\ RemoveDir(p) /\ ref' = ref /\ record' = record
    BY <1>3, <1>4, <1>9 DEF Undo
  <2>2. Len(ledger'[p]) = n - 1 /\ ~Clears(ledger[p])
    BY <1>4, <1>5, <1>9, <2>1
  <2>3. RecordBack(p)' /\ RefBack(p)'
    <3>2. CASE n = 3
      <4>1. record = solo.record /\ ref = base[p]
        BY <1>1, <3>2 DEF RecordBack, RefBack, Undoes
      <4>. QED  BY <1>2, <2>1, <2>2, <3>2, <4>1 DEF RecordBack, RefBack
    <3>3. CASE n = 1
      <4>1. record = solo.record /\ ref = solo.ref
        BY <1>1, <3>3 DEF RecordBack, RefBack, Undoes
      <4>. QED  BY <1>2, <2>1, <2>2, <3>3, <4>1 DEF RecordBack, RefBack
    <3>. QED  BY <2>1, <3>2, <3>3
  <2>4. DirBack(p)'
    <3>1. CASE Removable(p)
      <4>1. dir'[path[p]] = Absent /\ \A d \in Path \ {path[p]} : dir'[d] = dir[d]
        BY <1>1, <2>1, <3>1 DEF RemoveDir, TypeInv, TypeOK
      <4>2. claim'[p] = "gone"
        BY <1>9, <3>1 DEF Rewind, Disclaimed, Removable
      <4>3. solo.dir[path[p]] = Absent
        BY <1>1, <2>1, <2>2, <3>1 DEF Removable, DirBack, Undoes
      <4>. QED  BY <1>1, <1>2, <2>1, <2>2, <4>1, <4>2, <4>3 DEF DirBack, Undoes
    <3>2. CASE ~Removable(p)
      <4>1. dir' = dir /\ claim' = claim
        BY <1>9, <2>1, <3>2 DEF RemoveDir, Rewind
      <4>2. DirBack(p) /\ n > 0
        BY <1>1, <2>1 DEF Undoes
      <4>3. /\ Len(ledger'[p]) = 0 => dir[path[p]] = solo.dir[path[p]]
            /\ \A d \in Path \ {path[p]} : dir[d] = solo.dir[d]
            /\ \/ claim[p] = "adopted" /\ solo.dir[path[p]] = {} /\ dir[path[p]] = {}
               \/ /\ claim[p] = "gone" /\ solo.dir[path[p]] = Absent
                  /\ dir[path[p]] = Absent
        BY <2>2, <3>2, <4>2 DEF DirBack, Removable
      <4>. QED  BY <1>2, <4>1, <4>3 DEF DirBack
    <3>. QED  BY <3>1, <3>2
  <2>. QED  BY <1>3, <1>4, <2>3, <2>4 DEF Undoes
<1>. QED  BY <1>4, <1>6, <1>7, <1>8, <1>9

(* Once the ledger is empty, everything is as it was found. *)
LEMMA UndoneIsFound ==
  ASSUME TypeInv, NEW p \in Proc, Undoes(p), ledger[p] = <<>>
  PROVE  Found
<1>1. Len(ledger[p]) = 0
  BY EmptyLedger
<1>2. ref = solo.ref /\ record = solo.record /\ \A d \in Path : dir[d] = solo.dir[d]
  BY <1>1 DEF Undoes, RecordBack, RefBack, DirBack
<1>3. dir \in [Path -> Dir] /\ solo.dir \in [Path -> Dir]
  BY DEF TypeInv, TypeOK, Solo
<1>. QED  BY <1>2, <1>3 DEF Found

(* A step of the start that runs alone. *)
LEMMA SoloRun ==
  ASSUME TypeInv, LedgerInv, NEW p \in Proc, SoloOf(p), solo.proc = p, Run(p),
         solo'.proc = p
  PROVE  SoloOf(p)'
<1>. DEFINE Ahead ==
       ~bad'[p] =>
         /\ pc'[p] \in Planning \union {"committed", "failed"} => Found'
         /\ pc'[p] \in Staging \union Rewinding => Undoes(p)'
<1>. DEFINE Moves ==
       /\ pc'[p] # "idle" /\ existing' = existing /\ solo' = solo
       /\ \A q \in Proc \ {p} : pc'[q] = pc[q]
<1>0. /\ Staging \intersect Rewinding = {}
      /\ Planning \intersect (Staging \union Rewinding) = {}
      /\ {"idle", "committed", "done", "failed"}
           \intersect (Planning \union Staging \union Rewinding) = {}
  BY DEF Planning, Staging, Rewinding
<1>1. ASSUME Moves, Ahead PROVE SoloOf(p)'
  BY <1>1 DEF SoloOf
<1>2. CASE \/ ResolveEpoch(p) \/ CommitGate(p) \/ FinalizeCommitted(p)
           \/ PlanTarget(p) \/ BindGenesis(p)
  <2>1. /\ pc[p] \in Planning \union {"committed"}
        /\ UNCHANGED <<ref, record, dir, solo, existing, bad>>
    BY <1>2 DEF ResolveEpoch, CommitGate, FinalizeCommitted, PlanTarget, BindGenesis,
       Planning, repoVars, request, txVars, history
  <2>2. /\ pc'[p] \in Planning \union {"committed", "done", "failed"}
        /\ \A q \in Proc \ {p} : pc'[q] = pc[q]
    BY <1>2 DEF ResolveEpoch, CommitGate, FinalizeCommitted, PlanTarget, BindGenesis,
       Planning, Goto, TypeInv, TypeOK
  <2>3. Ahead
    BY <1>0, <2>1, <2>2 DEF SoloOf, Found
  <2>4. Moves
    BY <1>0, <2>1, <2>2
  <2>. QED  BY <1>1, <2>3, <2>4
<1>3. CASE Attempt(p)
  <2>1. /\ pc[p] = "attempt" /\ pc'[p] = "dir" /\ \A q \in Proc \ {p} : pc'[q] = pc[q]
        /\ UNCHANGED <<ref, record, dir, solo, existing, path, prior, base, ledger, bad>>
    BY <1>3 DEF Attempt, Goto, repoVars, request, history, TypeInv, TypeOK
  <2>2. pc[p] \in Planning /\ pc'[p] \in Staging
    BY <2>1 DEF Planning, Staging
  <2>3. Len(ledger[p]) = 0
    BY <2>1, <2>2 DEF LedgerInv, Staged
  <2>4. Found => Undoes(p)'
    BY <2>1, <2>3 DEF Found, Undoes, Shaped, RecordBack, RefBack, DirBack
  <2>5. Ahead
    BY <1>0, <2>1, <2>2, <2>4 DEF SoloOf
  <2>6. Moves
    BY <1>0, <2>1, <2>2
  <2>. QED  BY <1>1, <2>5, <2>6
<1>4. CASE \/ StageDir(p) \/ StageRef(p) \/ CheckCheckout(p) \/ WriteMeta(p)
           \/ WriteTree(p) \/ SnapshotRecord(p) \/ WriteRecord(p)
  <2>1. bad' = bad /\ existing' = existing /\ solo' = solo
    BY <1>4 DEF StageDir, StageRef, CheckCheckout, WriteMeta, WriteTree, WriteCheckout,
       SnapshotRecord, WriteRecord, request, txVars, history
  <2>2. /\ pc'[p] # "idle" /\ pc'[p] \in Staging \union Rewinding
        /\ \A q \in Proc \ {p} : pc'[q] = pc[q]
    BY <1>4 DEF StageDir, StageRef, CheckCheckout, WriteMeta, WriteTree, WriteCheckout,
       SnapshotRecord, WriteRecord, Goto, Abort, Staging, Rewinding, TypeInv, TypeOK
  <2>3. ~bad[p] => Undoes(p)'
    BY <1>4, SoloStageDir, SoloStageRef, SoloCheckCheckout, SoloWrite, SoloRecord
  <2>4. Ahead
    BY <1>0, <2>1, <2>2, <2>3
  <2>5. Moves
    BY <2>1, <2>2
  <2>. QED  BY <1>1, <2>4, <2>5
<1>5. CASE Commit(p) \/ Fail(p)
  <2>1. UNCHANGED <<ref, record, dir, solo, existing, path, prior, claim, base, ledger, bad>>
    BY <1>5 DEF Commit, Fail, repoVars, request, txVars, history
  <2>2. /\ \/ pc[p] \in Staging /\ pc'[p] \in Rewinding \union {"done"}
           \/ pc[p] \in Planning /\ pc'[p] = "failed"
        /\ \A q \in Proc \ {p} : pc'[q] = pc[q]
    BY <1>5 DEF Commit, Seal, Fail, Abort, Goto, Staging, Rewinding, TypeInv, TypeOK
  <2>3. ~bad[p] => /\ Found => Found'
                   /\ pc[p] \in Staging /\ pc'[p] \in Staging \union Rewinding => Undoes(p)'
    BY <2>1, SoloKept
  <2>4. Ahead
    BY <1>0, <2>1, <2>2, <2>3 DEF SoloOf
  <2>5. Moves
    BY <1>0, <2>1, <2>2
  <2>. QED  BY <1>1, <2>4, <2>5
<1>6. CASE Rewind(p)
  <2>1. pc[p] \in Rewinding /\ UNCHANGED <<pc, existing, solo, bad>>
    BY <1>6 DEF Rewind, request, history
  <2>2. Ahead
    BY <1>0, <1>6, <2>1, SoloRewind
  <2>3. Moves
    BY <1>0, <2>1
  <2>. QED  BY <1>1, <2>2, <2>3
<1>7. CASE RewindFails(p)
  <2>1. /\ pc[p] \in Rewinding /\ UNCHANGED <<pc, existing, solo>> /\ bad'[p]
    BY <1>7 DEF RewindFails, request, history, TypeInv, TypeOK
  <2>2. Moves
    BY <1>0, <2>1
  <2>. QED  BY <1>1, <2>1, <2>2
<1>8. CASE RewindDone(p)
  <2>1. /\ pc[p] \in Rewinding /\ ledger[p] = <<>>
        /\ UNCHANGED <<ref, record, dir, existing, solo, bad>>
    BY <1>8 DEF RewindDone, repoVars, request, history
  <2>2. /\ pc'[p] \in {"failed", "done", "attempt"}
        /\ \A q \in Proc \ {p} : pc'[q] = pc[q]
    BY <1>8 DEF RewindDone, Goto, TypeInv, TypeOK
  <2>3. ~bad[p] => Found
    BY <2>1, UndoneIsFound DEF SoloOf
  <2>4. pc'[p] \notin Staging \union Rewinding \union {"idle"}
    BY <2>2 DEF Staging, Rewinding
  <2>5. Ahead
    BY <2>1, <2>3, <2>4 DEF Found
  <2>6. Moves
    BY <2>1, <2>2
  <2>. QED  BY <1>1, <2>5, <2>6
<1>9. CASE Finalize(p) \/ FinalizeFails(p) \/ Return(p)
  <2>1. solo' = Nobody
    BY <1>9 DEF Finalize, FinalizeFails, Return, Leave
  <2>. QED  BY <2>1, ThreadStartAssumption DEF Nobody
<1>. HIDE DEF Ahead, Moves
<1>. QED
  BY <1>2, <1>3, <1>4, <1>5, <1>6, <1>7, <1>8, <1>9, Zenon DEF Run

(* A process that takes a step of its command has one. *)
LEMMA RunsNotIdle ==
  ASSUME NEW p \in Proc, Run(p) \/ Crash(p)
  PROVE  pc[p] # "idle"
BY DEF Run, Crash, ResolveEpoch, CommitGate, FinalizeCommitted, PlanTarget, BindGenesis,
   Attempt, StageDir, StageRef, CheckCheckout, WriteMeta, WriteTree, SnapshotRecord,
   WriteRecord, Commit, Fail, Rewind, RewindFails, RewindDone, Finalize, FinalizeFails,
   Return, Planning, Staging, Rewinding

(* A command's steps leave the start that runs alone alone or end it. *)
LEMMA SoloProc ==
  ASSUME NEW p \in Proc, Run(p) \/ Crash(p)
  PROVE  solo' = solo \/ solo' = Nobody
<1>1. CASE Crash(p) \/ Finalize(p) \/ FinalizeFails(p) \/ Return(p)
  BY <1>1 DEF Crash, Finalize, FinalizeFails, Return, Leave
<1>2. CASE \/ ResolveEpoch(p) \/ CommitGate(p) \/ FinalizeCommitted(p) \/ PlanTarget(p)
           \/ BindGenesis(p) \/ Attempt(p) \/ Fail(p) \/ Commit(p)
  BY <1>2 DEF ResolveEpoch, CommitGate, FinalizeCommitted, PlanTarget, BindGenesis,
     Attempt, Fail, Commit, history
<1>3. CASE \/ StageDir(p) \/ StageRef(p) \/ CheckCheckout(p) \/ WriteMeta(p)
           \/ WriteTree(p) \/ SnapshotRecord(p) \/ WriteRecord(p)
  BY <1>3 DEF StageDir, StageRef, CheckCheckout, WriteMeta, WriteTree, WriteCheckout,
     SnapshotRecord, WriteRecord, history
<1>4. CASE Rewind(p) \/ RewindFails(p) \/ RewindDone(p)
  BY <1>4 DEF Rewind, RewindFails, RewindDone, history
<1>. QED  BY <1>1, <1>2, <1>3, <1>4, Zenon DEF Run

(* Every step keeps the start that runs alone undoable. *)
LEMMA SoloStep ==
  ASSUME TypeInv, LedgerInv, SoloInv, [Next]_vars
  PROVE  SoloInv'
<1>. SUFFICES ASSUME NEW p \in Proc, solo'.proc = p PROVE SoloOf(p)'
  BY DEF SoloInv
<1>0. Nobody.proc # p
  BY ThreadStartAssumption DEF Nobody
<1>1. ASSUME NEW q \in Proc, Start(q) PROVE SoloOf(p)'
  <2>1. /\ q = p /\ \A r \in Proc \ {p} : pc[r] = "idle"
        /\ solo'.ref = ref /\ solo'.record = record /\ solo'.dir = dir
    BY <1>0, <1>1 DEF Start, Alone
  <2>2. pc' = [pc EXCEPT ![p] = "epoch"] /\ existing'[p] = ref
    BY <1>1, <2>1 DEF Start, Goto, TypeInv, TypeOK
  <2>3. UNCHANGED <<ref, record, dir>>
    BY <1>1 DEF Start, repoVars
  <2>4. pc'[p] = "epoch" /\ "epoch" \notin Staging \union Rewinding
    BY <2>2 DEF Staging, Rewinding, TypeInv, TypeOK
  <2>5. \A r \in Proc \ {p} : pc'[r] = "idle"
    BY <2>1, <2>2 DEF TypeInv, TypeOK
  <2>. QED  BY <2>1, <2>2, <2>3, <2>4, <2>5 DEF SoloOf, Found
<1>2. ASSUME NEW q \in Proc, Run(q) \/ Crash(q) PROVE SoloOf(p)'
  <2>1. solo' = solo
    BY <1>0, <1>2, SoloProc
  <2>2. SoloOf(p) /\ solo.proc = p
    BY <2>1 DEF SoloInv
  <2>3. q = p
    BY <1>2, <2>2, RunsNotIdle DEF SoloOf
  <2>4. ~Crash(p)
    BY <1>0, <2>1, <2>2 DEF Crash, Leave
  <2>. QED  BY <1>2, <2>2, <2>3, <2>4, SoloRun
<1>3. CASE Capture
  BY <1>0, <1>3 DEF Capture
<1>4. CASE MainCommit \/ UNCHANGED vars
  <2>1. UNCHANGED <<ref, record, dir, pc, request, txVars, solo>>
    BY <1>4 DEF MainCommit, vars, repoVars, history
  <2>2. SoloOf(p) /\ solo.proc = p
    BY <2>1 DEF SoloInv
  <2>3. /\ Found => Found'
        /\ Undoes(p) => Undoes(p)'
    BY <2>1 DEF Found, Undoes, RecordBack, RefBack, DirBack, request, txVars
  <2>. QED  BY <2>1, <2>2, <2>3 DEF SoloOf, request, txVars
<1>5. ASSUME NEW delete \in BOOLEAN, Drop(delete) PROVE SoloOf(p)'
  BY <1>5 DEF Drop, SoloInv, SoloOf
<1>. QED  BY <1>1, <1>2, <1>3, <1>4, <1>5, Zenon DEF Next

(* Nothing is staged at the start. *)
LEMMA InitLedger == Init => LedgerInv /\ SoloInv
<1>. SUFFICES ASSUME Init PROVE LedgerInv /\ SoloInv
  OBVIOUS
<1>1. \A p \in Proc : pc[p] = "idle" /\ ledger[p] = <<>>
  BY DEF Init
<1>2. Staged("idle") = 0 /\ Ordered(<<>>)
  BY EmptyLedger DEF Staged, Ordered
<1>3. LedgerInv
  BY <1>1, <1>2, EmptyLedger, Zenon DEF LedgerInv
<1>4. SoloInv
  BY ThreadStartAssumption DEF SoloInv, Init, Nobody
<1>. QED  BY <1>3, <1>4

(* A start that ran alone and failed, and whose inverses all ran, left the  *)
(* ref, the record and every directory as it found them: for any faults,    *)
(* any number of attempts, and whatever ran before it.                      *)
THEOREM FailedStartIsUndone == Spec => []FailedStartUndone
<1>1. TypeInv /\ LedgerInv /\ SoloInv /\ [Next]_vars => (TypeInv /\ LedgerInv /\ SoloInv)'
  BY NextTypeInv, LedgerStep, SoloStep
<1>2. SoloInv => FailedStartUndone
  BY DEF SoloInv, SoloOf, FailedStartUndone, Found
<1>. QED  BY InitTypeInv, InitLedger, <1>1, <1>2, PTL DEF Spec

(* Until it commits, a start that runs alone has left nothing in the log    *)
(* but a batch whose append reported an error.                              *)
CleanOf(p, l, u) == \A i \in (solo.len + 1)..Len(l) : l[i].tx = NoTx \/ i \in u

CleanInv == \A p \in Proc : solo.proc = p /\ pc[p] # "done" => CleanOf(p, log, unsure)

LEMMA CleanStep ==
  ASSUME TypeInv, SoloInv, CleanInv, [Next]_vars
  PROVE  CleanInv'
<1>. SUFFICES ASSUME NEW p \in Proc, solo'.proc = p, pc'[p] # "done" PROVE CleanOf(p, log, unsure)'
  BY DEF CleanInv
<1>0. /\ Nobody.proc # p
      /\ Len(log) \in Nat
      /\ unsure \subseteq unsure'
  BY ThreadStartAssumption, LenProperties, HistoryStep DEF Nobody, TypeInv, TypeOK
<1>1. ASSUME NEW q \in Proc, Start(q) PROVE CleanOf(p, log, unsure)'
  <2>1. solo'.len = Len(log) /\ log' = log
    BY <1>0, <1>1 DEF Start, repoVars
  <2>. QED  BY <1>0, <2>1 DEF CleanOf
<1>2. ASSUME solo' = solo, pc[p] # "done", \A q \in Proc : Appends(q) => q = p
      PROVE  CleanOf(p, log, unsure)'
  <2>1. solo.len \in Nat /\ CleanOf(p, log, unsure)
    BY <1>2 DEF CleanInv, TypeInv, TypeOK, Solo
  <2>2. CASE log' = log
    BY <1>0, <1>2, <2>1, <2>2 DEF CleanOf
  <2>5. ASSUME NEW tx, NEW kind, [tx |-> tx, kind |-> kind] \in Entry, Append1(tx, kind),
               tx = NoTx \/ Len(log) + 1 \in unsure'
        PROVE  CleanOf(p, log, unsure)'
    <3>2. /\ Len(log') = Len(log) + 1
          /\ \A i \in 1..Len(log) : log'[i] = log[i]
          /\ log'[Len(log) + 1].tx = tx
      BY <2>5, LogGrows
    <3>3. ASSUME NEW i \in (solo.len + 1)..(Len(log) + 1)
          PROVE  log'[i].tx = NoTx \/ i \in unsure'
      <4>1. CASE i = Len(log) + 1
        BY <2>5, <3>2, <4>1
      <4>2. CASE i \in 1..Len(log) /\ i \in (solo.len + 1)..Len(log)
        BY <1>0, <2>1, <3>2, <4>2 DEF CleanOf
      <4>. QED  BY <1>0, <2>1, <3>3, <4>1, <4>2
    <3>. QED  BY <1>2, <3>2, <3>3 DEF CleanOf
  <2>3. ASSUME NEW q \in Proc, Appends(q) PROVE CleanOf(p, log, unsure)'
    <3>1. Len(log) + 1 \in unsure'
      BY <1>2, <2>3, CommitSeals
    <3>2. /\ [tx |-> TransactionId(q), kind |-> StagedKind(q)] \in Entry
          /\ Append1(TransactionId(q), StagedKind(q))
      BY <2>3, StartEntry DEF Appends, Commit
    <3>. QED  BY <2>5, <3>1, <3>2
  <2>4. ASSUME NEW kind \in {"capture", "main", "delete"}, Append1(NoTx, kind)
        PROVE  CleanOf(p, log, unsure)'
    <3>1. kind \in Kind
      BY DEF Kind
    <3>. QED  BY <2>4, <2>5, <3>1, NoTxEntry
  <2>. QED  BY <2>2, <2>3, <2>4, LogStep
<1>3. ASSUME NEW q \in Proc, Run(q) \/ Crash(q) PROVE CleanOf(p, log, unsure)'
  <2>1. solo' = solo
    BY <1>0, <1>3, SoloProc
  <2>2. SoloOf(p)
    BY <2>1 DEF SoloInv
  <2>3. q = p
    BY <1>3, <2>2, RunsNotIdle DEF SoloOf
  <2>4. ~Leave(p)
    BY <1>0, <2>1 DEF Leave
  <2>5. pc[p] # "done"
    <3>1. SUFFICES ASSUME pc[p] = "done" PROVE FALSE
      OBVIOUS
    <3>2. ~Finalize(p) /\ ~FinalizeFails(p) /\ ~Return(p) /\ ~Crash(p)
      BY <2>4 DEF Finalize, FinalizeFails, Return, Crash
    <3>. QED
      BY <1>3, <2>3, <3>1, <3>2 DEF Run, ResolveEpoch, CommitGate, FinalizeCommitted,
         PlanTarget, BindGenesis, Attempt, StageDir, StageRef, CheckCheckout, WriteMeta,
         WriteTree, SnapshotRecord, WriteRecord, Commit, Fail, Rewind, RewindFails,
         RewindDone, Planning, Staging, Rewinding
  <2>6. \A r \in Proc : Appends(r) => r = p
    BY <2>2 DEF SoloOf, Appends, Commit
  <2>. QED  BY <1>2, <2>1, <2>5, <2>6
<1>4. CASE Capture
  BY <1>0, <1>4 DEF Capture
<1>5. CASE MainCommit \/ UNCHANGED vars
  <2>1. UNCHANGED <<pc, solo>>
    BY <1>5 DEF MainCommit, vars, history
  <2>2. SoloOf(p)
    BY <2>1 DEF SoloInv
  <2>3. \A r \in Proc : Appends(r) => r = p
    BY <2>2 DEF SoloOf, Appends, Commit
  <2>. QED  BY <1>2, <2>1, <2>3
<1>6. ASSUME NEW delete \in BOOLEAN, Drop(delete) PROVE CleanOf(p, log, unsure)'
  BY <1>6 DEF Drop, SoloInv, SoloOf
<1>. QED  BY <1>1, <1>3, <1>4, <1>5, <1>6, Zenon DEF Next

(* The contract of execute: a start that ran alone and failed left nothing  *)
(* in the log but a batch whose append reported an error, and nothing       *)
(* elsewhere unless an inverse failed.                                      *)
THEOREM FailedStartLeavesNothing == Spec => []AllOrNothing
<1>1. Init => CleanInv
  BY ThreadStartAssumption DEF Init, CleanInv, Nobody
<1>2. TypeInv /\ LedgerInv /\ SoloInv /\ CleanInv /\ [Next]_vars
        => (TypeInv /\ LedgerInv /\ SoloInv /\ CleanInv)'
  BY NextTypeInv, LedgerStep, SoloStep, CleanStep
<1>3. SoloInv /\ CleanInv => AllOrNothing
  BY DEF SoloInv, SoloOf, CleanInv, CleanOf, AllOrNothing, FailedStartUndone, Found
<1>. QED  BY InitTypeInv, InitLedger, <1>1, <1>2, <1>3, PTL DEF Spec

-----------------------------------------------------------------------------
(* Starts that do not overlap. *)

(* One process starts the thread. *)
Lone == \A p, q \in Proc : pc[p] # "idle" /\ pc[q] # "idle" => p = q

LoneInv == ~crowded => Lone

(* Until starts overlap, one process starts the thread. *)
LEMMA LoneStep ==
  ASSUME TypeInv, LoneInv, [Next]_vars
  PROVE  LoneInv'
<1>. SUFFICES ASSUME ~crowded', NEW p \in Proc, NEW q \in Proc,
                     pc'[p] # "idle", pc'[q] # "idle"
              PROVE  p = q
  BY DEF LoneInv, Lone
<1>1. ASSUME NEW r \in Proc, Start(r) PROVE p = r /\ q = r
  BY <1>1 DEF Start, Alone, Goto, TypeInv, TypeOK
<1>2. CASE \A r \in Proc : ~Start(r)
  <2>1. ~crowded
    BY <1>2, HistoryStep
  <2>2. pc[p] # "idle" /\ pc[q] # "idle"
    BY <1>2, RequestStep
  <2>. QED  BY <2>1, <2>2 DEF LoneInv, Lone
<1>. QED  BY <1>1, <1>2

(* While one process starts the thread, the others are idle. *)
LEMMA OthersIdle ==
  ASSUME TypeInv, LoneInv, [Next]_vars, ~crowded',
         NEW p \in Proc, Start(p) \/ Run(p) \/ Crash(p), NEW q \in Proc, q # p
  PROVE  pc'[q] = "idle"
<1>1. CASE Start(p)
  BY <1>1 DEF Start, Alone, Goto, TypeInv, TypeOK
<1>2. CASE Run(p) \/ Crash(p)
  <2>1. pc[p] # "idle"
    BY <1>2, RunsNotIdle
  <2>2. ASSUME NEW r \in Proc, Start(r) PROVE FALSE
    BY <2>1, <2>2 DEF Start, Alone
  <2>3. ~crowded
    BY <2>2, HistoryStep
  <2>4. pc[q] = "idle"
    BY <2>1, <2>3 DEF LoneInv, Lone
  <2>. QED  BY <2>2, <2>4, RequestStep
<1>. QED  BY <1>1, <1>2

Valid(r) == r # NoRecord /\ r.active

Has(effects, effect) == \E k \in 1..Len(effects) : effects[k] = effect

(* While a started thread stands, a start has found its ref and keeps its   *)
(* record for the inverse; a start that commits has staged both.            *)
StayOf(p) ==
  /\ live # NoPath /\ pc[p] \notin {"idle", "done"} => existing[p] # NoState
  /\ live # NoPath /\ pc[p] \in Staging \union Rewinding /\ Has(ledger[p], "record") =>
       Valid(prior[p])
  /\ pc[p] \in Staging \ {"dir", "setref"} => ref # NoState
  /\ pc[p] = "commit" => Valid(record)

StayInv == ~crowded => ThreadStands /\ \A p \in Proc : StayOf(p)

(* A start claims no checkout that stands, and what it commits is whole. *)
WholeOf(p) ==
  /\ live # NoPath /\ StillAtPath(p) /\ pc[p] \in Staging \union Rewinding => path[p] # live
  /\ pc[p] \in {"setref", "checkout", "meta"} /\ StillAtPath(p) => dir[path[p]] = {}
  /\ pc[p] = "tree" => dir[path[p]] = {"meta"}
  /\ pc[p] \in {"snapshot", "record", "commit"} => dir[path[p]] = Full

WholeInv == ~crowded => CheckoutStands /\ \A p \in Proc : WholeOf(p)

(* Inverses on a longer and on a shorter ledger. *)
LEMMA HasPush ==
  ASSUME NEW l \in Seq(Effect), NEW e \in Effect, NEW f, Has(Append(l, e), f)
  PROVE  Has(l, f) \/ f = e
<1>1. PICK k : k = Append(l, e)
  OBVIOUS
<1>2. /\ Len(l) \in Nat /\ Len(k) = Len(l) + 1
      /\ \A i \in 1..Len(l) : k[i] = l[i]
      /\ k[Len(l) + 1] = e
  BY <1>1, AppendLemma, LenProperties
<1>3. PICK i \in 1..Len(k) : k[i] = f
  BY <1>1 DEF Has
<1>4. i \in 1..Len(l) \/ i = Len(l) + 1
  BY <1>2, <1>3
<1>. QED  BY <1>2, <1>3, <1>4 DEF Has

LEMMA HasPop ==
  ASSUME TypeInv, NEW p \in Proc, ledger[p] # <<>>
  PROVE  /\ Has(ledger[p], Newest(p))
         /\ Has(Older(p), "record") => Has(ledger[p], "record")
         /\ Has(Popped(p), "record") => Has(ledger[p], "record")
<1>. DEFINE l == ledger[p]
<1>1. l \in Seq(Effect)
  BY DEF TypeInv, TypeOK
<1>2. PICK o : o = Older(p)
  OBVIOUS
<1>3. /\ Len(l) \in Nat \ {0}
      /\ o \in Seq(Effect) /\ Len(o) = Len(l) - 1
      /\ \A k \in 1..(Len(l) - 1) : o[k] = l[k]
  BY <1>1, <1>2, PopLemma DEF Older
<1>4. Has(l, Newest(p))
  BY <1>3 DEF Has, Newest
<1>5. Has(o, "record") => Has(l, "record")
  BY <1>3 DEF Has
<1>6. Has(Append(o, "dir"), "record") => Has(o, "record")
  BY <1>3, HasPush DEF Effect
<1>. QED  BY <1>2, <1>4, <1>5, <1>6 DEF Popped

(* A started thread: its ref and its record. *)
LEMMA StayRun ==
  ASSUME TypeInv, LedgerInv, ThreadStands, NEW p \in Proc, StayOf(p), Run(p)
  PROVE  ThreadStands' /\ StayOf(p)'
<1>0. /\ Staging \intersect Rewinding = {}
      /\ Planning \intersect (Staging \union Rewinding) = {}
      /\ {"idle", "committed", "done", "failed"}
           \intersect (Planning \union Staging \union Rewinding) = {}
      /\ "commit" \in Staging
  BY DEF Planning, Staging, Rewinding
<1>1. CASE \/ ResolveEpoch(p) \/ CommitGate(p) \/ FinalizeCommitted(p)
           \/ PlanTarget(p) \/ BindGenesis(p)
  <2>1. /\ pc[p] \in Planning \union {"committed"}
        /\ UNCHANGED <<ref, record, existing, live>>
    BY <1>1 DEF ResolveEpoch, CommitGate, FinalizeCommitted, PlanTarget, BindGenesis,
       Planning, repoVars, request, txVars, history
  <2>2. pc'[p] \in Planning \union {"committed", "done", "failed"}
    BY <1>1 DEF ResolveEpoch, CommitGate, FinalizeCommitted, PlanTarget, BindGenesis,
       Planning, Goto, TypeInv, TypeOK
  <2>. QED  BY <1>0, <2>1, <2>2 DEF StayOf, ThreadStands, Valid
<1>2. CASE Attempt(p)
  <2>1. /\ pc[p] = "attempt" /\ pc'[p] = "dir"
        /\ UNCHANGED <<ref, record, existing, live, ledger>>
    BY <1>2 DEF Attempt, Goto, repoVars, request, history, TypeInv, TypeOK
  <2>2. Len(ledger[p]) = 0
    BY <2>1 DEF LedgerInv, Planning, Staged
  <2>3. ~Has(ledger'[p], "record")
    BY <2>1, <2>2 DEF Has
  <2>. QED  BY <1>0, <2>1, <2>3 DEF StayOf, ThreadStands
<1>3. CASE StageDir(p) \/ CheckCheckout(p) \/ WriteMeta(p) \/ WriteTree(p)
  <2>1. UNCHANGED <<ref, record, existing, live, prior>>
    BY <1>3 DEF StageDir, CheckCheckout, WriteMeta, WriteTree, WriteCheckout, repoVars,
       request, txVars, history
  <2>2. /\ pc[p] \in {"dir", "checkout", "meta", "tree"}
        /\ pc'[p] \in {"setref", "meta", "tree", "snapshot", "error"}
        /\ pc[p] = "dir" => pc'[p] \in {"setref", "error"}
    BY <1>3 DEF StageDir, CheckCheckout, WriteMeta, WriteTree, WriteCheckout, Goto, Abort,
       TypeInv, TypeOK
  <2>3. \/ ledger'[p] = ledger[p]
        \/ \E e \in {"dir", "checkout"} : ledger'[p] = Append(ledger[p], e)
    BY <1>3 DEF StageDir, CheckCheckout, WriteMeta, WriteTree, WriteCheckout, Push, txVars,
       TypeInv, TypeOK
  <2>4. Has(ledger'[p], "record") => Has(ledger[p], "record")
    BY <2>3, HasPush DEF Effect, TypeInv, TypeOK
  <2>5. /\ pc[p] \in Staging /\ (pc'[p] # "error" => pc'[p] \in Staging)
        /\ pc[p] \notin {"idle", "done"} /\ pc'[p] # "commit"
        /\ pc'[p] \in Staging \ {"dir", "setref"} => pc[p] \in Staging \ {"dir", "setref"}
    BY <2>2 DEF Staging
  <2>. QED  BY <2>1, <2>4, <2>5 DEF StayOf, ThreadStands
<1>4. CASE StageRef(p)
  <2>1. pc[p] = "setref" /\ base[p] \in State /\ UNCHANGED <<record, existing, live, prior>>
    BY <1>4 DEF StageRef, request, history, TypeInv, LocalsInv
  <2>2. \/ pc'[p] = "checkout" /\ ref' = base[p] /\ ledger'[p] = Append(ledger[p], "ref")
        \/ pc'[p] = "error" /\ ref' = ref /\ ledger' = ledger
    BY <1>4 DEF StageRef, Goto, Abort, Push, TypeInv, TypeOK
  <2>3. Has(ledger'[p], "record") => Has(ledger[p], "record")
    BY <2>2, HasPush DEF Effect, TypeInv, TypeOK
  <2>4. base[p] # NoState
    BY <2>1 DEF State, FirstState, NoState
  <2>5. pc[p] \in Staging /\ "error" \notin Staging
    BY <2>1 DEF Staging
  <2>. QED  BY <2>1, <2>2, <2>3, <2>4, <2>5 DEF StayOf, ThreadStands
<1>5. CASE SnapshotRecord(p)
  <2>1. /\ pc[p] = "snapshot" /\ pc'[p] = "record" /\ prior'[p] = record
        /\ UNCHANGED <<ref, record, existing, live>>
    BY <1>5 DEF SnapshotRecord, Goto, repoVars, request, history, TypeInv, TypeOK
  <2>2. pc[p] \in Staging \ {"dir", "setref"}
    BY <2>1 DEF Staging
  <2>. QED  BY <2>1, <2>2 DEF StayOf, ThreadStands, Valid
<1>6. CASE WriteRecord(p)
  <2>1. /\ pc[p] = "record" /\ pc'[p] = "commit"
        /\ record' = [epoch |-> epoch[p], path |-> path[p], active |-> TRUE]
        /\ epoch[p] \in 1..MaxClock /\ path[p] \in Path
        /\ UNCHANGED <<ref, existing, live, prior, ledger>>
    BY <1>6 DEF WriteRecord, Goto, request, txVars, history, TypeInv, TypeOK, LocalsInv,
       Active, Staging
  <2>2. Valid(record')
    <3>1. record' \in [epoch : Nat, path : Path, active : BOOLEAN]
      BY <2>1, Bounds
    <3>. QED  BY <2>1, <3>1, ThreadStartAssumption DEF Valid
  <2>3. pc[p] \in Staging \ {"dir", "setref"}
    BY <2>1 DEF Staging
  <2>. QED  BY <2>1, <2>2, <2>3 DEF StayOf, ThreadStands, Valid
<1>7. CASE Commit(p)
  <2>1. pc[p] = "commit" /\ UNCHANGED <<ref, record, existing, prior, ledger>>
    BY <1>7 DEF Commit, request, txVars
  <2>2. \/ pc'[p] = "done"
        \/ pc'[p] \in {"dup", "conflict", "error"} /\ live' = live
    BY <1>7 DEF Commit, Seal, Abort, Goto, TypeInv, TypeOK
  <2>3. \A label \in {"dup", "conflict", "error"} : label \in Rewinding
    BY DEF Rewinding
  <2>4. ref # NoState /\ Valid(record)
    BY <1>0, <2>1 DEF StayOf
  <2>. QED  BY <1>0, <2>1, <2>2, <2>3, <2>4 DEF StayOf, ThreadStands, Valid
<1>8. CASE Fail(p)
  <2>1. UNCHANGED <<ref, record, existing, live, prior, ledger>>
    BY <1>8 DEF Fail, repoVars, request, txVars, history
  <2>2. \/ pc[p] \in Staging /\ pc'[p] \in Rewinding
        \/ pc[p] \in Planning /\ pc'[p] = "failed"
    BY <1>8 DEF Fail, Abort, Goto, Rewinding, Staging, TypeInv, TypeOK
  <2>. QED  BY <1>0, <2>1, <2>2 DEF StayOf, ThreadStands
<1>9. CASE Rewind(p) \/ RewindFails(p)
  <2>1. pc[p] \in Rewinding /\ ledger[p] # <<>> /\ UNCHANGED <<pc, existing, live, prior>>
    BY <1>9 DEF Rewind, RewindFails, request, history
  <2>2. ledger'[p] = Popped(p) \/ ledger'[p] = Older(p)
    BY <1>9 DEF Rewind, RewindFails, TypeInv, TypeOK
  <2>3. Has(ledger'[p], "record") => Has(ledger[p], "record")
    BY <2>1, <2>2, HasPop
  <2>4. /\ ref' = ref \/ ref' = existing[p]
        /\ \/ record' = record
           \/ Has(ledger[p], "record") /\ record' = prior[p]
    <3>1. Has(ledger[p], Newest(p))
      BY <2>1, HasPop
    <3>2. CASE Rewind(p)
      <4>1. Undo(p, Newest(p))
        BY <3>2 DEF Rewind
      <4>. QED  BY <3>1, <4>1 DEF Undo, RollbackRef, RestoreRecord
    <3>3. CASE RewindFails(p)
      BY <3>3 DEF RewindFails, repoVars
    <3>. QED  BY <1>9, <3>2, <3>3
  <2>5. live # NoPath => existing[p] # NoState
    BY <1>0, <2>1 DEF StayOf
  <2>6. live # NoPath /\ Has(ledger[p], "record") => Valid(prior[p])
    BY <2>1 DEF StayOf
  <2>7. ThreadStands'
    BY <2>1, <2>4, <2>5, <2>6 DEF ThreadStands, Valid
  <2>8. StayOf(p)'
    BY <1>0, <2>1, <2>3, <2>5, <2>6 DEF StayOf
  <2>. QED  BY <2>7, <2>8
<1>10. CASE RewindDone(p)
  <2>1. pc[p] \in Rewinding /\ UNCHANGED <<ref, record, existing, live>>
    BY <1>10 DEF RewindDone, repoVars, request, history
  <2>2. pc'[p] \in {"failed", "done", "attempt"}
    BY <1>10 DEF RewindDone, Goto, TypeInv, TypeOK
  <2>3. pc'[p] \notin Staging \union Rewinding
    BY <2>2 DEF Staging, Rewinding
  <2>. QED  BY <1>0, <2>1, <2>2, <2>3 DEF StayOf, ThreadStands
<1>11. CASE Finalize(p) \/ FinalizeFails(p) \/ Return(p)
  <2>1. pc'[p] = "idle" /\ UNCHANGED <<ref, record, live>>
    BY <1>11 DEF Finalize, FinalizeFails, Return, Leave, Goto, repoVars, TypeInv, TypeOK
  <2>. QED  BY <1>0, <2>1 DEF StayOf, ThreadStands
<1>. QED
  BY <1>1, <1>2, <1>3, <1>4, <1>5, <1>6, <1>7, <1>8, <1>9, <1>10, <1>11, Zenon DEF Run

LEMMA StayStep ==
  ASSUME TypeInv, LedgerInv, LoneInv, StayInv, [Next]_vars
  PROVE  StayInv'
<1>. SUFFICES ASSUME ~crowded' PROVE ThreadStands' /\ \A p \in Proc : StayOf(p)'
  BY DEF StayInv
<1>0. {"epoch", "idle"} \intersect (Staging \union Rewinding) = {} /\ "commit" \in Staging
  BY DEF Staging, Rewinding
<1>1. ASSUME NEW q \in Proc, pc'[q] = "idle" PROVE StayOf(q)'
  BY <1>0, <1>1 DEF StayOf
<1>2. ASSUME NEW p \in Proc, Run(p)
      PROVE  ThreadStands' /\ \A q \in Proc : StayOf(q)'
  <2>1. \A q \in Proc \ {p} : StayOf(q)'
    BY <1>1, <1>2, OthersIdle
  <2>2. ~crowded
    <3>1. ASSUME NEW r \in Proc, Start(r) PROVE FALSE
      BY <1>2, <3>1, RunsNotIdle DEF Start, Alone
    <3>. QED  BY <3>1, HistoryStep
  <2>3. ThreadStands' /\ StayOf(p)'
    BY <1>2, <2>2, StayRun DEF StayInv
  <2>. QED  BY <2>1, <2>3
<1>3. ASSUME NEW p \in Proc, Start(p)
      PROVE  ThreadStands' /\ \A q \in Proc : StayOf(q)'
  <2>1. \A q \in Proc \ {p} : StayOf(q)'
    BY <1>1, <1>3, OthersIdle
  <2>2. /\ pc'[p] = "epoch" /\ existing'[p] = ref
        /\ UNCHANGED <<ref, record, live>>
        /\ live = NoPath \/ ~crowded
    BY <1>3 DEF Start, Goto, repoVars, TypeInv, TypeOK
  <2>3. ThreadStands
    BY <2>2 DEF StayInv, ThreadStands
  <2>4. ThreadStands' /\ StayOf(p)'
    BY <1>0, <2>2, <2>3 DEF StayOf, ThreadStands
  <2>. QED  BY <2>1, <2>4
<1>4. ASSUME NEW p \in Proc, Crash(p)
      PROVE  ThreadStands' /\ \A q \in Proc : StayOf(q)'
  <2>1. pc'[p] = "idle" /\ UNCHANGED <<ref, record, live, crowded>>
    BY <1>4 DEF Crash, Leave, Goto, repoVars, TypeInv, TypeOK
  <2>2. \A q \in Proc : StayOf(q)'
    BY <1>1, <1>4, <2>1, OthersIdle
  <2>. QED  BY <2>1, <2>2 DEF StayInv, ThreadStands
<1>5. CASE Capture
  <2>1. ref' # NoState /\ crowded' = crowded
    BY <1>5, NewStateType DEF Capture, State, FirstState, NoState
  <2>. QED  BY <1>5, <2>1 DEF Capture, StayInv, StayOf, ThreadStands, request, txVars
<1>6. CASE MainCommit \/ UNCHANGED vars
  BY <1>6 DEF MainCommit, vars, repoVars, StayInv, StayOf, ThreadStands, request, txVars,
     history
<1>7. ASSUME NEW delete \in BOOLEAN, Drop(delete)
      PROVE  ThreadStands' /\ \A p \in Proc : StayOf(p)'
  <2>1. live' = NoPath /\ pc' = pc /\ \A p \in Proc : pc[p] = "idle"
    BY <1>7 DEF Drop
  <2>. QED  BY <1>1, <2>1 DEF ThreadStands
<1>. QED  BY <1>2, <1>3, <1>4, <1>5, <1>6, <1>7, Zenon DEF Next

(* Unless starts of the name overlap, the ref and the record of a started   *)
(* thread stay until it is dropped, whatever later starts of it do, where   *)
(* they crash, and which of their inverses fail.                            *)
THEOREM StartedThreadStays == Spec => []ThreadStays
<1>1. Init => LoneInv /\ StayInv
  BY DEF Init, LoneInv, Lone, StayInv, StayOf, ThreadStands, Staging, Rewinding
<1>2. TypeInv /\ LedgerInv /\ LoneInv /\ StayInv /\ [Next]_vars
        => (TypeInv /\ LedgerInv /\ LoneInv /\ StayInv)'
  BY NextTypeInv, LedgerStep, LoneStep, StayStep
<1>3. StayInv => ThreadStays
  BY DEF StayInv, ThreadStays
<1>. QED  BY InitTypeInv, InitLedger, <1>1, <1>2, <1>3, PTL DEF Spec

(* The checkout of a started thread. *)
LEMMA WholeRun ==
  ASSUME TypeInv, CheckoutStands, NEW p \in Proc, WholeOf(p), Run(p)
  PROVE  CheckoutStands' /\ WholeOf(p)'
<1>0. /\ Staging \intersect Rewinding = {}
      /\ {"setref", "checkout", "meta", "tree", "snapshot", "record", "commit"} \subseteq Staging
      /\ Absent # Full /\ Full # {}
  BY ThreadStartAssumption DEF Staging, Rewinding, Full
<1>1. CASE \/ ResolveEpoch(p) \/ CommitGate(p) \/ FinalizeCommitted(p)
           \/ PlanTarget(p) \/ BindGenesis(p) \/ Attempt(p) \/ RewindDone(p)
  <2>1. UNCHANGED <<dir, live>>
    BY <1>1 DEF ResolveEpoch, CommitGate, FinalizeCommitted, PlanTarget, BindGenesis,
       Attempt, RewindDone, repoVars, history
  <2>2. \/ pc'[p] \in Planning \union {"committed", "done", "failed"}
        \/ pc'[p] = "dir" /\ claim'[p] = "none"
    BY <1>1 DEF ResolveEpoch, CommitGate, FinalizeCommitted, PlanTarget, BindGenesis,
       Attempt, RewindDone, Planning, Goto, TypeInv, TypeOK
  <2>3. /\ pc'[p] \in Staging \union Rewinding => ~StillAtPath(p)'
        /\ pc'[p] \notin {"tree", "snapshot", "record", "commit"}
    BY <2>2 DEF Planning, Staging, Rewinding, StillAtPath
  <2>. QED  BY <1>0, <2>1, <2>3 DEF WholeOf, CheckoutStands
<1>2. CASE StageDir(p)
  <2>1. pc[p] = "dir" /\ path[p] \in Path /\ UNCHANGED <<path, live>>
    BY <1>2 DEF StageDir, request, history, TypeInv, LocalsInv
  <2>2. CASE UNCHANGED <<dir, claim>> /\ Goto(p, "error")
    <3>1. pc[p] \in Staging /\ pc'[p] = "error"
      BY <2>1, <2>2 DEF Staging, Goto, TypeInv, TypeOK
    <3>. QED  BY <1>0, <2>1, <2>2, <3>1 DEF WholeOf, CheckoutStands, StillAtPath
  <2>3. CASE /\ dir[path[p]] \in {Absent, {}} /\ Goto(p, "setref")
             /\ dir' = dir \/ dir' = [dir EXCEPT ![path[p]] = {}]
             /\ dir[path[p]] = Absent => dir' = [dir EXCEPT ![path[p]] = {}]
    <3>1. live # NoPath => path[p] # live
      BY <1>0, <2>3 DEF CheckoutStands
    <3>2. /\ pc'[p] = "setref" /\ dir'[path[p]] = {}
          /\ \A d \in Path \ {path[p]} : dir'[d] = dir[d]
      BY <2>1, <2>3 DEF Goto, TypeInv, TypeOK
    <3>3. CheckoutStands'
      BY <2>1, <3>1, <3>2 DEF CheckoutStands, TypeInv, TypeOK
    <3>4. /\ live' # NoPath => path'[p] # live'
          /\ dir'[path'[p]] = {}
          /\ pc'[p] \notin {"tree", "snapshot", "record", "commit"}
      BY <2>1, <3>1, <3>2
    <3>. QED  BY <3>3, <3>4 DEF WholeOf
  <2>4. Absent # {}
    BY ThreadStartAssumption
  <2>5. \/ dir[path[p]] = Absent /\ dir' = [dir EXCEPT ![path[p]] = {}] /\ Goto(p, "setref")
        \/ dir[path[p]] = {} /\ dir' = dir /\ Goto(p, "setref")
        \/ UNCHANGED <<dir, claim>> /\ Goto(p, "error")
    BY <1>2, Zenon DEF StageDir, Abort
  <2>. QED  BY <2>2, <2>3, <2>4, <2>5
<1>3. CASE StageRef(p) \/ CheckCheckout(p)
  <2>1. UNCHANGED <<path, live, dir, claim>> /\ pc[p] \in {"setref", "checkout"}
    BY <1>3 DEF StageRef, CheckCheckout, repoVars, request, history
  <2>2. pc'[p] \in {"checkout", "meta", "error"}
    BY <1>3 DEF StageRef, CheckCheckout, Abort, Goto, TypeInv, TypeOK
  <2>. QED  BY <1>0, <2>1, <2>2 DEF WholeOf, CheckoutStands, StillAtPath
<1>4. CASE WriteMeta(p) \/ WriteTree(p)
  <2>1. pc[p] \in {"meta", "tree"} /\ path[p] \in Path /\ UNCHANGED <<path, live, claim>>
    BY <1>4 DEF WriteMeta, WriteTree, WriteCheckout, request, txVars, history, TypeInv,
       LocalsInv
  <2>2. CASE ~StillAtPath(p)
    <3>1. dir' = dir /\ pc'[p] = "error"
      BY <1>4, <2>2 DEF WriteMeta, WriteTree, WriteCheckout, Abort, Goto, TypeInv, TypeOK
    <3>2. ~StillAtPath(p)'
      BY <2>1, <2>2 DEF StillAtPath
    <3>. QED  BY <2>1, <3>1, <3>2 DEF WholeOf, CheckoutStands
  <2>3. CASE StillAtPath(p)
    <3>1. live # NoPath => path[p] # live
      BY <1>0, <2>1, <2>3 DEF WholeOf
    <3>2. \/ /\ pc'[p] = "tree" /\ dir[path[p]] = {}
             /\ dir' = [dir EXCEPT ![path[p]] = dir[path[p]] \union {"meta"}]
          \/ /\ pc'[p] = "snapshot" /\ dir[path[p]] = {"meta"}
             /\ dir' = [dir EXCEPT ![path[p]] = dir[path[p]] \union {"tree"}]
      BY <1>4, <2>3 DEF WriteMeta, WriteTree, WriteCheckout, Goto, WholeOf, TypeInv, TypeOK
    <3>3. \/ pc'[p] = "tree" /\ dir'[path[p]] = {"meta"}
          \/ pc'[p] = "snapshot" /\ dir'[path[p]] = Full
      BY <2>1, <3>2 DEF Full, TypeInv, TypeOK
    <3>4. \A d \in Path \ {path[p]} : dir'[d] = dir[d]
      BY <2>1, <3>2 DEF TypeInv, TypeOK
    <3>5. CheckoutStands'
      BY <2>1, <3>1, <3>4 DEF CheckoutStands, TypeInv, TypeOK
    <3>. QED  BY <2>1, <3>1, <3>3, <3>5 DEF WholeOf
  <2>. QED  BY <2>2, <2>3
<1>5. CASE SnapshotRecord(p) \/ WriteRecord(p)
  <2>1. UNCHANGED <<path, live, dir, claim>> /\ pc[p] \in {"snapshot", "record"}
    BY <1>5 DEF SnapshotRecord, WriteRecord, repoVars, request, txVars, history
  <2>2. pc'[p] \in {"record", "commit"}
    BY <1>5 DEF SnapshotRecord, WriteRecord, Goto, TypeInv, TypeOK
  <2>. QED  BY <1>0, <2>1, <2>2 DEF WholeOf, CheckoutStands, StillAtPath
<1>6. CASE Commit(p)
  <2>1. UNCHANGED <<path, dir, claim>> /\ pc[p] = "commit" /\ dir[path[p]] = Full
    BY <1>6 DEF Commit, request, txVars, WholeOf
  <2>2. \/ pc'[p] = "done" /\ live' = path[p]
        \/ pc'[p] \in {"dup", "conflict", "error"} /\ live' = live
    BY <1>6 DEF Commit, Seal, Abort, Goto, TypeInv, TypeOK
  <2>3. "done" \notin Staging \union Rewinding
    BY DEF Staging, Rewinding
  <2>4. \A label \in {"dup", "conflict", "error"} :
          label \notin {"setref", "checkout", "meta", "tree", "snapshot", "record", "commit"}
    OBVIOUS
  <2>. QED  BY <1>0, <2>1, <2>2, <2>3, <2>4 DEF WholeOf, CheckoutStands, StillAtPath
<1>7. CASE Fail(p)
  <2>1. UNCHANGED <<path, live, dir, claim>>
    BY <1>7 DEF Fail, repoVars, request, txVars, history
  <2>2. \/ pc[p] \in Staging /\ pc'[p] = "error"
        \/ pc'[p] = "failed"
    BY <1>7 DEF Fail, Abort, Goto, TypeInv, TypeOK
  <2>3. "failed" \notin Staging \union Rewinding
    BY DEF Staging, Rewinding
  <2>. QED  BY <2>1, <2>2, <2>3 DEF WholeOf, CheckoutStands, StillAtPath
<1>8. CASE Rewind(p) \/ RewindFails(p)
  <2>1. pc[p] \in Rewinding /\ path[p] \in Path /\ UNCHANGED <<pc, path, live>>
    BY <1>8 DEF Rewind, RewindFails, Rewinding, request, history, TypeInv, LocalsInv
  <2>2. StillAtPath(p)' => StillAtPath(p)
    BY <1>8 DEF Rewind, RewindFails, StillAtPath, Disclaimed
  <2>3. \A d \in Path : d # path[p] \/ ~StillAtPath(p) => dir'[d] = dir[d]
    <3>1. CASE Rewind(p)
      <4>1. Undo(p, Newest(p))
        BY <3>1 DEF Rewind
      <4>2. Removable(p) => StillAtPath(p)
        BY DEF Removable, StillAtPath
      <4>. QED  BY <2>1, <4>1, <4>2 DEF Undo, RemoveDir, ClearDir, TypeInv, TypeOK
    <3>2. CASE RewindFails(p)
      BY <3>2 DEF RewindFails, repoVars
    <3>. QED  BY <1>8, <3>1, <3>2
  <2>4. live # NoPath /\ StillAtPath(p) => path[p] # live
    BY <2>1 DEF WholeOf
  <2>5. CheckoutStands'
    BY <2>1, <2>3, <2>4 DEF CheckoutStands, TypeInv, TypeOK
  <2>6. pc'[p] \notin Staging
    BY <1>0, <2>1
  <2>. QED  BY <1>0, <2>1, <2>2, <2>4, <2>5, <2>6 DEF WholeOf
<1>9. CASE Finalize(p) \/ FinalizeFails(p) \/ Return(p)
  <2>1. pc'[p] = "idle" /\ UNCHANGED <<dir, live>>
    BY <1>9 DEF Finalize, FinalizeFails, Return, Leave, Goto, repoVars, TypeInv, TypeOK
  <2>2. "idle" \notin Staging \union Rewinding
    BY DEF Staging, Rewinding
  <2>. QED  BY <1>0, <2>1, <2>2 DEF WholeOf, CheckoutStands
<1>. QED
  BY <1>1, <1>2, <1>3, <1>4, <1>5, <1>6, <1>7, <1>8, <1>9, Zenon DEF Run

LEMMA WholeStep ==
  ASSUME TypeInv, LoneInv, WholeInv, [Next]_vars
  PROVE  WholeInv'
<1>. SUFFICES ASSUME ~crowded' PROVE CheckoutStands' /\ \A p \in Proc : WholeOf(p)'
  BY DEF WholeInv
<1>0. {"epoch", "idle"} \intersect (Staging \union Rewinding) = {}
  BY DEF Staging, Rewinding
<1>1. ASSUME NEW q \in Proc, pc'[q] \in {"epoch", "idle"} PROVE WholeOf(q)'
  BY <1>0, <1>1 DEF WholeOf
<1>2. ASSUME NEW p \in Proc, Run(p)
      PROVE  CheckoutStands' /\ \A q \in Proc : WholeOf(q)'
  <2>1. \A q \in Proc \ {p} : WholeOf(q)'
    BY <1>1, <1>2, OthersIdle
  <2>2. ~crowded
    <3>1. ASSUME NEW r \in Proc, Start(r) PROVE FALSE
      BY <1>2, <3>1, RunsNotIdle DEF Start, Alone
    <3>. QED  BY <3>1, HistoryStep
  <2>3. CheckoutStands' /\ WholeOf(p)'
    BY <1>2, <2>2, WholeRun DEF WholeInv
  <2>. QED  BY <2>1, <2>3
<1>3. ASSUME NEW p \in Proc, Start(p) \/ Crash(p)
      PROVE  CheckoutStands' /\ \A q \in Proc : WholeOf(q)'
  <2>1. /\ pc'[p] \in {"epoch", "idle"} /\ UNCHANGED <<dir, live>>
        /\ live = NoPath \/ ~crowded
    BY <1>3 DEF Start, Crash, Leave, Goto, repoVars, TypeInv, TypeOK
  <2>2. \A q \in Proc : WholeOf(q)'
    BY <1>1, <1>3, <2>1, OthersIdle
  <2>. QED  BY <2>1, <2>2 DEF WholeInv, CheckoutStands
<1>4. CASE Capture \/ MainCommit \/ UNCHANGED vars
  BY <1>4 DEF Capture, MainCommit, vars, repoVars, WholeInv, WholeOf, CheckoutStands,
     StillAtPath, request, txVars, history
<1>5. ASSUME NEW delete \in BOOLEAN, Drop(delete)
      PROVE  CheckoutStands' /\ \A p \in Proc : WholeOf(p)'
  <2>1. live' = NoPath /\ pc' = pc /\ \A p \in Proc : pc[p] = "idle"
    BY <1>5 DEF Drop
  <2>. QED  BY <1>1, <2>1 DEF CheckoutStands
<1>. QED  BY <1>2, <1>3, <1>4, <1>5, Zenon DEF Next

(* Unless starts of the name overlap, the checkout of a started thread      *)
(* stays whole until the thread is dropped: no later start of the name, on  *)
(* its directory or on another one, clears it, and no inverse does.         *)
THEOREM StartedCheckoutStays == Spec => []CheckoutStays
<1>1. Init => LoneInv /\ WholeInv
  BY DEF Init, LoneInv, Lone, WholeInv, WholeOf, CheckoutStands, Staging, Rewinding
<1>2. TypeInv /\ LoneInv /\ WholeInv /\ [Next]_vars => (TypeInv /\ LoneInv /\ WholeInv)'
  BY NextTypeInv, LoneStep, WholeStep
<1>3. WholeInv => CheckoutStays
  BY DEF WholeInv, CheckoutStays
<1>. QED  BY InitTypeInv, <1>1, <1>2, <1>3, PTL DEF Spec
=============================================================================
