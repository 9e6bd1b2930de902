------------------------ MODULE WriterLease_proofs ------------------------
(***************************************************************************)
(* Proofs about WriterLease, for any number of processes, harnesses,       *)
(* checkouts and leases.  A lease without a checkout has no lock to        *)
(* respect: nothing is claimed of its own end, and that it disturbs no     *)
(* lease that has a checkout is part of the invariant.                     *)
(***************************************************************************)
EXTENDS WriterLease, TLAPS

Cmds ==
  [at : {"idle", "wait", "do", "write", "bind", "clean", "hooks", "auth", "claim", "mutate"},
   op : {"none", "reserve", "fanout", "install", "release", "hook", "unhook", "save"},
   dir : Path \union {None}, lease : Nat, pid : Proc \union Harness \union {None}]

(* Where a command holds the lock of its checkout *)
HasLock == {"do", "write", "bind", "clean", "auth", "claim", "mutate"}

(* Where a command has a lease, and where that is a lease of its checkout *)
HasLease(p) ==
  \/ proc[p].at \in {"write", "bind", "clean", "auth", "mutate"}
  \/ proc[p].at \in {"wait", "do"} /\ proc[p].op \in {"install", "release"}
HasOwnLease(p) ==
  \/ proc[p].at \in {"write", "bind", "clean", "mutate"}
  \/ proc[p].at \in {"wait", "do"} /\ proc[p].op = "release"

(* A lease without a checkout, and a harness's, carries the name of the thread *)
Store(ls) ==
  /\ ls \in Seq(Leases)
  /\ \A i \in 1 .. Len(ls) : ls[i].path = None \/ NeedsHarness(ls[i]) => ls[i].thread = "name"

Types ==
  /\ Store(leases) /\ Len(leases) <= MaxLeases
  /\ cred \in [Path -> Nat] /\ lock \in [Path -> Proc \union {None}]
  /\ proc \in [Proc -> Cmds]
  /\ alive \subseteq Proc \union Harness /\ released \subseteq 1 .. Len(leases)

(* Only the reservation and the release of a lease may do without a checkout *)
Placed(c) ==
  \/ c.dir \in Path
  \/ c.at \in {"do", "clean"} /\ c.op \in {"reserve", "release"} /\ c.dir = None

(* A lock is held by the command that is between taking and releasing it *)
Holding ==
  /\ \A d \in Path, p \in Proc : lock[d] = p <=> proc[p].at \in HasLock /\ proc[p].dir = d
  /\ \A p \in Proc : proc[p].at # "idle" => Placed(proc[p]) /\ p \in alive

(* Where a command is to write the credential of its lease *)
WillWrite(c) ==
  \/ c.at \in {"write", "bind"}
  \/ c.at \in {"wait", "do"} /\ c.op = "install"

Covers(l, d) == l.path \in {d, None}

(* The leases of commands and of credentials exist and cover the checkout *)
Named ==
  /\ \A p \in Proc :
       /\ HasLease(p) => proc[p].lease \in 1 .. Len(leases)
       /\ HasOwnLease(p) => Covers(leases[proc[p].lease], proc[p].dir)
       /\ WillWrite(proc[p]) => leases[proc[p].lease].thread = "name"
  /\ \A d \in Path : cred[d] # 0 => /\ cred[d] \in 1 .. Len(leases)
                                    /\ Covers(leases[cred[d]], d)
                                    /\ leases[cred[d]].thread = "name"

TypeInv == Types /\ Holding /\ Named

(* A checkout has one active lease; beside one without a checkout there are *)
(* only temporary ones                                                      *)
Sole(ls) ==
  \A i, j \in 1 .. Len(ls) :
    i # j /\ ls[i].active /\ ls[j].active
      => IF ls[i].path = None THEN ls[j].thread = "id" ELSE ls[i].path # ls[j].path

SoleOwner == Sole(leases)

(* A mutation was admitted with an active lease of its checkout, by the     *)
(* harness that the lease needs; or with a lease without a checkout, beside *)
(* no lease of a harness                                                    *)
Admits(p, c, ls) ==
  IF ls[c.lease].path # None
  THEN /\ ls[c.lease].active
       /\ NeedsHarness(ls[c.lease]) => Parent[p] = ls[c.lease].session
  ELSE \A i \in 1 .. Len(ls) : ls[i].active /\ ls[i].path = c.dir => ~NeedsHarness(ls[i])
Admitted == \A p \in Proc : proc[p].at = "mutate" => Admits(p, proc[p], leases)

OwnerInv == SoleOwner /\ Admitted

(* A released lease has ended, and nobody is about to write its credential *)
ReleaseInv ==
  /\ \A i \in released : ~leases[i].active
  /\ \A p \in Proc :
       /\ proc[p].at = "clean" => ~leases[proc[p].lease].active
       /\ proc[p].at = "write" /\ leases[proc[p].lease].path # None => proc[p].lease \notin released
  /\ ReleasedGone

IInv == TypeInv /\ OwnerInv /\ ReleaseInv

-----------------------------------------------------------------------------
(* The lease store.                                                        *)

(* What no operation of the store changes, and what it only ends *)
Grows(ls, us) ==
  /\ Store(us) /\ Len(ls) <= Len(us)
  /\ \A i \in 1 .. Len(ls) :
       /\ us[i].path = ls[i].path /\ us[i].thread = ls[i].thread /\ us[i].task = ls[i].task
       /\ us[i].active => ls[i].active

LEMMA ReapedStore ==
  ASSUME Store(leases), NEW held
  PROVE  /\ Grows(leases, Reaped(held)) /\ Len(Reaped(held)) = Len(leases)
         /\ \A i \in 1 .. Len(leases) :
              /\ Reaped(held)[i].session = leases[i].session
              /\ Reaped(held)[i].active <=> leases[i].active /\ ~Reapable(leases[i], held)
<1> DEFINE ls == Reaped(held)
<1>1. leases \in Seq(Leases) /\ Len(leases) \in Nat /\ DOMAIN leases = 1 .. Len(leases)
  BY DEF Store
<1>2. ASSUME NEW i \in 1 .. Len(leases)
      PROVE  /\ ls[i] \in Leases /\ ls[i].path = leases[i].path /\ ls[i].task = leases[i].task
             /\ ls[i].session = leases[i].session /\ ls[i].thread = leases[i].thread
             /\ ls[i].active <=> leases[i].active /\ ~Reapable(leases[i], held)
  <2>1. leases[i] \in Leases
    BY <1>1
  <2>2. ls[i] = IF Reapable(leases[i], held) THEN [leases[i] EXCEPT !.active = FALSE]
                                             ELSE leases[i]
    BY <1>1 DEF Reaped
  <2> QED
    BY <2>1, <2>2 DEF Leases
<1>3. ls \in [1 .. Len(leases) -> Leases]
  BY <1>1, <1>2 DEF Reaped
<1>4. ls \in Seq(Leases) /\ Len(ls) = Len(leases)
  BY <1>1, <1>3
<1> HIDE DEF ls
<1>5. Store(ls)
  BY <1>1, <1>2, <1>4 DEF Store, NeedsHarness
<1>6. \A i \in 1 .. Len(leases) : ls[i].active => leases[i].active
  BY <1>2
<1>7. Grows(leases, ls)
  BY <1>1, <1>2, <1>4, <1>5, <1>6 DEF Grows
<1> QED
  BY <1>2, <1>4, <1>7 DEF ls

(* One field of a lease is set: to heartbeat, to bind and to end it *)
LEMMA SetStore ==
  ASSUME NEW ls, Store(ls), NEW i \in 1 .. Len(ls), NEW l \in Leases,
         l.path = ls[i].path, l.thread = ls[i].thread, l.task = ls[i].task,
         l.active => ls[i].active, l.session # ls[i].session => l.thread = "name"
  PROVE  LET us == [ls EXCEPT ![i] = l]
         IN Grows(ls, us) /\ Len(us) = Len(ls) /\ us[i] = l
            /\ \A j \in 1 .. Len(ls) : j # i => us[j] = ls[j]
<1> DEFINE us == [ls EXCEPT ![i] = l]
<1>1. us \in Seq(Leases) /\ Len(us) = Len(ls) /\ us[i] = l /\ Len(ls) \in Nat
      /\ \A j \in 1 .. Len(ls) : j # i => us[j] = ls[j]
  BY DEF Store
<1> HIDE DEF us
<1>2. Store(us)
  BY <1>1 DEF Store, NeedsHarness
<1>3. Grows(ls, us)
  BY <1>1, <1>2 DEF Grows
<1> QED
  BY <1>1, <1>3 DEF us

LEMMA RenewedStore ==
  ASSUME Store(leases), NEW i \in 1 .. Len(leases)
  PROVE  /\ Grows(leases, Renewed(i)) /\ Len(Renewed(i)) = Len(leases)
         /\ \A j \in 1 .. Len(leases) :
              /\ Renewed(i)[j].session = leases[j].session
              /\ Renewed(i)[j].active = leases[j].active
<1>1. leases \in Seq(Leases) /\ leases[i] \in Leases
  BY DEF Store
<1> DEFINE l == [leases[i] EXCEPT !.fresh = TRUE]
<1>2. /\ l \in Leases /\ l.path = leases[i].path /\ l.thread = leases[i].thread
      /\ l.task = leases[i].task
      /\ l.active = leases[i].active /\ l.session = leases[i].session
      /\ l.active => leases[i].active
  BY <1>1 DEF Leases
<1>3. Renewed(i) = [leases EXCEPT ![i] = l]
  BY <1>1 DEF Renewed
<1> HIDE DEF l
<1> DEFINE us == [leases EXCEPT ![i] = l]
<1>4. /\ Grows(leases, us) /\ Len(us) = Len(leases) /\ us[i] = l
      /\ \A j \in 1 .. Len(leases) : j # i => us[j] = leases[j]
  BY <1>2, SetStore
<1> HIDE DEF us
<1>5. Renewed(i) = us
  BY <1>3 DEF us
<1> QED
  BY <1>2, <1>4, <1>5

LEMMA EndedStore ==
  ASSUME Store(leases), NEW i \in 1 .. Len(leases)
  PROVE  LET us == [leases EXCEPT ![i].active = FALSE]
         IN /\ Grows(leases, us) /\ Len(us) = Len(leases) /\ ~us[i].active
            /\ \A j \in 1 .. Len(leases) : us[j].session = leases[j].session
            /\ \A j \in 1 .. Len(leases) : j # i => us[j] = leases[j]
<1>1. leases \in Seq(Leases) /\ leases[i] \in Leases
  BY DEF Store
<1> DEFINE l == [leases[i] EXCEPT !.active = FALSE]
<1>2. /\ l \in Leases /\ l.path = leases[i].path /\ l.thread = leases[i].thread
      /\ l.task = leases[i].task
      /\ l.active = FALSE /\ l.session = leases[i].session
  BY <1>1 DEF Leases
<1>3. [leases EXCEPT ![i].active = FALSE] = [leases EXCEPT ![i] = l]
  BY <1>1
<1> HIDE DEF l
<1> QED
  BY <1>1, <1>2, <1>3, SetStore

LEMMA BoundStore ==
  ASSUME NEW ls, Store(ls), NEW i \in 1 .. Len(ls), ls[i].thread = "name",
         NEW h \in Harness \union {None}
  PROVE  /\ Grows(ls, Bound(ls, i, h)) /\ Len(Bound(ls, i, h)) = Len(ls)
         /\ \A j \in 1 .. Len(ls) :
              /\ Bound(ls, i, h)[j].active = ls[j].active
              /\ j # i => Bound(ls, i, h)[j].session = ls[j].session
<1>1. ls \in Seq(Leases) /\ ls[i] \in Leases
  BY DEF Store
<1> DEFINE l == [ls[i] EXCEPT !.session = h, !.pid = h, !.fresh = TRUE]
<1>2. /\ l \in Leases /\ l.path = ls[i].path /\ l.thread = ls[i].thread /\ l.task = ls[i].task
      /\ l.active = ls[i].active /\ l.thread = "name"
  BY <1>1 DEF Leases
<1>3. Bound(ls, i, h) = [ls EXCEPT ![i] = l]
  BY <1>1 DEF Bound
<1> HIDE DEF l
<1> DEFINE us == [ls EXCEPT ![i] = l]
<1>4. /\ Grows(ls, us) /\ Len(us) = Len(ls) /\ us[i] = l
      /\ \A j \in 1 .. Len(ls) : j # i => us[j] = ls[j]
  BY <1>2, SetStore
<1> HIDE DEF us
<1>5. Bound(ls, i, h) = us
  BY <1>3 DEF us
<1> QED
  BY <1>2, <1>4, <1>5

LEMMA GrownStore ==
  ASSUME NEW ls, Store(ls), NEW l \in Leases, l.path = None \/ NeedsHarness(l) => l.thread = "name"
  PROVE  LET us == Append(ls, l)
         IN /\ Grows(ls, us) /\ Len(us) = Len(ls) + 1 /\ us[Len(ls) + 1] = l
            /\ \A j \in 1 .. Len(ls) : us[j] = ls[j]
<1> DEFINE us == Append(ls, l)
<1>1. us \in Seq(Leases) /\ Len(us) = Len(ls) + 1 /\ us[Len(ls) + 1] = l /\ Len(ls) \in Nat
      /\ \A j \in 1 .. Len(ls) : us[j] = ls[j]
  BY DEF Store
<1> HIDE DEF us
<1>2. \A j \in 1 .. Len(us) : j \in 1 .. Len(ls) \/ j = Len(ls) + 1
  BY <1>1
<1>3. Store(us)
  BY <1>1, <1>2 DEF Store
<1>4. Grows(ls, us)
  BY <1>1, <1>3 DEF Grows
<1> QED
  BY <1>1, <1>4 DEF us

LEMMA GrowsTwice ==
  ASSUME NEW ls, NEW us, NEW vs, Store(ls), Grows(ls, us), Grows(us, vs)
  PROVE  Grows(ls, vs)
  BY DEF Store, Grows

-----------------------------------------------------------------------------
(* The owners of a checkout.                                               *)

(* Nothing active is left in the way of a new lease of a checkout, or of a  *)
(* thread without one                                                       *)
Free(ls, thread, d) ==
  \A i \in 1 .. Len(ls) :
    ls[i].active => IF ls[i].path # None /\ d # None THEN ls[i].path # d ELSE ls[i].thread # thread

LEMMA NoOwners ==
  ASSUME NEW ls, Store(ls), NEW d, NEW thread, Owners(ls, thread, d) = {}
  PROVE  Free(ls, thread, d)
<1>1. DOMAIN ls = 1 .. Len(ls)
  BY DEF Store
<1> QED
  BY <1>1 DEF Owners, Conflicts, Free

LEMMA SoleKept ==
  ASSUME NEW us, Store(leases), Grows(leases, us), Len(us) = Len(leases), Sole(leases)
  PROVE  Sole(us)
  BY DEF Store, Grows, Sole

LEMMA SoleGrown ==
  ASSUME NEW ls, NEW l \in Leases, Store(ls), Sole(ls), Free(ls, l.thread, l.path),
         l.path = None \/ NeedsHarness(l) => l.thread = "name"
  PROVE  Sole(Append(ls, l))
<1> DEFINE us == Append(ls, l)
<1>1. /\ Len(ls) \in Nat /\ Len(us) = Len(ls) + 1 /\ us[Len(ls) + 1] = l
      /\ \A j \in 1 .. Len(ls) : us[j] = ls[j]
  BY GrownStore DEF Grows, Store
<1>2. \A j \in 1 .. Len(ls) : ls[j] \in Leases /\ (ls[j].path = None => ls[j].thread = "name")
  BY DEF Store
<1>3. \A j \in 1 .. Len(ls) : ls[j].thread \in {"name", "id"} /\ l.thread \in {"name", "id"}
  BY <1>2 DEF Leases
<1> HIDE DEF us
<1>4. \A i \in 1 .. Len(us) : i \in 1 .. Len(ls) \/ i = Len(ls) + 1
  BY <1>1
<1>5. ASSUME NEW j \in 1 .. Len(ls), ls[j].active, l.active
      PROVE  /\ IF l.path = None THEN ls[j].thread = "id" ELSE l.path # ls[j].path
             /\ IF ls[j].path = None THEN l.thread = "id" ELSE ls[j].path # l.path
  BY <1>2, <1>3, <1>5 DEF Free
<1>6. ASSUME NEW i \in 1 .. Len(us), NEW j \in 1 .. Len(us), i # j, us[i].active, us[j].active
      PROVE  IF us[i].path = None THEN us[j].thread = "id" ELSE us[i].path # us[j].path
  <2>1. CASE i \in 1 .. Len(ls) /\ j \in 1 .. Len(ls)
    BY <1>1, <1>6, <2>1 DEF Sole
  <2>2. CASE i \in 1 .. Len(ls) /\ j = Len(ls) + 1
    BY <1>1, <1>5, <1>6, <2>2
  <2>3. CASE i = Len(ls) + 1 /\ j \in 1 .. Len(ls)
    BY <1>1, <1>5, <1>6, <2>3
  <2> QED
    BY <1>4, <1>6, <2>1, <2>2, <2>3
<1>7. Sole(us)
  BY <1>6 DEF Sole
<1> QED
  BY <1>7 DEF us

-----------------------------------------------------------------------------
(* A command goes on *)
LEMMA AtSet ==
  ASSUME NEW c \in Cmds,
         NEW a \in {"idle", "wait", "do", "write", "bind", "clean", "hooks", "auth", "claim",
                    "mutate"}
  PROVE  LET e == [c EXCEPT !.at = a]
         IN e \in Cmds /\ e.at = a /\ e.op = c.op /\ e.dir = c.dir /\ e.lease = c.lease
            /\ e.pid = c.pid
  BY DEF Cmds

-----------------------------------------------------------------------------
(* The steps that leave the leases as they are *)
LEMMA QuietStep ==
  ASSUME IInv,
         \/ \E p \in Proc :
              \/ StartReserve(p) \/ StartFanout(p) \/ Lock(p) \/ WriteCredential(p)
              \/ StartRelease(p) \/ Clean(p) \/ StartHook(p) \/ StartSave(p) \/ SaveLock(p)
              \/ DeviceLock(p) \/ Crash(p) \/ Restart(p)
         \/ \E h \in Harness : HarnessExits(h)
  PROVE  IInv'
<1>a. /\ Types /\ Holding /\ Named /\ SoleOwner /\ Admitted /\ ReleaseInv
      /\ Len(leases) \in Nat /\ DOMAIN leases = 1 .. Len(leases)
      /\ leases \in [1 .. Len(leases) -> Leases]
  BY DEF IInv, TypeInv, OwnerInv, Types, Store
<1>b. leases' = leases
  BY DEF StartReserve, StartFanout, Lock, WriteCredential, StartRelease, Clean, StartHook,
     StartSave, SaveLock, DeviceLock, Crash, Restart, HarnessExits
<1> USE <1>a, LeaseAssumption DEF Cmds, Idle, HasLock, HasLease, HasOwnLease, WillWrite, Placed,
         Covers
<1>1. ASSUME NEW p \in Proc, StartReserve(p) PROVE IInv'
  <2>a. PICK d \in Path \union {None}, pid \in Harness \union {None} :
          Start(p, "reserve", d, 0, pid)
    BY <1>1 DEF StartReserve
  <2>p. PICK a \in {"wait", "do"} : a = IF d = None THEN "do" ELSE "wait"
    OBVIOUS
  <2>b. /\ proc[p] = Idle /\ p \in alive /\ UNCHANGED <<cred, lock, alive, released>>
        /\ proc' = [proc EXCEPT ![p] = [at |-> a, op |-> "reserve", dir |-> d,
                                        lease |-> 0, pid |-> pid]]
        /\ a = "do" <=> d = None
    BY <2>a, <2>p DEF Start
  <2>1. Types'
    BY <1>b, <2>b DEF Types, Store
  <2>2. Holding'
    BY <1>b, <2>b DEF Types, Holding
  <2>3. Named'
    BY <1>b, <2>b DEF Types, Named, Holding
  <2>4. OwnerInv'
    BY <1>b, <2>b DEF Types, OwnerInv, SoleOwner, Sole, Admitted, Admits, NeedsHarness
  <2>5. ReleaseInv'
    BY <1>b, <2>b DEF Types, Named, ReleaseInv, ReleasedGone
  <2> QED
    BY <2>1, <2>2, <2>3, <2>4, <2>5 DEF IInv, TypeInv
<1>2. ASSUME NEW p \in Proc, StartFanout(p) PROVE IInv'
  <2> USE <1>2, <1>b DEF StartFanout, Start
  <2>1. Types'
    BY DEF Types, Store, Leases, Named, Holding
  <2>2. Holding'
    BY DEF Types, Store, Leases, Holding
  <2>3. Named'
    BY DEF Types, Named, Holding
  <2>4. OwnerInv'
    BY DEF Types, OwnerInv, SoleOwner, Sole, Admitted, Admits, NeedsHarness
  <2>5. ReleaseInv'
    BY DEF Types, Named, ReleaseInv, ReleasedGone
  <2> QED
    BY <2>1, <2>2, <2>3, <2>4, <2>5 DEF IInv, TypeInv
<1>3. ASSUME NEW p \in Proc, Lock(p) PROVE IInv'
  <2>a. /\ proc[p].at = "wait" /\ proc[p].dir \in Path /\ lock[proc[p].dir] = None
        /\ UNCHANGED <<cred, alive, released>> /\ lock' = [lock EXCEPT ![proc[p].dir] = p]
        /\ proc' = [proc EXCEPT ![p] = [proc[p] EXCEPT !.at = "do"]]
    BY <1>3 DEF Lock, Holding
  <2>1. Types'
    <3>1. [proc[p] EXCEPT !.at = "do"] \in Cmds
      <4> HIDE <1>a DEF Cmds
      <4>1. proc[p] \in Cmds
        BY <1>a DEF Types
      <4> QED
        BY <4>1, AtSet
    <3>2. proc' \in [Proc -> Cmds]
      BY <2>a, <3>1 DEF Types
    <3>3. lock' \in [Path -> Proc \union {None}]
      BY <2>a DEF Types
    <3> QED
      BY <1>b, <2>a, <3>2, <3>3 DEF Types, Store
  <2>2. Holding'
    BY <1>b, <2>a DEF Types, Holding
  <2>3. Named'
    BY <1>b, <2>a DEF Types, Named, Holding
  <2>4. OwnerInv'
    BY <1>b, <2>a DEF Types, OwnerInv, SoleOwner, Sole, Admitted, Admits, NeedsHarness
  <2>5. ReleaseInv'
    BY <1>b, <2>a DEF Types, Named, ReleaseInv, ReleasedGone
  <2> QED
    BY <2>1, <2>2, <2>3, <2>4, <2>5 DEF IInv, TypeInv
<1>4. ASSUME NEW p \in Proc, WriteCredential(p) PROVE IInv'
  <2>a. /\ proc[p].at = "write" /\ proc[p].dir \in Path /\ lock[proc[p].dir] = p
        /\ proc[p].lease \in 1 .. Len(leases) /\ leases[proc[p].lease].thread = "name"
        /\ leases[proc[p].lease].path \in {proc[p].dir, None}
        /\ leases[proc[p].lease].path # None => proc[p].lease \notin released
    BY <1>4, LeaseAssumption DEF WriteCredential, Holding, Named, ReleaseInv
  <2>b. /\ cred' = [cred EXCEPT ![proc[p].dir] = proc[p].lease]
        /\ released' = released /\ alive' = alive
        /\ proc' = [proc EXCEPT ![p] = Idle]
        /\ lock' = [lock EXCEPT ![proc[p].dir] = None]
    BY <1>4, <2>a DEF WriteCredential, End, Unlocked
  <2>1. Types'
    BY <1>b, <2>a, <2>b DEF Types, Store, Named
  <2>2. Holding'
    BY <1>b, <2>a, <2>b DEF Types, Holding
  <2>3. Named'
    BY <1>b, <2>a, <2>b DEF Types, Named, Holding
  <2>4. OwnerInv'
    BY <1>b, <2>a, <2>b DEF Types, OwnerInv, SoleOwner, Sole, Admitted, Admits, NeedsHarness
  <2>5. ReleaseInv'
    BY <1>b, <2>a, <2>b DEF Types, Named, ReleaseInv, ReleasedGone
  <2> QED
    BY <2>1, <2>2, <2>3, <2>4, <2>5 DEF IInv, TypeInv
<1>5. ASSUME NEW p \in Proc, StartRelease(p) PROVE IInv'
  <2>a. PICK i \in 1 .. Len(leases) : Start(p, "release", leases[i].path, i, None)
    BY <1>5 DEF StartRelease
  <2>p. PICK d \in Path \union {None}, a \in {"wait", "do"} :
          d = leases[i].path /\ a = IF d = None THEN "do" ELSE "wait"
    <3>1. leases[i].path \in Path \union {None}
      BY DEF Leases
    <3> QED  BY <3>1
  <2>b. /\ proc[p] = Idle /\ p \in alive /\ UNCHANGED <<cred, lock, alive, released>>
        /\ proc' = [proc EXCEPT ![p] = [at |-> a, op |-> "release", dir |-> d,
                                        lease |-> i, pid |-> None]]
        /\ a = "do" <=> d = None
    BY <2>a, <2>p DEF Start
  <2>1. Types'
    BY <1>b, <2>b DEF Types, Store
  <2>2. Holding'
    BY <1>b, <2>b DEF Types, Holding
  <2>3. Named'
    BY <1>b, <2>b, <2>p DEF Types, Named, Holding
  <2>4. OwnerInv'
    BY <1>b, <2>b DEF Types, OwnerInv, SoleOwner, Sole, Admitted, Admits, NeedsHarness
  <2>5. ReleaseInv'
    BY <1>b, <2>b DEF Types, Named, ReleaseInv, ReleasedGone
  <2> QED
    BY <2>1, <2>2, <2>3, <2>4, <2>5 DEF IInv, TypeInv
<1>6. ASSUME NEW p \in Proc, Clean(p) PROVE IInv'
  <2>p. PICK d \in Path \union {None}, k \in 1 .. Len(leases) : d = proc[p].dir /\ k = proc[p].lease
    BY <1>6 DEF Clean, Holding, Named
  <2>a. /\ proc[p].at = "clean" /\ (d \in Path => lock[d] = p)
        /\ leases[k].path \in {d, None} /\ ~leases[k].active
    BY <1>6, <2>p DEF Clean, Holding, Named, ReleaseInv
  <2>b. /\ cred' = [e \in Path |-> IF e = d /\ cred[e] = k THEN 0 ELSE cred[e]]
        /\ released' = released \union {k} /\ alive' = alive
        /\ proc' = [proc EXCEPT ![p] = Idle]
        /\ lock' = IF d = None THEN lock ELSE [lock EXCEPT ![d] = None]
    BY <1>6, <2>a, <2>p DEF Clean, Cleaned, End, Unlocked
  <2>1. Types'
    BY <1>b, <2>b DEF Types, Store, Named
  <2>2. Holding'
    <3>0. /\ proc'[p] = Idle /\ \A q \in Proc : q # p => proc'[q] = proc[q]
          /\ alive' = alive /\ Idle.at = "idle"
      BY <2>b DEF Types
    <3>1. CASE d = None
      <4>1. lock' = lock /\ proc[p].dir \notin Path
        BY <2>p, <2>b, <3>1
      <4>2. \A e \in Path, q \in Proc : lock'[e] = q <=> proc'[q].at \in HasLock /\ proc'[q].dir = e
        <5> SUFFICES ASSUME NEW e \in Path, NEW q \in Proc
                     PROVE  lock'[e] = q <=> proc'[q].at \in HasLock /\ proc'[q].dir = e
          OBVIOUS
        <5>1. lock[e] = q <=> proc[q].at \in HasLock /\ proc[q].dir = e
          BY DEF Holding
        <5> QED  BY <3>0, <4>1, <5>1
      <4>3. \A q \in Proc : proc'[q].at # "idle" => Placed(proc'[q]) /\ q \in alive'
        BY <3>0 DEF Holding
      <4> QED
        BY <4>2, <4>3 DEF Holding
    <3>2. CASE d # None
      BY <1>b, <2>p, <2>a, <2>b, <3>2 DEF Types, Holding
    <3> QED  BY <3>1, <3>2
  <2>3. Named'
    <3>1. \A q \in Proc : proc'[q] = IF q = p THEN Idle ELSE proc[q]
      BY <2>b DEF Types
    <3>2. \A e \in Path : cred'[e] \in {0, cred[e]}
      BY <2>b
    <3> QED
      BY <1>b, <3>1, <3>2 DEF Named
  <2>4. OwnerInv'
    BY <1>b, <2>b DEF Types, OwnerInv, SoleOwner, Sole, Admitted, Admits, NeedsHarness
  <2>5. ReleaseInv'
    <3>1. \A i \in released' : ~leases'[i].active
      BY <1>b, <2>a, <2>b DEF ReleaseInv
    <3>2. ASSUME NEW q \in Proc, proc'[q].at = "write", leases'[proc'[q].lease].path # None
          PROVE  proc'[q].lease \notin released'
      <4>1. q # p /\ proc'[q] = proc[q] /\ proc[q].at = "write"
        BY <2>b, <3>2 DEF Types
      <4>2. /\ leases[proc[q].lease].path = proc[q].dir /\ proc[q].dir \in Path
            /\ lock[proc[q].dir] = q
        BY <1>b, <3>2, <4>1 DEF Named, Holding
      <4>3. proc[q].lease # k
        BY <2>a, <4>1, <4>2
      <4> QED
        BY <1>b, <2>b, <3>2, <4>1, <4>3 DEF ReleaseInv
    <3>3. \A q \in Proc : proc'[q].at = "clean" => ~leases'[proc'[q].lease].active
      BY <1>b, <2>b DEF Types, ReleaseInv
    <3>4. ASSUME NEW i \in released', leases'[i].path # None, NEW e \in Path PROVE cred'[e] # i
      <4>1. CASE i \in released
        <5>1. cred[e] # i /\ i # 0
          BY <1>b, <3>4, <4>1 DEF Types, ReleaseInv, ReleasedGone
        <5> QED  BY <2>b, <5>1
      <4>2. CASE i = k
        <5>1. leases[k].path = d /\ k # 0 /\ d # None
          BY <1>b, <2>a, <3>4, <4>2
        <5>2. cred[e] = k => leases[k].path \in {e, None}
          BY <5>1 DEF Named
        <5>3. cred[e] = k => e = d
          BY <5>1, <5>2
        <5> QED  BY <2>b, <4>2, <5>1, <5>3
      <4> QED  BY <2>b, <3>4, <4>1, <4>2
    <3> QED
      BY <3>1, <3>2, <3>3, <3>4 DEF ReleaseInv, ReleasedGone
  <2> QED
    BY <2>1, <2>2, <2>3, <2>4, <2>5 DEF IInv, TypeInv
<1>7. ASSUME NEW p \in Proc, StartHook(p) PROVE IInv'
  <2> USE <1>7, <1>b DEF StartHook, Start
  <2>1. Types'
    BY DEF Types, Store, Leases, Named, Holding
  <2>2. Holding'
    BY DEF Types, Store, Leases, Holding
  <2>3. Named'
    BY DEF Types, Named, Holding
  <2>4. OwnerInv'
    BY DEF Types, OwnerInv, SoleOwner, Sole, Admitted, Admits, NeedsHarness
  <2>5. ReleaseInv'
    BY DEF Types, Named, ReleaseInv, ReleasedGone
  <2> QED
    BY <2>1, <2>2, <2>3, <2>4, <2>5 DEF IInv, TypeInv
<1>8. ASSUME NEW p \in Proc, StartSave(p) PROVE IInv'
  <2>a. PICK d \in Path :
          proc' = [proc EXCEPT ![p] = [at |-> "hooks", op |-> "save", dir |-> d,
                                       lease |-> cred[d], pid |-> None]]
    BY <1>8 DEF StartSave
  <2>b. proc[p] = Idle /\ p \in alive /\ UNCHANGED <<cred, lock, alive, released>>
    BY <1>8 DEF StartSave
  <2>1. Types'
    BY <1>b, <2>a, <2>b DEF Types, Store, Named
  <2>2. Holding'
    BY <1>b, <2>a, <2>b DEF Types, Holding
  <2>3. Named'
    BY <1>b, <2>a, <2>b DEF Types, Named, Holding
  <2>4. OwnerInv'
    BY <1>b, <2>a, <2>b DEF Types, OwnerInv, SoleOwner, Sole, Admitted, Admits, NeedsHarness
  <2>5. ReleaseInv'
    BY <1>b, <2>a, <2>b DEF Types, Named, ReleaseInv, ReleasedGone
  <2> QED
    BY <2>1, <2>2, <2>3, <2>4, <2>5 DEF IInv, TypeInv
<1>9. ASSUME NEW p \in Proc, SaveLock(p) PROVE IInv'
  <2>a. proc[p].at = "hooks" /\ proc[p].dir \in Path /\ UNCHANGED <<cred, alive, released>>
    BY <1>9 DEF SaveLock, Holding
  <2>1. CASE proc' = [proc EXCEPT ![p] = Idle] /\ lock' = lock
    <3>1. Types'
      BY <1>b, <2>a, <2>1 DEF Types, Store
    <3>2. Holding'
      BY <1>b, <2>a, <2>1 DEF Types, Holding
    <3>3. Named'
      BY <1>b, <2>a, <2>1 DEF Types, Named, Holding
    <3>4. OwnerInv'
      BY <1>b, <2>a, <2>1 DEF Types, OwnerInv, SoleOwner, Sole, Admitted, Admits, NeedsHarness
    <3>5. ReleaseInv'
      BY <1>b, <2>a, <2>1 DEF Types, Named, ReleaseInv, ReleasedGone
    <3> QED
      BY <3>1, <3>2, <3>3, <3>4, <3>5 DEF IInv, TypeInv
  <2>2. CASE /\ lock[proc[p].dir] = None /\ cred[proc[p].dir] = proc[p].lease
             /\ lock' = [lock EXCEPT ![proc[p].dir] = p]
             /\ proc' = [proc EXCEPT ![p].at = IF cred[proc[p].dir] = 0 THEN "claim" ELSE "auth"]
    <3> DEFINE c == [proc[p] EXCEPT !.at = IF cred[proc[p].dir] = 0 THEN "claim" ELSE "auth"]
    <3>a. /\ c \in Cmds /\ c.dir = proc[p].dir /\ c.lease = proc[p].lease
          /\ c.at \in {"claim", "auth"} /\ (c.at = "auth" => cred[proc[p].dir] # 0)
      BY <2>a DEF Types
    <3>b. proc' = [proc EXCEPT ![p] = c]
      BY <2>2 DEF Types
    <3> HIDE DEF c
    <3>c. proc' \in [Proc -> Cmds] /\ proc'[p] = c /\ \A q \in Proc : q # p => proc'[q] = proc[q]
      BY <3>a, <3>b DEF Types
    <3>1. Types'
      BY <1>b, <2>a, <2>2, <3>a, <3>c DEF Types, Store
    <3>2. Holding'
      BY <1>b, <2>a, <2>2, <3>a, <3>c DEF Types, Holding
    <3>3. Named'
      BY <1>b, <2>a, <2>2, <3>a, <3>c DEF Types, Named, Holding
    <3>4. OwnerInv'
      BY <1>b, <2>a, <2>2, <3>a, <3>c DEF Types, OwnerInv, SoleOwner, Sole, Admitted, Admits, NeedsHarness
    <3>5. ReleaseInv'
      BY <1>b, <2>a, <2>2, <3>a, <3>c DEF Types, Named, ReleaseInv, ReleasedGone
    <3> QED
      BY <3>1, <3>2, <3>3, <3>4, <3>5 DEF IInv, TypeInv
  <2> QED
    BY <1>9, <2>1, <2>2 DEF SaveLock
<1>10. ASSUME NEW p \in Proc, DeviceLock(p) PROVE IInv'
  <2>a. PICK d \in Path, i \in 1 .. Len(leases) :
          /\ lock[d] = None /\ lock' = [lock EXCEPT ![d] = p]
          /\ proc' = [proc EXCEPT ![p] = [at |-> "auth", op |-> "save", dir |-> d,
                                          lease |-> i, pid |-> None]]
    BY <1>10 DEF DeviceLock
  <2>b. proc[p] = Idle /\ p \in alive /\ UNCHANGED <<cred, alive, released>>
    BY <1>10 DEF DeviceLock
  <2>1. Types'
    <3> DEFINE c == [at |-> "auth", op |-> "save", dir |-> d, lease |-> i, pid |-> None]
    <3>1. c \in Cmds
      OBVIOUS
    <3> HIDE DEF c
    <3>2. proc' \in [Proc -> Cmds]
      BY <2>a, <3>1 DEF Types, c
    <3>3. lock' \in [Path -> Proc \union {None}]
      BY <2>a DEF Types
    <3> QED
      BY <1>b, <2>b, <3>2, <3>3 DEF Types, Store
  <2>2. Holding'
    BY <1>b, <2>a, <2>b DEF Types, Holding
  <2>3. Named'
    BY <1>b, <2>a, <2>b DEF Types, Named, Holding
  <2>4. OwnerInv'
    BY <1>b, <2>a, <2>b DEF Types, OwnerInv, SoleOwner, Sole, Admitted, Admits, NeedsHarness
  <2>5. ReleaseInv'
    BY <1>b, <2>a, <2>b DEF Types, Named, ReleaseInv, ReleasedGone
  <2> QED
    BY <2>1, <2>2, <2>3, <2>4, <2>5 DEF IInv, TypeInv
<1>11. ASSUME NEW p \in Proc, Crash(p) PROVE IInv'
  <2> USE <1>11, <1>b DEF Crash
  <2>1. Types'
    BY DEF Types, Store, Leases, Named, Holding
  <2>2. Holding'
    BY DEF Types, Store, Leases, Holding
  <2>3. Named'
    BY DEF Types, Named, Holding
  <2>4. OwnerInv'
    BY DEF Types, OwnerInv, SoleOwner, Sole, Admitted, Admits, NeedsHarness
  <2>5. ReleaseInv'
    BY DEF Types, Named, ReleaseInv, ReleasedGone
  <2> QED
    BY <2>1, <2>2, <2>3, <2>4, <2>5 DEF IInv, TypeInv
<1>12. ASSUME NEW p \in Proc, Restart(p) PROVE IInv'
  <2> USE <1>12, <1>b DEF Restart
  <2>1. Types'
    BY DEF Types, Store, Leases, Named, Holding
  <2>2. Holding'
    BY DEF Types, Store, Leases, Holding
  <2>3. Named'
    BY DEF Types, Named, Holding
  <2>4. OwnerInv'
    BY DEF Types, OwnerInv, SoleOwner, Sole, Admitted, Admits, NeedsHarness
  <2>5. ReleaseInv'
    BY DEF Types, Named, ReleaseInv, ReleasedGone
  <2> QED
    BY <2>1, <2>2, <2>3, <2>4, <2>5 DEF IInv, TypeInv
<1>13. ASSUME NEW h \in Harness, HarnessExits(h) PROVE IInv'
  <2> USE <1>13, <1>b DEF HarnessExits
  <2>1. Types'
    BY DEF Types, Store, Leases, Named, Holding
  <2>2. Holding'
    BY DEF Types, Store, Leases, Holding
  <2>3. Named'
    BY DEF Types, Named, Holding
  <2>4. OwnerInv'
    BY DEF Types, OwnerInv, SoleOwner, Sole, Admitted, Admits, NeedsHarness
  <2>5. ReleaseInv'
    BY DEF Types, Named, ReleaseInv, ReleasedGone
  <2> QED
    BY <2>1, <2>2, <2>3, <2>4, <2>5 DEF IInv, TypeInv
<1> QED
  BY <1>1, <1>2, <1>3, <1>4, <1>5, <1>6, <1>7, <1>8, <1>9, <1>10, <1>11,
     <1>12, <1>13

-----------------------------------------------------------------------------
(* A lease is ended, or bound to a session, only by the holder of the lock  *)
(* of its checkout, or while nobody holds that lock, and a new one is made  *)
(* only then                                                                *)
Respected(p, us) ==
  /\ \A i \in 1 .. Len(leases) :
       leases[i].path \in Path /\ lock[leases[i].path] \in Proc \ {p} =>
         /\ leases[i].active => us[i].active
         /\ us[i].session = leases[i].session
  /\ \A i \in 1 .. Len(us) :
       i > Len(leases) /\ us[i].path \in Path => lock[us[i].path] \notin Proc \ {p}

(* What the command of process p becomes: it keeps the lock, or it ends     *)
Commands(p) ==
  /\ proc' \in [Proc -> Cmds] /\ \A q \in Proc \ {p} : proc'[q] = proc[q]
  /\ \/ p \in Proc /\ proc[p].at \in HasLock /\ proc'[p] = Idle /\ lock' = Unlocked(p)
     \/ /\ lock' = lock
        /\ p \in Proc => \/ /\ proc[p].at \in HasLock /\ proc'[p].at \in HasLock
                            /\ proc'[p].dir = proc[p].dir
                         \/ proc[p].at \notin HasLock /\ proc'[p].at \notin HasLock
        /\ p \in Proc /\ proc'[p].at # "idle" => Placed(proc'[p]) /\ p \in alive

LEMMA HoldingKept ==
  ASSUME Types, Holding, NEW p, Commands(p), alive' = alive
  PROVE  Holding' /\ lock' \in [Path -> Proc \union {None}]
<1>1. /\ proc \in [Proc -> Cmds] /\ proc' \in [Proc -> Cmds]
      /\ lock \in [Path -> Proc \union {None}] /\ None \notin Proc /\ None \notin Path
      /\ \A q \in Proc \ {p} : proc'[q] = proc[q]
      /\ \A d \in Path, q \in Proc : lock[d] = q <=> proc[q].at \in HasLock /\ proc[q].dir = d
      /\ \A q \in Proc : proc[q].at # "idle" => Placed(proc[q]) /\ q \in alive
  BY LeaseAssumption DEF Types, Commands, Holding
<1>2. CASE p \in Proc /\ proc[p].at \in HasLock /\ proc'[p] = Idle /\ lock' = Unlocked(p)
  <2>1. proc[p].dir \in Path \union {None} /\ proc'[p].at = "idle" /\ "idle" \notin HasLock
    BY <1>1, <1>2 DEF HasLock, Idle, Placed
  <2>2. /\ lock' \in [Path -> Proc \union {None}]
        /\ \A d \in Path : lock'[d] = IF d = proc[p].dir THEN None ELSE lock[d]
    BY <1>1, <1>2, <2>1 DEF Unlocked
  <2>3. ASSUME NEW d \in Path, NEW q \in Proc
        PROVE  lock'[d] = q <=> proc'[q].at \in HasLock /\ proc'[q].dir = d
    <3>1. CASE q = p
      <4>1. lock'[d] # p
        BY <1>1, <1>2, <2>2, <3>1
      <4> QED
        BY <2>1, <3>1, <4>1
    <3>2. CASE q # p
      <4>1. proc'[q] = proc[q] /\ (proc[p].dir = d => lock[d] = p)
        BY <1>1, <1>2, <2>1, <3>2
      <4> QED
        BY <1>1, <2>2, <3>2, <4>1
    <3> QED
      BY <3>1, <3>2
  <2>4. \A q \in Proc : proc'[q].at # "idle" => Placed(proc'[q]) /\ q \in alive'
    BY <1>1, <2>1
  <2> QED
    BY <2>2, <2>3, <2>4 DEF Holding
<1>3. CASE /\ lock' = lock
           /\ p \in Proc => \/ /\ proc[p].at \in HasLock /\ proc'[p].at \in HasLock
                               /\ proc'[p].dir = proc[p].dir
                            \/ proc[p].at \notin HasLock /\ proc'[p].at \notin HasLock
           /\ p \in Proc /\ proc'[p].at # "idle" => Placed(proc'[p]) /\ p \in alive
  <2>1. ASSUME NEW d \in Path, NEW q \in Proc
        PROVE  lock'[d] = q <=> proc'[q].at \in HasLock /\ proc'[q].dir = d
    BY <1>1, <1>3
  <2>2. \A q \in Proc : proc'[q].at # "idle" => Placed(proc'[q]) /\ q \in alive'
    BY <1>1, <1>3
  <2> QED
    BY <1>1, <1>3, <2>1, <2>2 DEF Holding
<1> QED
  BY <1>2, <1>3 DEF Commands

(* The steps that change the leases, for process p or, with None, for none *)
LEMMA LeaseStep ==
  ASSUME IInv, NEW p, Commands(p), Respected(p, leases'),
         Grows(leases, leases'), Len(leases') <= MaxLeases, SoleOwner',
         UNCHANGED <<cred, alive, released>>,
         p \in Proc =>
           /\ HasLease(p)' => proc'[p].lease \in 1 .. Len(leases')
           /\ HasOwnLease(p)' => Covers(leases'[proc'[p].lease], proc'[p].dir)
           /\ WillWrite(proc'[p]) => leases'[proc'[p].lease].thread = "name"
           /\ proc'[p].at = "mutate" => Admits(p, proc'[p], leases')
           /\ proc'[p].at = "clean" => ~leases'[proc'[p].lease].active
           /\ proc'[p].at = "write" => proc'[p].lease \notin released
  PROVE  IInv'
<1>1. /\ Types /\ Holding /\ Named /\ SoleOwner /\ Admitted /\ ReleaseInv
      /\ Len(leases) \in Nat /\ Len(leases') \in Nat /\ Len(leases) <= Len(leases')
      /\ 1 .. Len(leases) \subseteq 1 .. Len(leases')
      /\ \A i \in 1 .. Len(leases) : /\ leases'[i].path = leases[i].path
                                     /\ leases'[i].thread = leases[i].thread
                                     /\ leases'[i].task = leases[i].task
                                     /\ leases'[i].active => leases[i].active
  <2>1. /\ Types /\ Holding /\ Named /\ SoleOwner /\ Admitted /\ ReleaseInv
        /\ Len(leases) \in Nat
    BY DEF IInv, TypeInv, OwnerInv, Types, Store
  <2>2. Len(leases') \in Nat /\ Len(leases) <= Len(leases')
    BY DEF Grows, Store
  <2> QED
    BY <2>1, <2>2 DEF Grows
<1>2. Holding' /\ lock' \in [Path -> Proc \union {None}]
  BY <1>1, HoldingKept
<1>3. Types'
  BY <1>1, <1>2 DEF Types, Commands, Grows
<1>4. ASSUME NEW q \in Proc, q # p PROVE proc'[q] = proc[q]
  BY <1>4 DEF Commands
<1>5. Named'
  <2>1. ASSUME NEW q \in Proc, HasLease(q)' PROVE proc'[q].lease \in 1 .. Len(leases')
    BY <1>1, <1>4, <2>1 DEF Named, HasLease
  <2>2. ASSUME NEW q \in Proc, HasOwnLease(q)'
        PROVE Covers(leases'[proc'[q].lease], proc'[q].dir)
    <3>1. CASE q = p
      BY <2>2, <3>1
    <3>2. CASE q # p
      <4>1. HasOwnLease(q) /\ HasLease(q) /\ proc'[q] = proc[q]
        BY <1>4, <2>2, <3>2 DEF HasOwnLease, HasLease
      <4> QED
        BY <1>1, <4>1 DEF Named, Covers
    <3> QED
      BY <3>1, <3>2
  <2>3. ASSUME NEW q \in Proc, WillWrite(proc'[q])
        PROVE  leases'[proc'[q].lease].thread = "name"
    <3>1. CASE q = p
      BY <2>3, <3>1
    <3>2. CASE q # p
      <4>1. WillWrite(proc[q]) /\ HasLease(q) /\ proc'[q] = proc[q]
        BY <1>4, <2>3, <3>2 DEF WillWrite, HasLease
      <4> QED
        BY <1>1, <4>1 DEF Named
    <3> QED
      BY <3>1, <3>2
  <2>4. \A d \in Path : cred'[d] # 0 => /\ cred'[d] \in 1 .. Len(leases')
                                       /\ Covers(leases'[cred'[d]], d)
                                       /\ leases'[cred'[d]].thread = "name"
    BY <1>1 DEF Named, Covers
  <2> QED
    BY <2>1, <2>2, <2>3, <2>4 DEF Named
<1>6. ASSUME NEW q \in Proc, proc'[q].at = "mutate"
      PROVE  Admits(q, proc'[q], leases')
  <2>1. CASE q = p
    BY <1>6, <2>1
  <2>2. CASE q # p
    <3>1. proc'[q] = proc[q] /\ proc[q].at = "mutate"
      BY <1>4, <1>6, <2>2
    <3>2. /\ proc[q].lease \in 1 .. Len(leases)
          /\ leases[proc[q].lease].path \in {proc[q].dir, None}
          /\ Admits(q, proc[q], leases)
      BY <1>1, <3>1 DEF Named, HasLease, HasOwnLease, Admitted, Covers
    <3>3. lock[proc[q].dir] = q /\ proc[q].dir \in Path
      BY <1>1, <3>1 DEF Holding, HasLock, Placed
    <3>4. CASE leases[proc[q].lease].path # None
      <4>1. /\ leases[proc[q].lease].active => leases'[proc[q].lease].active
            /\ leases'[proc[q].lease].session = leases[proc[q].lease].session
        BY <2>2, <3>2, <3>3, <3>4 DEF Respected
      <4> QED
        BY <1>1, <3>1, <3>2, <3>4, <4>1 DEF Admits, NeedsHarness
    <3>5. CASE leases[proc[q].lease].path = None
      <4>1. ASSUME NEW i \in 1 .. Len(leases'), leases'[i].active, leases'[i].path = proc[q].dir
            PROVE  ~NeedsHarness(leases'[i])
        <5>1. i <= Len(leases)
          BY <1>1, <2>2, <3>3, <4>1 DEF Respected
        <5>2. i \in 1 .. Len(leases) /\ leases[i].active /\ leases[i].path = proc[q].dir
          BY <1>1, <4>1, <5>1
        <5>3. leases'[i].session = leases[i].session /\ leases'[i].task = leases[i].task
          BY <1>1, <2>2, <3>3, <5>2 DEF Respected
        <5>4. ~NeedsHarness(leases[i])
          BY <3>2, <3>5, <5>2 DEF Admits
        <5> QED
          BY <5>3, <5>4 DEF NeedsHarness
      <4> QED
        BY <1>1, <3>1, <3>2, <3>5, <4>1 DEF Admits
    <3> QED
      BY <3>4, <3>5
  <2> QED
    BY <2>1, <2>2
<1>7. OwnerInv'
  BY <1>6 DEF OwnerInv, Admitted
<1>8. ReleaseInv'
  <2>1. \A i \in released' : ~leases'[i].active
    BY <1>1 DEF ReleaseInv, Types
  <2>2. ASSUME NEW q \in Proc, proc'[q].at = "clean" PROVE ~leases'[proc'[q].lease].active
    <3>1. CASE q # p
      <4>1. proc'[q] = proc[q] /\ HasLease(q)
        BY <1>4, <2>2, <3>1 DEF HasLease
      <4> QED
        BY <1>1, <2>2, <4>1 DEF ReleaseInv, Named
    <3> QED
      BY <2>2, <3>1
  <2>3. ASSUME NEW q \in Proc, proc'[q].at = "write", leases'[proc'[q].lease].path # None
        PROVE  proc'[q].lease \notin released'
    <3>1. CASE q # p
      <4>1. proc'[q] = proc[q] /\ HasLease(q)
        BY <1>4, <2>3, <3>1 DEF HasLease
      <4>2. leases[proc[q].lease].path # None
        BY <1>1, <2>3, <4>1 DEF Named
      <4> QED
        BY <1>1, <2>3, <4>1, <4>2 DEF ReleaseInv
    <3> QED
      BY <2>3, <3>1
  <2>4. ReleasedGone'
    BY <1>1 DEF ReleaseInv, ReleasedGone, Types
  <2> QED
    BY <2>1, <2>2, <2>3, <2>4 DEF ReleaseInv
<1> QED
  BY <1>2, <1>3, <1>5, <1>7, <1>8 DEF IInv, TypeInv

(* The command of p ends with the step *)
LEMMA EndStep ==
  ASSUME IInv, NEW p \in Proc, proc[p].at \in HasLock, End(p), Respected(p, leases'),
         Grows(leases, leases'), Len(leases') <= MaxLeases, SoleOwner',
         UNCHANGED <<cred, alive, released>>
  PROVE  IInv'
<1>1. proc \in [Proc -> Cmds] /\ Idle \in Cmds
  BY DEF IInv, TypeInv, Types, Cmds, Idle
<1>2. proc' = [proc EXCEPT ![p] = Idle] /\ lock' = Unlocked(p) /\ proc'[p] = Idle
  BY <1>1 DEF End
<1>3. Commands(p)
  BY <1>1, <1>2 DEF Commands
<1>4. proc'[p].at = "idle" /\ ~HasLease(p)' /\ ~HasOwnLease(p)' /\ ~WillWrite(proc'[p])
  BY <1>2 DEF Idle, HasLease, HasOwnLease, WillWrite
<1> QED
  BY <1>3, <1>4, LeaseStep

(* No command goes on with the step *)
LEMMA StayStep ==
  ASSUME IInv, Respected(None, leases'), Grows(leases, leases'), Len(leases') <= MaxLeases,
         SoleOwner', UNCHANGED <<cred, lock, proc, alive, released>>
  PROVE  IInv'
<1>1. proc \in [Proc -> Cmds] /\ None \notin Proc
  BY LeaseAssumption DEF IInv, TypeInv, Types
<1>2. Commands(None)
  BY <1>1 DEF Commands
<1> QED
  BY <1>1, <1>2, LeaseStep

(* The command of p goes on, with the lock *)
LEMMA GoStep ==
  ASSUME IInv, NEW p \in Proc, proc[p].at \in HasLock, Respected(p, leases'),
         Grows(leases, leases'), Len(leases') <= MaxLeases, SoleOwner',
         UNCHANGED <<cred, lock, alive, released>>,
         NEW c \in Cmds, proc' = [proc EXCEPT ![p] = c], c.at \in HasLock, c.dir = proc[p].dir,
         Placed(c), c.lease \in 1 .. Len(leases'), Covers(leases'[c.lease], c.dir),
         WillWrite(c) => leases'[c.lease].thread = "name",
         c.at = "mutate" => Admits(p, c, leases'),
         c.at = "clean" => ~leases'[c.lease].active,
         c.at = "write" => c.lease \notin released
  PROVE  IInv'
<1>1. proc \in [Proc -> Cmds] /\ p \in alive
  BY DEF IInv, TypeInv, Types, Holding, HasLock
<1>2. proc'[p] = c
  BY <1>1
<1>3. Commands(p)
  BY <1>1, <1>2 DEF Commands
<1> QED
  BY <1>2, <1>3, LeaseStep

-----------------------------------------------------------------------------
(* What reaping does to the checkouts of others *)
LEMMA ReapRespects ==
  ASSUME IInv, NEW p, NEW d \in Path \union {None}, d \in Path => lock[d] = p
  PROVE  /\ Grows(leases, Reaped(d)) /\ Len(Reaped(d)) = Len(leases)
         /\ Respected(p, Reaped(d)) /\ Sole(Reaped(d))
<1> DEFINE ls == Reaped(d)
<1>1. /\ Store(leases) /\ SoleOwner /\ lock \in [Path -> Proc \union {None}]
      /\ Len(leases) \in Nat
  BY DEF IInv, TypeInv, OwnerInv, Types, Store
<1>2. /\ Grows(leases, ls) /\ Len(ls) = Len(leases)
      /\ \A i \in 1 .. Len(leases) :
           /\ ls[i].session = leases[i].session
           /\ ls[i].active <=> leases[i].active /\ ~Reapable(leases[i], d)
  BY <1>1, ReapedStore
<1> HIDE DEF ls
<1>3. ASSUME NEW i \in 1 .. Len(leases), leases[i].path \in Path,
             lock[leases[i].path] \in Proc \ {p}
      PROVE  ~Reapable(leases[i], d)
  BY <1>1, <1>3, LeaseAssumption DEF Reapable, Store
<1>4. Respected(p, ls)
  BY <1>1, <1>2, <1>3 DEF Respected
<1>5. Sole(ls)
  BY <1>1, <1>2, SoleKept DEF SoleOwner
<1> QED
  BY <1>2, <1>4, <1>5 DEF ls

(* A new lease for the checkout that p holds, or for a thread without one *)
LEMMA ClaimRespects ==
  ASSUME IInv, NEW p, NEW d \in Path \union {None}, d \in Path => lock[d] = p,
         NEW l \in Leases, l.path = d, l.path = None \/ NeedsHarness(l) => l.thread = "name",
         Owners(Reaped(d), l.thread, d) = {}, Len(leases) < MaxLeases,
         leases' = Append(Reaped(d), l)
  PROVE  /\ Grows(leases, leases') /\ Len(leases') <= MaxLeases
         /\ Len(leases') = Len(leases) + 1 /\ leases'[Len(leases) + 1] = l
         /\ Len(leases) + 1 \in 1 .. Len(leases') /\ Len(leases) + 1 \notin released
         /\ Respected(p, leases') /\ SoleOwner'
<1> DEFINE ls == Reaped(d)
<1>1. /\ Store(leases) /\ SoleOwner /\ None \notin Path /\ released \subseteq 1 .. Len(leases)
      /\ Len(leases) \in Nat /\ MaxLeases \in Nat
  BY LeaseAssumption DEF IInv, TypeInv, OwnerInv, Types, Store
<1>2. Grows(leases, ls) /\ Len(ls) = Len(leases) /\ Respected(p, ls) /\ Sole(ls)
  BY ReapRespects
<1>3. Store(ls) /\ Owners(ls, l.thread, d) = {} /\ leases' = Append(ls, l)
  BY <1>2 DEF Grows
<1> HIDE DEF ls
<1>4. Free(ls, l.thread, l.path)
  BY <1>3, NoOwners
<1>5. /\ Grows(ls, leases') /\ Len(leases') = Len(ls) + 1 /\ leases'[Len(ls) + 1] = l
      /\ \A j \in 1 .. Len(ls) : leases'[j] = ls[j]
  BY <1>3, GrownStore
<1>6. Grows(leases, leases')
  BY <1>1, <1>2, <1>5, GrowsTwice
<1>7. SoleOwner'
  <2>1. Sole(Append(ls, l))
    BY <1>2, <1>3, <1>4, SoleGrown
  <2> QED
    BY <1>3, <2>1 DEF SoleOwner
<1>8. Respected(p, leases')
  <2>1. \A i \in 1 .. Len(leases') : i > Len(leases) => i = Len(ls) + 1
    BY <1>1, <1>2, <1>5
  <2>2. l.path \in Path => lock[l.path] \notin Proc \ {p}
    OBVIOUS
  <2>3. \A i \in 1 .. Len(leases') :
          i > Len(leases) /\ leases'[i].path \in Path => lock[leases'[i].path] \notin Proc \ {p}
    BY <1>5, <2>1, <2>2
  <2> QED
    BY <1>2, <1>5, <2>3 DEF Respected
<1> QED
  BY <1>1, <1>2, <1>5, <1>6, <1>7, <1>8

(* What is set of one lease of a checkout that nobody else holds *)
LEMMA SetRespects ==
  ASSUME IInv, NEW p, Grows(leases, leases'), Len(leases') = Len(leases),
         NEW i \in 1 .. Len(leases),
         \A j \in 1 .. Len(leases) :
           j # i => /\ leases[j].active => leases'[j].active
                    /\ leases'[j].session = leases[j].session,
         \/ leases[i].path \in Path => lock[leases[i].path] = p
         \/ /\ leases[i].active => leases'[i].active
            /\ leases'[i].session = leases[i].session
  PROVE  Respected(p, leases') /\ SoleOwner' /\ Len(leases') <= MaxLeases
<1>1. Store(leases) /\ SoleOwner /\ Len(leases) <= MaxLeases /\ Len(leases) \in Nat
  BY DEF IInv, TypeInv, OwnerInv, Types, Store
<1>2. SoleOwner'
  BY <1>1, SoleKept DEF SoleOwner
<1>3. Respected(p, leases')
  BY <1>1 DEF Respected
<1> QED
  BY <1>1, <1>2, <1>3

LEMMA Locked ==
  ASSUME IInv, NEW p \in Proc, proc[p].at \in HasLock
  PROVE  /\ proc \in [Proc -> Cmds] /\ proc[p] \in Cmds
         /\ proc[p].dir \in Path \union {None} /\ (proc[p].dir \in Path => lock[proc[p].dir] = p)
         /\ Placed(proc[p]) /\ p \in alive
         /\ Store(leases) /\ Len(leases) \in Nat /\ Len(leases) <= MaxLeases
         /\ leases \in [1 .. Len(leases) -> Leases]
         /\ None \notin Path
  BY LeaseAssumption DEF IInv, TypeInv, Types, Holding, Store, HasLock, Placed

(* A new lease is claimed, for a command that ends or goes on with it *)
LEMMA ClaimStep ==
  ASSUME IInv, NEW p \in Proc, proc[p].at \in HasLock,
         NEW l \in Leases, l.path = proc[p].dir, l.active,
         l.path = None \/ NeedsHarness(l) => l.thread = "name",
         Owners(Reaped(proc[p].dir), l.thread, proc[p].dir) = {}, Len(leases) < MaxLeases,
         leases' = Append(Reaped(proc[p].dir), l), UNCHANGED <<cred, alive, released>>,
         \/ End(p)
         \/ \E c \in Cmds :
              /\ proc' = [proc EXCEPT ![p] = c] /\ lock' = lock
              /\ c.at \in {"write", "bind", "mutate"} /\ c.dir = proc[p].dir /\ c.dir \in Path
              /\ c.lease = Len(leases) + 1
              /\ IF c.at = "mutate" THEN ~NeedsHarness(l) ELSE l.thread = "name"
  PROVE  IInv'
<1>1. /\ proc[p].dir \in Path \union {None} /\ (proc[p].dir \in Path => lock[proc[p].dir] = p)
      /\ None \notin Path
  BY Locked
<1>2. /\ Grows(leases, leases') /\ Len(leases') <= MaxLeases
      /\ Len(leases') = Len(leases) + 1 /\ leases'[Len(leases) + 1] = l
      /\ Len(leases) + 1 \in 1 .. Len(leases') /\ Len(leases) + 1 \notin released
      /\ Respected(p, leases') /\ SoleOwner'
  BY <1>1, ClaimRespects
<1>3. CASE End(p)
  BY <1>2, <1>3, EndStep
<1>4. CASE ~End(p)
  <2>1. PICK c \in Cmds :
          /\ proc' = [proc EXCEPT ![p] = c] /\ lock' = lock
          /\ c.at \in {"write", "bind", "mutate"} /\ c.dir = proc[p].dir /\ c.dir \in Path
          /\ c.lease = Len(leases) + 1
          /\ IF c.at = "mutate" THEN ~NeedsHarness(l) ELSE l.thread = "name"
    BY <1>4
  <2>2. /\ c.at \in HasLock /\ c.at # "clean" /\ (c.at = "write" => c.lease \notin released)
        /\ Placed(c)
    BY <1>2, <2>1 DEF HasLock, Placed
  <2>3. /\ c.lease \in 1 .. Len(leases') /\ leases'[c.lease] = l
        /\ Covers(leases'[c.lease], c.dir)
    BY <1>2, <2>1 DEF Covers
  <2>4. c.at = "mutate" => Admits(p, c, leases')
    BY <1>1, <2>1, <2>3 DEF Admits
  <2>5. WillWrite(c) => leases'[c.lease].thread = "name"
    BY <2>1, <2>3 DEF WillWrite
  <2> QED
    BY <1>2, <2>1, <2>2, <2>3, <2>4, <2>5, GoStep
<1> QED
  BY <1>3, <1>4

(* Expired leases are retired by a command that then ends *)
LEMMA ReapStep ==
  ASSUME IInv, NEW p \in Proc, proc[p].at \in HasLock, leases' = Reaped(proc[p].dir), End(p),
         UNCHANGED <<cred, alive, released>>
  PROVE  IInv'
<1>1. /\ proc[p].dir \in Path \union {None} /\ (proc[p].dir \in Path => lock[proc[p].dir] = p)
      /\ Len(leases) <= MaxLeases
  BY Locked
<1>2. /\ Grows(leases, leases') /\ Len(leases') = Len(leases) /\ Respected(p, leases')
      /\ SoleOwner'
  BY <1>1, ReapRespects DEF SoleOwner
<1> QED
  BY <1>1, <1>2, EndStep

-----------------------------------------------------------------------------
(* The steps that reserve, bind, renew and release leases *)
LEMMA ReserveStep ==
  ASSUME IInv, NEW p \in Proc, Reserve(p) PROVE IInv'
<1>1. proc[p].at \in HasLock /\ proc[p].at = "do"
  BY DEF Reserve, Doing, HasLock
<1>2. /\ proc[p] \in Cmds /\ proc[p].dir \in Path \union {None}
      /\ proc[p].pid \in Proc \union Harness \union {None}
  BY <1>1, Locked DEF Cmds
<1>3. CASE leases' = Reaped(proc[p].dir)
  BY <1>1, <1>3, ReapStep DEF Reserve
<1>4. CASE Owners(Reaped(proc[p].dir), "name", proc[p].dir) = {}
  <2>1. PICK task \in BOOLEAN :
          leases' = Append(Reaped(proc[p].dir),
                           NewLease("name", proc[p].dir, task, proc[p].pid, None, TRUE))
    BY <1>4 DEF Reserve
  <2> DEFINE l == NewLease("name", proc[p].dir, task, proc[p].pid, None, TRUE)
  <2>2. l \in Leases /\ l.path = proc[p].dir /\ l.active /\ l.thread = "name"
    BY <1>2 DEF NewLease, Leases
  <2> HIDE DEF l
  <2>3. leases' = Append(Reaped(proc[p].dir), l)
    BY <2>1 DEF l
  <2>4. End(p) /\ UNCHANGED <<cred, alive, released>> /\ Len(leases) < MaxLeases
    BY DEF Reserve
  <2> QED
    BY <1>1, <1>4, <2>2, <2>3, <2>4, ClaimStep
<1> QED
  BY <1>3, <1>4 DEF Reserve

LEMMA FanoutStep ==
  ASSUME IInv, NEW p \in Proc, Fanout(p) PROVE IInv'
<1>1. /\ proc[p].at \in HasLock /\ UNCHANGED <<cred, alive, released>> /\ Len(leases) < MaxLeases
      /\ proc[p].op = "fanout"
  BY DEF Fanout, Doing, HasLock
<1>2. /\ proc[p] \in Cmds /\ proc[p].dir \in Path /\ proc \in [Proc -> Cmds]
      /\ Len(leases) \in Nat
  BY <1>1, Locked DEF Placed
<1>3. CASE leases' = Reaped(proc[p].dir) /\ End(p)
  BY <1>1, <1>3, ReapStep
<1>4. CASE ~(leases' = Reaped(proc[p].dir) /\ End(p))
  <2>1. /\ Owners(Reaped(proc[p].dir), "name", proc[p].dir) = {} /\ lock' = lock
        /\ leases' = Append(Reaped(proc[p].dir),
                            NewLease("name", proc[p].dir, TRUE, None, None, FALSE))
        /\ proc' = [proc EXCEPT ![p].at = "write", ![p].lease = Len(leases) + 1]
    BY <1>4 DEF Fanout
  <2>n. PICK n \in Nat : n = Len(leases) + 1
    BY <1>2
  <2> DEFINE l == NewLease("name", proc[p].dir, TRUE, None, None, FALSE)
             c == [proc[p] EXCEPT !.at = "write", !.lease = n]
  <2>2. l \in Leases /\ l.path = proc[p].dir /\ l.active /\ l.thread = "name"
    BY <1>2 DEF NewLease, Leases
  <2>3. /\ c \in Cmds /\ c.at = "write" /\ c.dir = proc[p].dir /\ c.lease = Len(leases) + 1
        /\ proc' = [proc EXCEPT ![p] = c]
    <3>1. c \in Cmds /\ c.at = "write" /\ c.dir = proc[p].dir /\ c.lease = n
      BY <1>2 DEF Cmds
    <3>2. proc' = [proc EXCEPT ![p] = c]
      BY <2>1, <2>n
    <3> QED
      BY <3>1, <3>2, <2>n
  <2> HIDE DEF l, c
  <2>4. leases' = Append(Reaped(proc[p].dir), l)
    BY <2>1 DEF l
  <2>5. \E e \in Cmds : /\ proc' = [proc EXCEPT ![p] = e] /\ lock' = lock
                       /\ e.at \in {"write", "bind", "mutate"} /\ e.dir = proc[p].dir /\ e.dir \in Path
                       /\ e.lease = Len(leases) + 1
                       /\ IF e.at = "mutate" THEN ~NeedsHarness(l) ELSE l.thread = "name"
    BY <1>2, <2>1, <2>2, <2>3
  <2> QED
    BY <1>1, <2>1, <2>2, <2>4, <2>5, ClaimStep
<1> QED
  BY <1>3, <1>4

LEMMA HookClaimStep ==
  ASSUME IInv, NEW p \in Proc, HookClaim(p) PROVE IInv'
<1>1. /\ proc[p].at \in HasLock /\ UNCHANGED <<cred, alive, released>> /\ Len(leases) < MaxLeases
      /\ proc[p].op = "hook"
  BY DEF HookClaim, Doing, HasLock
<1>2. /\ proc[p] \in Cmds /\ proc[p].dir \in Path /\ proc \in [Proc -> Cmds]
      /\ Len(leases) \in Nat /\ Parent[p] \in Proc \union Harness \union {None}
  BY <1>1, Locked, LeaseAssumption DEF Placed
<1>n. PICK n \in Nat : n = Len(leases) + 1
  BY <1>2
<1> DEFINE ls == Reaped(proc[p].dir)
           task == \E i \in DOMAIN ls : /\ ls[i].thread = "name" /\ ls[i].path = proc[p].dir
                                        /\ ls[i].task
           l == NewLease("name", proc[p].dir, task, Parent[p], None, FALSE)
           c == [proc[p] EXCEPT !.at = "bind", !.lease = n]
<1>3. task \in BOOLEAN
  OBVIOUS
<1>4. /\ Owners(ls, "name", proc[p].dir) = {} /\ lock' = lock
      /\ leases' = Append(ls, l)
      /\ proc' = [proc EXCEPT ![p].at = "bind", ![p].lease = Len(leases) + 1]
  BY DEF HookClaim
<1> HIDE DEF task
<1>5. l \in Leases /\ l.path = proc[p].dir /\ l.active /\ l.thread = "name"
  BY <1>2, <1>3 DEF NewLease, Leases
<1>6. /\ c \in Cmds /\ c.at = "bind" /\ c.dir = proc[p].dir /\ c.lease = Len(leases) + 1
      /\ proc' = [proc EXCEPT ![p] = c]
  <2>1. c \in Cmds /\ c.at = "bind" /\ c.dir = proc[p].dir /\ c.lease = n
    BY <1>2 DEF Cmds
  <2>2. proc' = [proc EXCEPT ![p] = c]
    BY <1>4, <1>n
  <2> QED
    BY <2>1, <2>2, <1>n
<1> HIDE DEF l, c
<1>7. \E e \in Cmds : /\ proc' = [proc EXCEPT ![p] = e] /\ lock' = lock
                     /\ e.at \in {"write", "bind", "mutate"} /\ e.dir = proc[p].dir /\ e.dir \in Path
                     /\ e.lease = Len(leases) + 1
                     /\ IF e.at = "mutate" THEN ~NeedsHarness(l) ELSE l.thread = "name"
  BY <1>2, <1>4, <1>5, <1>6
<1> QED
  BY <1>1, <1>4, <1>5, <1>7, ClaimStep

LEMMA HookNothingStep ==
  ASSUME IInv, NEW p \in Proc, HookNothing(p) PROVE IInv'
<1>1. proc[p].at \in HasLock
  BY DEF HookNothing, Doing, HasLock
<1> QED
  BY <1>1, ReapStep DEF HookNothing

LEMMA ReleaseStep ==
  ASSUME IInv, NEW p \in Proc, Release(p) PROVE IInv'
<1>1. proc[p].at \in HasLock /\ HasOwnLease(p) /\ HasLease(p)
  BY DEF Release, Doing, HasLock, HasOwnLease, HasLease
<1>2. /\ proc[p] \in Cmds /\ proc \in [Proc -> Cmds] /\ Store(leases) /\ None \notin Path
      /\ proc[p].dir \in Path => lock[proc[p].dir] = p
      /\ Placed(proc[p]) /\ proc[p].op = "release"
  BY <1>1, Locked DEF Release, Doing
<1>3. PICK i \in 1 .. Len(leases) : i = proc[p].lease /\ leases[i].path \in {proc[p].dir, None}
  BY <1>1 DEF IInv, TypeInv, Named, Covers
<1>4. /\ leases' = [leases EXCEPT ![i].active = FALSE]
      /\ proc' = [proc EXCEPT ![p] = [proc[p] EXCEPT !.at = "clean"]]
      /\ UNCHANGED <<cred, lock, alive, released>>
  BY <1>3 DEF Release
<1>5. /\ Grows(leases, leases') /\ Len(leases') = Len(leases) /\ ~leases'[i].active
      /\ \A j \in 1 .. Len(leases) : leases'[j].session = leases[j].session
      /\ \A j \in 1 .. Len(leases) : j # i => leases'[j] = leases[j]
  BY <1>2, <1>4, EndedStore
<1>6. Respected(p, leases') /\ SoleOwner' /\ Len(leases') <= MaxLeases
  <2>1. leases[i].path \in Path => lock[leases[i].path] = p
    BY <1>2, <1>3
  <2>2. \A j \in 1 .. Len(leases) :
          j # i => /\ leases[j].active => leases'[j].active
                   /\ leases'[j].session = leases[j].session
    BY <1>5
  <2> QED
    BY <1>5, <2>1, <2>2, SetRespects
<1>7. Covers(leases'[i], proc[p].dir)
  BY <1>3, <1>5 DEF Grows, Covers
<1> DEFINE c == [proc[p] EXCEPT !.at = "clean"]
<1>8. /\ c \in Cmds /\ c.at = "clean" /\ c.dir = proc[p].dir /\ c.lease = i
      /\ c.at \in HasLock /\ Placed(c) /\ ~WillWrite(c)
  BY <1>2, <1>3, AtSet DEF HasLock, Placed, WillWrite
<1>9. proc' = [proc EXCEPT ![p] = c]
  BY <1>4
<1> HIDE DEF c
<1> QED
  BY <1>1, <1>4, <1>5, <1>6, <1>7, <1>8, <1>9, GoStep

(* The heartbeat of a lease, by whoever has its token *)
LEMMA RenewRespects ==
  ASSUME IInv, NEW p, NEW i \in 1 .. Len(leases), leases' = Renewed(i)
  PROVE  /\ Grows(leases, leases') /\ Len(leases') = Len(leases) /\ Respected(p, leases')
         /\ SoleOwner' /\ Len(leases') <= MaxLeases
         /\ \A j \in 1 .. Len(leases) : /\ leases'[j].session = leases[j].session
                                        /\ leases'[j].active = leases[j].active
<1>1. /\ Grows(leases, leases') /\ Len(leases') = Len(leases)
      /\ \A j \in 1 .. Len(leases) : /\ leases'[j].session = leases[j].session
                                     /\ leases'[j].active = leases[j].active
  BY RenewedStore DEF IInv, TypeInv, Types
<1> QED
  BY <1>1, SetRespects

LEMMA HeartbeatStep ==
  ASSUME IInv, NEW p \in Proc, Heartbeat(p) PROVE IInv'
<1>1. PICK i \in 1 .. Len(leases) : leases' = Renewed(i)
  BY DEF Heartbeat, IInv, TypeInv, Types, Store
<1>2. /\ Grows(leases, leases') /\ Respected(None, leases') /\ SoleOwner'
      /\ Len(leases') <= MaxLeases
  BY <1>1, RenewRespects
<1> QED
  BY <1>2, StayStep DEF Heartbeat

LEMMA ListStep ==
  ASSUME IInv, NEW p \in Proc, List(p) PROVE IInv'
<1>1. Len(leases) <= MaxLeases /\ None \notin Path
  BY LeaseAssumption DEF IInv, TypeInv, Types
<1>2. /\ Grows(leases, leases') /\ Len(leases') = Len(leases) /\ Respected(None, leases')
      /\ SoleOwner'
  BY <1>1, ReapRespects DEF List, SoleOwner
<1> QED
  BY <1>1, <1>2, StayStep DEF List

LEMMA ExpireStep ==
  ASSUME IInv, Expire PROVE IInv'
<1>1. Store(leases) /\ leases \in [1 .. Len(leases) -> Leases]
  BY DEF IInv, TypeInv, Types, Store
<1>2. PICK i \in 1 .. Len(leases) : leases' = [leases EXCEPT ![i].fresh = FALSE]
  BY <1>1 DEF Expire
<1> DEFINE l == [leases[i] EXCEPT !.fresh = FALSE]
<1>3. /\ l \in Leases /\ l.path = leases[i].path /\ l.thread = leases[i].thread
      /\ l.task = leases[i].task
      /\ l.active = leases[i].active /\ l.session = leases[i].session
      /\ l.active => leases[i].active
  BY <1>1 DEF Leases
<1>4. leases' = [leases EXCEPT ![i] = l]
  BY <1>2
<1> HIDE DEF l
<1> DEFINE us == [leases EXCEPT ![i] = l]
<1>a. /\ Grows(leases, us) /\ Len(us) = Len(leases) /\ us[i] = l
      /\ \A j \in 1 .. Len(leases) : j # i => us[j] = leases[j]
  BY <1>1, <1>3, SetStore
<1>b. leases' = us
  BY <1>4
<1> HIDE DEF us
<1>5. /\ Grows(leases, leases') /\ Len(leases') = Len(leases) /\ leases'[i] = l
      /\ \A j \in 1 .. Len(leases) : j # i => leases'[j] = leases[j]
  BY <1>a, <1>b
<1>6. Respected(None, leases') /\ SoleOwner' /\ Len(leases') <= MaxLeases
  BY <1>3, <1>5, SetRespects
<1> QED
  BY <1>5, <1>6, StayStep DEF Expire

LEMMA StartInstallStep ==
  ASSUME IInv, NEW p \in Proc, StartInstall(p) PROVE IInv'
<1>1. /\ proc \in [Proc -> Cmds] /\ DOMAIN leases = 1 .. Len(leases) /\ Len(leases) \in Nat
      /\ None \notin Path
  BY LeaseAssumption DEF IInv, TypeInv, Types, Store
<1>2. PICK i \in 1 .. Len(leases), d \in Path :
        leases' = Renewed(i) /\ Start(p, "install", d, i, None) /\ leases[i].thread = "name"
  BY <1>1 DEF StartInstall
<1>3. /\ Grows(leases, leases') /\ Len(leases') = Len(leases) /\ Respected(p, leases')
      /\ SoleOwner' /\ Len(leases') <= MaxLeases
  BY <1>2, RenewRespects
<1> DEFINE c == [at |-> "wait", op |-> "install", dir |-> d, lease |-> i, pid |-> None]
<1>4. /\ proc' = [proc EXCEPT ![p] = c] /\ p \in alive /\ proc[p] = Idle
      /\ UNCHANGED <<cred, lock, alive, released>>
  BY <1>1, <1>2 DEF Start
<1>5. c \in Cmds /\ c.at = "wait" /\ c.op = "install" /\ c.dir = d /\ c.lease = i
  BY DEF Cmds
<1> HIDE DEF c
<1>6. proc' \in [Proc -> Cmds] /\ proc'[p] = c /\ \A q \in Proc \ {p} : proc'[q] = proc[q]
  BY <1>1, <1>4, <1>5
<1>7. Commands(p)
  BY <1>4, <1>5, <1>6 DEF Commands, HasLock, Idle, Placed
<1>8. /\ proc'[p].lease \in 1 .. Len(leases') /\ ~HasOwnLease(p)' /\ proc'[p].at = "wait"
      /\ leases'[proc'[p].lease].thread = "name"
  BY <1>2, <1>3, <1>5, <1>6 DEF HasOwnLease, Grows
<1> QED
  BY <1>3, <1>4, <1>7, <1>8, LeaseStep

LEMMA InstallStep ==
  ASSUME IInv, NEW p \in Proc, Install(p) PROVE IInv'
<1>1. /\ proc[p].at \in HasLock /\ HasLease(p) /\ UNCHANGED <<cred, alive, released>>
      /\ proc[p].op = "install" /\ WillWrite(proc[p])
  BY DEF Install, Doing, HasLock, HasLease, WillWrite
<1>2. /\ proc[p] \in Cmds /\ proc \in [Proc -> Cmds] /\ Store(leases) /\ None \notin Path
      /\ Len(leases) \in Nat /\ Len(leases) <= MaxLeases /\ SoleOwner /\ proc[p].dir \in Path
  BY <1>1, Locked DEF IInv, OwnerInv, Placed
<1>3. PICK i \in 1 .. Len(leases) : i = proc[p].lease /\ leases[i].thread = "name"
  BY <1>1 DEF IInv, TypeInv, Named
<1>4. CASE /\ Live(leases[i]) /\ Covers(leases[i], proc[p].dir) /\ leases' = Renewed(i)
           /\ proc' = [proc EXCEPT ![p].at = "write"] /\ lock' = lock
  <2>1. /\ Grows(leases, leases') /\ Len(leases') = Len(leases) /\ Respected(p, leases')
        /\ SoleOwner' /\ Len(leases') <= MaxLeases
    BY <1>4, RenewRespects
  <2> DEFINE c == [proc[p] EXCEPT !.at = "write"]
  <2>2. /\ c \in Cmds /\ c.at = "write" /\ c.dir = proc[p].dir /\ c.lease = i /\ c.at \in HasLock
        /\ Placed(c)
    BY <1>2, <1>3, AtSet DEF HasLock, Placed
  <2>3. proc' = [proc EXCEPT ![p] = c]
    BY <1>4
  <2> HIDE DEF c
  <2>4. Covers(leases'[i], proc[p].dir) /\ leases'[i].thread = "name" /\ i \notin released
    BY <1>3, <1>4, <2>1 DEF Live, Grows, IInv, ReleaseInv, Covers
  <2> QED
    BY <1>1, <1>3, <1>4, <2>1, <2>2, <2>3, <2>4, GoStep
<1>5. CASE leases' \in {Renewed(i), leases} /\ End(p)
  <2>1. CASE leases' = Renewed(i)
    BY <1>1, <1>5, <2>1, RenewRespects, EndStep
  <2>2. CASE leases' = leases
    <3>1. Grows(leases, leases') /\ Respected(p, leases') /\ SoleOwner'
      BY <1>2, <2>2 DEF Grows, Respected, SoleOwner, Sole, Store
    <3> QED
      BY <1>1, <1>2, <1>5, <2>2, <3>1, EndStep
  <2> QED
    BY <1>5, <2>1, <2>2
<1> QED
  BY <1>2, <1>3, <1>4, <1>5 DEF Install, Store, Covers

LEMMA AbandonStep ==
  ASSUME IInv, NEW p \in Proc, AbandonThread(p) PROVE IInv'
<1>1. /\ Store(leases) /\ leases \in [1 .. Len(leases) -> Leases] /\ Len(leases) \in Nat
      /\ DOMAIN leases = 1 .. Len(leases) /\ Len(leases) <= MaxLeases /\ SoleOwner
  BY DEF IInv, TypeInv, OwnerInv, Types, Store
<1> DEFINE mine == {i \in 1 .. Len(leases) : leases[i].thread = "name" /\ leases[i].active}
           us == [i \in 1 .. Len(leases) |-> IF i \in mine THEN [leases[i] EXCEPT !.active = FALSE]
                                                           ELSE leases[i]]
<1>2. /\ leases' = us /\ UNCHANGED <<cred, lock, proc, alive, released>>
      /\ \A i \in mine : leases[i].path \in Path => lock[leases[i].path] = None
  BY <1>1 DEF AbandonThread
<1>3. ASSUME NEW i \in 1 .. Len(leases)
      PROVE  /\ us[i] \in Leases /\ us[i].path = leases[i].path /\ us[i].task = leases[i].task
             /\ us[i].session = leases[i].session /\ us[i].thread = leases[i].thread
             /\ us[i].active => leases[i].active
             /\ i \notin mine => us[i] = leases[i]
  <2>1. leases[i] \in Leases
    BY <1>1
  <2>2. us[i] = IF i \in mine THEN [leases[i] EXCEPT !.active = FALSE] ELSE leases[i]
    OBVIOUS
  <2> HIDE DEF us, mine
  <2> QED
    BY <2>1, <2>2 DEF Leases
<1>4. us \in Seq(Leases) /\ Len(us) = Len(leases)
  BY <1>1, <1>3
<1> HIDE DEF us, mine
<1>5. Store(us)
  BY <1>1, <1>3, <1>4 DEF Store, NeedsHarness
<1>6. Grows(leases, us)
  BY <1>1, <1>3, <1>4, <1>5 DEF Grows
<1>7. SoleOwner'
  BY <1>1, <1>2, <1>4, <1>6, SoleKept DEF SoleOwner
<1>8. Respected(None, us)
  <2>1. ASSUME NEW i \in 1 .. Len(leases), leases[i].path \in Path,
               lock[leases[i].path] \in Proc \ {None}
        PROVE  i \notin mine
    BY <1>1, <1>2, <2>1 DEF Store
  <2> QED
    BY <1>1, <1>3, <1>4, <2>1 DEF Respected
<1> QED
  BY <1>1, <1>2, <1>4, <1>6, <1>7, <1>8, StayStep

-----------------------------------------------------------------------------
(* The steps of hooks and of captures *)

(* A session is bound to the lease of the checkout that p holds *)
LEMMA BindRespects ==
  ASSUME IInv, NEW p, NEW ls, Grows(leases, ls), Len(ls) = Len(leases), Respected(p, ls),
         NEW i \in 1 .. Len(leases), leases[i].path \in Path => lock[leases[i].path] = p,
         leases[i].thread = "name",
         NEW h \in Harness \union {None}, leases' = Bound(ls, i, h)
  PROVE  /\ Grows(leases, leases') /\ Len(leases') = Len(leases) /\ Len(leases') <= MaxLeases
         /\ Respected(p, leases') /\ SoleOwner'
<1>0. Store(leases) /\ Len(leases) <= MaxLeases /\ SoleOwner
  BY DEF IInv, TypeInv, OwnerInv, Types
<1>1. /\ Store(leases) /\ Store(ls) /\ Len(leases) <= MaxLeases /\ SoleOwner
      /\ Len(leases) \in Nat /\ ls[i].thread = "name"
  BY <1>0 DEF Grows, Store
<1>2. /\ Grows(ls, leases') /\ Len(leases') = Len(ls)
      /\ \A j \in 1 .. Len(ls) : /\ leases'[j].active = ls[j].active
                                 /\ j # i => leases'[j].session = ls[j].session
  BY <1>1, BoundStore
<1>3. Grows(leases, leases')
  BY <1>1, <1>2, GrowsTwice
<1>4. Respected(p, leases')
  BY <1>1, <1>2 DEF Respected
<1>5. SoleOwner'
  BY <1>1, <1>2, <1>3, SoleKept DEF SoleOwner
<1> QED
  BY <1>1, <1>2, <1>3, <1>4, <1>5

LEMMA HookBindStep ==
  ASSUME IInv, NEW p \in Proc, HookBind(p) PROVE IInv'
<1>1. /\ proc[p].at = "do" /\ proc[p].at \in HasLock /\ UNCHANGED <<cred, alive, released>>
      /\ proc[p].op \in {"hook", "unhook"}
  BY DEF HookBind, HasLock
<1>2. /\ proc[p] \in Cmds /\ proc \in [Proc -> Cmds] /\ Store(leases) /\ None \notin Path
      /\ proc[p].dir \in Path /\ lock[proc[p].dir] = p /\ Parent[p] \in Harness \union {None}
      /\ Len(leases) \in Nat
  BY <1>1, Locked, LeaseAssumption DEF Placed
<1> DEFINE d == proc[p].dir
           ls == Reaped(d)
<1>3. CASE leases' = ls /\ End(p)
  BY <1>1, <1>3, ReapStep
<1>4. CASE ~(leases' = ls /\ End(p))
  <2>a. PICK i \in Owners(ls, "name", d) :
          /\ cred[d] = i /\ leases' = Bound(ls, i, Parent[p])
          /\ \/ End(p)
             \/ /\ proc' = [proc EXCEPT ![p].op = "release", ![p].lease = i]
                /\ lock' = lock
    BY <1>4 DEF HookBind
  <2>2. Grows(leases, ls) /\ Len(ls) = Len(leases) /\ Respected(p, ls)
    BY <1>2, ReapRespects
  <2>1. /\ i \in 1 .. Len(leases) /\ leases[i].path \in {d, None}
        /\ leases[i].thread = "name"
    <3>1. i \in DOMAIN ls /\ DOMAIN ls = 1 .. Len(ls)
      BY <2>a, <2>2 DEF Owners, Grows, Store
    <3>2. i # 0
      BY <3>1
    <3> QED
      BY <1>2, <2>a, <3>2 DEF IInv, TypeInv, Named, Covers
  <2> HIDE DEF ls
  <2>3. /\ Grows(leases, leases') /\ Len(leases') = Len(leases) /\ Len(leases') <= MaxLeases
        /\ Respected(p, leases') /\ SoleOwner'
    BY <1>2, <2>a, <2>1, <2>2, BindRespects
  <2>4. CASE End(p)
    BY <1>1, <2>3, <2>4, EndStep
  <2>5. CASE /\ proc' = [proc EXCEPT ![p].op = "release", ![p].lease = i]
             /\ lock' = lock
    <3>n. PICK n \in Nat : n = i
      BY <1>2, <2>1
    <3> DEFINE c == [proc[p] EXCEPT !.op = "release", !.lease = n]
    <3>1. c \in Cmds /\ c.at = "do" /\ c.op = "release" /\ c.dir = d /\ c.lease = n
      BY <1>1, <1>2 DEF Cmds
    <3>2. proc' = [proc EXCEPT ![p] = c]
      BY <2>5, <3>n
    <3> HIDE DEF c
    <3>3. Covers(leases'[i], d) /\ i \in 1 .. Len(leases')
      BY <2>1, <2>3 DEF Grows, Covers
    <3>4. /\ c.lease \in 1 .. Len(leases') /\ Covers(leases'[c.lease], c.dir)
          /\ c.dir = proc[p].dir /\ c.at # "mutate" /\ c.at # "clean" /\ c.at # "write"
          /\ c.at \in HasLock /\ Placed(c) /\ ~WillWrite(c)
      BY <1>2, <3>n, <3>1, <3>3 DEF HasLock, Placed, WillWrite
    <3> QED
      BY <1>1, <2>3, <2>5, <3>1, <3>2, <3>4, GoStep
  <2> QED
    BY <2>a, <2>4, <2>5
<1> QED
  BY <1>3, <1>4

LEMMA HookBindNewStep ==
  ASSUME IInv, NEW p \in Proc, HookBindNew(p) PROVE IInv'
<1>1. /\ proc[p].at = "bind" /\ proc[p].at \in HasLock /\ HasLease(p) /\ HasOwnLease(p)
      /\ UNCHANGED <<cred, alive, released>> /\ WillWrite(proc[p])
  BY DEF HookBindNew, HasLock, HasLease, HasOwnLease, WillWrite
<1>2. /\ proc[p] \in Cmds /\ proc \in [Proc -> Cmds] /\ Store(leases) /\ proc[p].dir \in Path
      /\ lock[proc[p].dir] = p /\ Parent[p] \in Harness \union {None} /\ None \notin Path
      /\ SoleOwner /\ Len(leases) <= MaxLeases /\ Len(leases) \in Nat
  BY <1>1, Locked, LeaseAssumption DEF IInv, OwnerInv, Placed
<1>3. PICK i \in 1 .. Len(leases) :
        i = proc[p].lease /\ leases[i].path \in {proc[p].dir, None} /\ leases[i].thread = "name"
  BY <1>1 DEF IInv, TypeInv, Named, Covers
<1>4. Grows(leases, leases) /\ Respected(p, leases)
  BY <1>2 DEF Grows, Respected
<1>5. CASE leases' = leases /\ End(p)
  <2>1. Grows(leases, leases') /\ Respected(p, leases') /\ SoleOwner' /\ Len(leases') <= MaxLeases
    BY <1>2, <1>4, <1>5 DEF SoleOwner
  <2> QED
    BY <1>1, <1>5, <2>1, EndStep
<1>6. CASE /\ Bindable(i, Parent[p]) /\ leases' = Bound(leases, i, Parent[p])
           /\ proc' = [proc EXCEPT ![p].at = "write"] /\ lock' = lock
  <2>1. /\ Grows(leases, leases') /\ Len(leases') = Len(leases) /\ Len(leases') <= MaxLeases
        /\ Respected(p, leases') /\ SoleOwner'
    <3>1. leases[i].path \in Path => lock[leases[i].path] = p
      BY <1>2, <1>3
    <3> QED
      BY <1>2, <1>3, <1>4, <1>6, <3>1, BindRespects
  <2> DEFINE c == [proc[p] EXCEPT !.at = "write"]
  <2>2. /\ c \in Cmds /\ c.at = "write" /\ c.dir = proc[p].dir /\ c.lease = i /\ c.at \in HasLock
        /\ Placed(c)
    BY <1>2, <1>3, AtSet DEF HasLock, Placed
  <2>3. proc' = [proc EXCEPT ![p] = c]
    BY <1>6
  <2> HIDE DEF c
  <2>4. Covers(leases'[i], proc[p].dir) /\ leases'[i].thread = "name" /\ i \notin released
    BY <1>3, <1>6, <2>1 DEF Bindable, Live, Grows, IInv, ReleaseInv, Covers
  <2> QED
    BY <1>1, <1>6, <2>1, <2>2, <2>3, <2>4, GoStep
<1> QED
  BY <1>3, <1>5, <1>6 DEF HookBindNew

LEMMA SaveAuthenticateStep ==
  ASSUME IInv, NEW p \in Proc, SaveAuthenticate(p) PROVE IInv'
<1>1. /\ proc[p].at \in HasLock /\ HasLease(p) /\ UNCHANGED <<cred, alive, released>>
      /\ proc[p].at = "auth"
  BY DEF SaveAuthenticate, HasLock, HasLease
<1>2. /\ proc[p] \in Cmds /\ proc \in [Proc -> Cmds] /\ Store(leases) /\ None \notin Path
      /\ SoleOwner /\ Len(leases) <= MaxLeases /\ Len(leases) \in Nat /\ proc[p].dir \in Path
  BY <1>1, Locked DEF IInv, OwnerInv, Placed
<1>3. PICK i \in 1 .. Len(leases) : i = proc[p].lease
  BY <1>1 DEF IInv, TypeInv, Named
<1>4. /\ Grows(leases, leases') /\ Len(leases') = Len(leases) /\ Respected(p, leases')
      /\ SoleOwner' /\ Len(leases') <= MaxLeases
      /\ \A j \in 1 .. Len(leases) : /\ leases'[j].session = leases[j].session
                                     /\ leases'[j].active = leases[j].active
  <2>1. CASE leases' = Renewed(i)
    BY <2>1, RenewRespects
  <2>2. CASE leases' = leases
    BY <1>2, <2>2 DEF Grows, Respected, SoleOwner, Sole, Store
  <2> QED
    BY <1>3, <2>1, <2>2 DEF SaveAuthenticate
<1>5. CASE End(p)
  BY <1>1, <1>4, <1>5, EndStep
<1>6. CASE ~End(p)
  <2>1. /\ NeedsHarness(leases[i]) => HookOwner(p, leases[i])
        /\ leases[i].active /\ leases[i].path \in {proc[p].dir, None}
        /\ proc' = [proc EXCEPT ![p].at = "mutate"] /\ lock' = lock
    BY <1>3, <1>6 DEF SaveAuthenticate, Live
  <2> DEFINE c == [proc[p] EXCEPT !.at = "mutate"]
  <2>2. /\ c \in Cmds /\ c.at = "mutate" /\ c.dir = proc[p].dir /\ c.lease = i /\ c.at \in HasLock
        /\ Placed(c) /\ ~WillWrite(c)
    BY <1>2, <1>3, AtSet DEF HasLock, Placed, WillWrite
  <2>3. proc' = [proc EXCEPT ![p] = c]
    BY <2>1
  <2> HIDE DEF c
  <2>4. /\ leases'[i].path = leases[i].path /\ Covers(leases'[i], proc[p].dir)
        /\ leases'[i].task = leases[i].task
    BY <1>2, <1>4, <2>1 DEF Grows, Store, Covers
  <2>5. /\ leases'[i].active
        /\ NeedsHarness(leases'[i]) => Parent[p] = leases'[i].session
    BY <1>4, <2>1, <2>4 DEF NeedsHarness, HookOwner
  <2>6. ASSUME leases'[i].path = None, NEW j \in 1 .. Len(leases'), leases'[j].active,
               leases'[j].path = proc[p].dir
        PROVE  ~NeedsHarness(leases'[j])
    <3>1. i # j /\ i \in 1 .. Len(leases') /\ Store(leases')
      BY <1>2, <1>4, <2>6 DEF Grows
    <3>2. leases'[j].thread = "id"
      BY <1>4, <2>5, <2>6, <3>1 DEF SoleOwner, Sole
    <3> QED
      BY <3>1, <3>2 DEF Store
  <2>7. Admits(p, c, leases')
    BY <2>2, <2>5, <2>6 DEF Admits
  <2> QED
    BY <1>1, <1>4, <2>1, <2>2, <2>3, <2>4, <2>7, GoStep
<1> QED
  BY <1>5, <1>6

LEMMA SaveClaimStep ==
  ASSUME IInv, NEW p \in Proc, SaveClaim(p) PROVE IInv'
<1>1. /\ proc[p].at \in HasLock /\ UNCHANGED <<cred, alive, released>> /\ Len(leases) < MaxLeases
      /\ proc[p].at = "claim"
  BY DEF SaveClaim, HasLock
<1>2. /\ proc[p] \in Cmds /\ proc[p].dir \in Path /\ proc \in [Proc -> Cmds]
      /\ Len(leases) \in Nat /\ Store(leases) /\ SoleOwner /\ Len(leases) <= MaxLeases
      /\ None \notin Path
  BY <1>1, Locked DEF IInv, OwnerInv, Placed
<1>3. CASE leases' = leases /\ End(p)
  <2>1. Grows(leases, leases') /\ Respected(p, leases') /\ SoleOwner' /\ Len(leases') <= MaxLeases
    BY <1>2, <1>3 DEF Grows, Respected, SoleOwner, Sole, Store
  <2> QED
    BY <1>1, <1>3, <2>1, EndStep
<1>4. CASE leases' = Reaped(proc[p].dir) /\ End(p)
  BY <1>1, <1>4, ReapStep
<1>5. CASE /\ Owners(Reaped(proc[p].dir), "id", proc[p].dir) = {} /\ lock' = lock
           /\ leases' = Append(Reaped(proc[p].dir),
                               NewLease("id", proc[p].dir, FALSE, p, None, FALSE))
           /\ proc' = [proc EXCEPT ![p].at = "mutate", ![p].lease = Len(leases) + 1, ![p].pid = p]
  <2>n. PICK n \in Nat : n = Len(leases) + 1
    BY <1>2
  <2> DEFINE l == NewLease("id", proc[p].dir, FALSE, p, None, FALSE)
             c == [proc[p] EXCEPT !.at = "mutate", !.lease = n, !.pid = p]
  <2>1. leases' = Append(Reaped(proc[p].dir), l)
    BY <1>5
  <2>2. l \in Leases /\ l.path = proc[p].dir /\ l.active /\ ~NeedsHarness(l) /\ l.thread = "id"
    BY <1>2 DEF NewLease, Leases, NeedsHarness
  <2>3. c \in Cmds /\ c.at = "mutate" /\ c.dir = proc[p].dir /\ c.lease = n
    BY <1>2 DEF Cmds
  <2>4. proc' = [proc EXCEPT ![p] = c]
    BY <1>5, <2>n
  <2> HIDE DEF l, c
  <2>5. \E e \in Cmds :
          /\ proc' = [proc EXCEPT ![p] = e] /\ lock' = lock
          /\ e.at \in {"write", "bind", "mutate"} /\ e.dir = proc[p].dir /\ e.dir \in Path
          /\ e.lease = Len(leases) + 1
          /\ IF e.at = "mutate" THEN ~NeedsHarness(l) ELSE l.thread = "name"
    BY <1>2, <1>5, <2>n, <2>2, <2>3, <2>4
  <2> QED
    BY <1>1, <1>2, <1>5, <2>1, <2>2, <2>5, ClaimStep
<1> QED
  BY <1>3, <1>4, <1>5 DEF SaveClaim

LEMMA SaveFinishStep ==
  ASSUME IInv, NEW p \in Proc, SaveFinish(p) PROVE IInv'
<1>1. /\ proc[p].at \in HasLock /\ HasLease(p) /\ HasOwnLease(p)
      /\ UNCHANGED <<cred, alive, released>> /\ End(p)
  BY DEF SaveFinish, HasLock, HasLease, HasOwnLease
<1>2. /\ proc[p].dir \in Path => lock[proc[p].dir] = p
      /\ Store(leases) /\ SoleOwner /\ None \notin Path
      /\ Len(leases) <= MaxLeases /\ Len(leases) \in Nat
  BY <1>1, Locked DEF IInv, OwnerInv
<1>3. PICK i \in 1 .. Len(leases) : i = proc[p].lease /\ leases[i].path \in {proc[p].dir, None}
  BY <1>1 DEF IInv, TypeInv, Named, Covers
<1>4. CASE leases' = leases
  <2>1. Grows(leases, leases') /\ Respected(p, leases') /\ SoleOwner' /\ Len(leases') <= MaxLeases
    BY <1>2, <1>4 DEF Grows, Respected, SoleOwner, Sole, Store
  <2> QED
    BY <1>1, <2>1, EndStep
<1>5. CASE leases' = [leases EXCEPT ![i].active = FALSE]
  <2>1. /\ Grows(leases, leases') /\ Len(leases') = Len(leases) /\ ~leases'[i].active
        /\ \A j \in 1 .. Len(leases) : leases'[j].session = leases[j].session
        /\ \A j \in 1 .. Len(leases) : j # i => leases'[j] = leases[j]
    BY <1>2, <1>5, EndedStore
  <2>2. leases[i].path \in Path => lock[leases[i].path] = p
    BY <1>2, <1>3
  <2>3. \A j \in 1 .. Len(leases) :
          j # i => /\ leases[j].active => leases'[j].active
                   /\ leases'[j].session = leases[j].session
    BY <2>1
  <2>4. Respected(p, leases') /\ SoleOwner' /\ Len(leases') <= MaxLeases
    BY <2>1, <2>2, <2>3, SetRespects
  <2> QED
    BY <1>1, <2>1, <2>4, EndStep
<1> QED
  BY <1>3, <1>4, <1>5 DEF SaveFinish

-----------------------------------------------------------------------------
LEMMA Initially == Init => IInv
<1> SUFFICES ASSUME Init PROVE IInv
  OBVIOUS
<1> USE LeaseAssumption DEF Init
<1>1. leases = << >> /\ Len(leases) = 0 /\ 1 .. Len(leases) = {}
  OBVIOUS
<1>2. Types
  BY <1>1 DEF Types, Store, Cmds, Idle
<1>3. Holding
  BY DEF Holding, HasLock, Idle
<1>4. Named
  BY DEF Named, HasLease, HasOwnLease, WillWrite, Idle
<1>5. OwnerInv
  BY <1>1 DEF OwnerInv, SoleOwner, Sole, Admitted, Idle
<1>6. ReleaseInv
  BY DEF ReleaseInv, ReleasedGone, Idle
<1> QED
  BY <1>2, <1>3, <1>4, <1>5, <1>6 DEF IInv, TypeInv

LEMMA Preserved ==
  ASSUME IInv, [Next]_vars
  PROVE  IInv'
<1>1. CASE UNCHANGED vars
  BY <1>1 DEF vars, IInv, TypeInv, Types, Store, Holding, Named, HasLease, HasOwnLease, OwnerInv,
     SoleOwner, Sole, Admitted, Admits, NeedsHarness, ReleaseInv, ReleasedGone, WillWrite, Placed,
     Covers
<1>2. CASE Next
  BY <1>2, QuietStep, ReserveStep, FanoutStep, StartInstallStep, InstallStep, HeartbeatStep,
     ReleaseStep, ListStep, AbandonStep, HookBindStep, HookClaimStep, HookBindNewStep,
     HookNothingStep, SaveAuthenticateStep, SaveClaimStep, SaveFinishStep, ExpireStep DEF Next
<1> QED
  BY <1>1, <1>2

LEMMA Invariant == Spec => []IInv
<1>1. Init => IInv
  BY Initially
<1>2. IInv /\ [Next]_vars => IInv'
  BY Preserved
<1> QED
  BY <1>1, <1>2, PTL DEF Spec

-----------------------------------------------------------------------------
(* Types, and every lock of a checkout has a live holder that works there,  *)
(* whichever command dies while it holds one (lock_checkout_writer).        *)
THEOREM TypesHold == Spec => []TypeOK
<1>1. IInv => TypeOK
  <2> SUFFICES ASSUME IInv PROVE TypeOK
    OBVIOUS
  <2>1. Types /\ Holding /\ Named
    BY DEF IInv, TypeInv
  <2>2. leases \in Seq(Leases) /\ DOMAIN leases = 1 .. Len(leases) /\ Len(leases) \in Nat
    BY <2>1 DEF Types, Store
  <2>3. cred \in [Path -> 0 .. Len(leases)]
    BY <2>1, <2>2 DEF Types, Named
  <2>4. \A d \in Path : lock[d] # None => lock[d] \in alive /\ proc[lock[d]].dir = d
    BY <2>1 DEF Types, Holding, HasLock
  <2> QED
    BY <2>1, <2>2, <2>3, <2>4 DEF TypeOK, Types
<1>2. Spec => []IInv
  BY Invariant
<1> QED
  BY <1>1, <1>2, PTL

(* No two active leases are of one checkout, and beside one without a       *)
(* checkout only temporary ones are active: reserve and the temporary claim *)
(* of a capture look for an owner under the locks that every retire and     *)
(* every claim takes (conflicts_with, reap_expired_locked).                 *)
THEOREM OneOwnerHolds == Spec => []OneOwner
<1>1. IInv => OneOwner
  BY DEF IInv, TypeInv, OwnerInv, Types, Store, SoleOwner, Sole, OneOwner
<1>2. Spec => []IInv
  BY Invariant
<1> QED
  BY <1>1, <1>2, PTL

(* The lease of a checkout that a mutation was admitted with is active      *)
(* until the mutation ends: whoever retires, releases or drops leases       *)
(* respects the checkout lock (reap_expired_locked, release,                *)
(* abandon_thread).                                                         *)
THEOREM AuthorityStays == Spec => []AuthorityKept
<1>1. IInv => AuthorityKept
  BY DEF IInv, OwnerInv, Admitted, Admits, AuthorityKept
<1>2. Spec => []IInv
  BY Invariant
<1> QED
  BY <1>1, <1>2, PTL

(* A checkout whose active lease is a harness's is mutated only with that   *)
(* lease, by processes of the session it is bound to (require_hook_owner),  *)
(* although other processes may hold leases without a checkout.             *)
THEOREM HarnessAlone == Spec => []HarnessOnly
<1>1. IInv => HarnessOnly
  <2> SUFFICES ASSUME IInv, NEW p \in Proc, NEW i \in DOMAIN leases, proc[p].at = "mutate",
                      leases[i].active, leases[i].path = proc[p].dir, NeedsHarness(leases[i])
               PROVE  proc[p].lease = i /\ Parent[p] = leases[i].session
    BY DEF HarnessOnly
  <2>1. i \in 1 .. Len(leases)
    BY DEF IInv, TypeInv, Types, Store
  <2>2. /\ proc[p].lease \in 1 .. Len(leases)
        /\ leases[proc[p].lease].path \in {proc[p].dir, None}
        /\ Admits(p, proc[p], leases) /\ proc[p].dir \in Path /\ None \notin Path
    BY LeaseAssumption DEF IInv, TypeInv, OwnerInv, Named, Holding, Placed, HasLease, HasOwnLease,
       Admitted, Covers
  <2>3. leases[proc[p].lease].path # None
    BY <2>1, <2>2 DEF Admits
  <2>4. proc[p].lease = i
    BY <2>1, <2>2, <2>3 DEF IInv, OwnerInv, SoleOwner, Sole, Admits
  <2> QED
    BY <2>2, <2>3, <2>4 DEF Admits
<1>2. Spec => []IInv
  BY Invariant
<1> QED
  BY <1>1, <1>2, PTL

(* No credential file names a lease of a checkout whose release has         *)
(* reported success: the release takes the checkout lock that every writer  *)
(* of a credential holds (remove_checkout_writer_credential).               *)
THEOREM ReleaseCleans == Spec => []ReleasedGone
<1>1. IInv => ReleasedGone
  BY DEF IInv, ReleaseInv
<1>2. Spec => []IInv
  BY Invariant
<1> QED
  BY <1>1, <1>2, PTL
=============================================================================
