---------------------------- MODULE WriterLease ----------------------------
(***************************************************************************)
(* Writers of checkouts (writer_lease.rs, checkout_writer.rs, agent_cmd.rs,*)
(* save.rs).  A lease, a file under the lease-store lock, names who may    *)
(* write a checkout; the credential file of a checkout carries its id and  *)
(* token; the checkout lock is held by a mutation, and by a handoff of the *)
(* lease.  Commands of several processes reserve, bind, renew, release and *)
(* use leases, and retire those whose holder is gone.                      *)
(*                                                                         *)
(* All checkouts are attached to one lane.  A lease carries the name of    *)
(* its thread, or, when a mutation or a remote device made it, the hex of  *)
(* its id.  A store operation runs under the store lock and is one step.   *)
(* Time is a flag: the heartbeat of a lease is within its duration or not. *)
(***************************************************************************)
EXTENDS Integers, Sequences

CONSTANTS
  Proc,      \* command processes
  Harness,   \* agent harnesses
  Parent,    \* Parent[p]: the harness that process p descends from, or None
  Path,      \* checkouts
  Managed,   \* checkouts at the managed path of their lane
  None,
  MaxLeases  \* bound: leases of a behaviour

ASSUME LeaseAssumption ==
  /\ None \notin Proc \union Harness \union Path
  /\ Proc \intersect Harness = {}
  /\ Parent \in [Proc -> Harness \union {None}]
  /\ Managed \subseteq Path
  /\ MaxLeases \in Nat

VARIABLES
  leases,   \* the lease files, by lease id
  cred,     \* cred[d]: id in the credential file of checkout d, 0 if there is none
  lock,     \* lock[d]: holder of the checkout lock
  proc,     \* proc[p]: the command that process p runs
  alive,    \* processes and harnesses that are alive
  released  \* leases whose release has reported success

vars == <<leases, cred, lock, proc, alive, released>>

Id == 0 .. MaxLeases
Leases == [thread : {"name", "id"}, path : Path \union {None}, task : BOOLEAN,
           pid : Proc \union Harness \union {None}, session : Harness \union {None},
           printed : BOOLEAN, fresh : BOOLEAN, active : BOOLEAN]

Idle == [at |-> "idle", op |-> "none", dir |-> None, lease |-> 0, pid |-> None]

Init ==
  /\ leases = << >>
  /\ cred = [d \in Path |-> 0]
  /\ lock = [d \in Path |-> None]
  /\ proc = [p \in Proc |-> Idle]
  /\ alive = Proc \union Harness
  /\ released = {}

-----------------------------------------------------------------------------
(* The lease store.                                                        *)

(* liveness_at *)
Live(l) == l.active /\ l.pid \in alive \union {None} /\ l.fresh

(* conflicts_with *)
Conflicts_ByThread(l, thread, path) == l.active /\ l.thread = thread
Conflicts(l, thread, path) ==
  /\ l.active
  /\ IF l.path # None /\ path # None THEN l.path = path ELSE l.thread = thread

(* reap_expired_locked: never while a mutation holds the checkout *)
Reapable_Unlocked(l, held) == l.active /\ ~Live(l)
Reapable(l, held) ==
  /\ l.active /\ ~Live(l)
  /\ l.path \in {None, held} \/ lock[l.path] = None
Reaped(held) ==
  [i \in DOMAIN leases |-> IF Reapable(leases[i], held)
                           THEN [leases[i] EXCEPT !.active = FALSE] ELSE leases[i]]

Owners(ls, thread, path) == {i \in DOMAIN ls : Conflicts(ls[i], thread, path)}

NewLease(thread, path, task, pid, session, printed) ==
  [thread |-> thread, path |-> path, task |-> task, pid |-> pid, session |-> session,
   printed |-> printed, fresh |-> TRUE, active |-> TRUE]

(* authenticate_and_renew, for the holder of its token *)
Renewed(i) == [leases EXCEPT ![i].fresh = TRUE]

(* lease_needs_harness *)
NeedsHarness(l) == l.task \/ l.session # None

(* require_hook_owner: the process descends from the harness of the lease *)
HookOwner_AnyProcess(p, l) == l.session # None /\ l.pid = l.session /\ l.pid \in alive
HookOwner(p, l) == l.session # None /\ l.pid = l.session /\ l.pid \in alive /\ Parent[p] = l.session

(* requires_hook_session: the lane has ever been a harness's *)
RequiresHook(d) ==
  /\ d \in Managed
  /\ \E i \in DOMAIN leases : /\ leases[i].thread = "name" /\ leases[i].path = d
                              /\ NeedsHarness(leases[i])

-----------------------------------------------------------------------------
(* Commands.                                                               *)

Start(p, op, d, i, pid) ==
  /\ p \in alive /\ proc[p] = Idle
  /\ proc' = [proc EXCEPT ![p] = [at |-> IF d = None THEN "do" ELSE "wait", op |-> op, dir |-> d,
                                  lease |-> i, pid |-> pid]]
  /\ UNCHANGED <<cred, lock, alive, released>>

(* lock_checkout_writer_handoff, release: waits *)
Lock(p) ==
  /\ proc[p].at = "wait" /\ lock[proc[p].dir] = None
  /\ lock' = [lock EXCEPT ![proc[p].dir] = p]
  /\ proc' = [proc EXCEPT ![p].at = "do"]
  /\ UNCHANGED <<leases, cred, alive, released>>

Unlocked(p) == IF proc[p].dir = None THEN lock ELSE [lock EXCEPT ![proc[p].dir] = None]

End(p) ==
  /\ proc' = [proc EXCEPT ![p] = Idle]
  /\ lock' = Unlocked(p)

Doing(p, op) == proc[p].at = "do" /\ proc[p].op = op

(* cmd_agent_reserve: for the checkout of the thread, if it has one, and   *)
(* for the lifetime of a process, if the caller says so                    *)
StartReserve(p) ==
  /\ Len(leases) < MaxLeases
  /\ \E d \in Path \union {None}, pid \in Harness \union {None} :
       Start(p, "reserve", d, 0, pid)
  /\ UNCHANGED leases

Reserve(p) ==
  LET d == proc[p].dir
      ls == Reaped(d)
  IN
  /\ Doing(p, "reserve")
  /\ Len(leases) < MaxLeases
  /\ \/ /\ Owners(ls, "name", d) # {}
        /\ leases' = ls
     \/ /\ Owners(ls, "name", d) = {}
        /\ \E task \in BOOLEAN :
             leases' = Append(ls, NewLease("name", d, task, proc[p].pid, None, TRUE))
  /\ End(p)
  /\ UNCHANGED <<cred, alive, released>>

(* Fanout: the lease of a lane's task, and its credential *)
StartFanout(p) ==
  /\ Len(leases) < MaxLeases
  /\ \E d \in Managed : Start(p, "fanout", d, 0, None)
  /\ UNCHANGED leases

Fanout(p) ==
  LET d == proc[p].dir
      ls == Reaped(d)
  IN
  /\ Doing(p, "fanout")
  /\ Len(leases) < MaxLeases
  /\ \/ /\ Owners(ls, "name", d) # {}
        /\ leases' = ls
        /\ End(p)
     \/ /\ Owners(ls, "name", d) = {}
        /\ leases' = Append(ls, NewLease("name", d, TRUE, None, None, FALSE))
        /\ proc' = [proc EXCEPT ![p].at = "write", ![p].lease = Len(leases) + 1]
        /\ UNCHANGED lock
  /\ UNCHANGED <<cred, alive, released>>

(* write_checkout_writer_credential *)
WriteCredential(p) ==
  /\ proc[p].at = "write"
  /\ cred' = [cred EXCEPT ![proc[p].dir] = proc[p].lease]
  /\ End(p)
  /\ UNCHANGED <<leases, alive, released>>

(* cmd_agent_capture, before its capture: heartbeat, and                   *)
(* install_checkout_writer_credential                                      *)
StartInstall(p) ==
  \E i \in DOMAIN leases, d \in Path :
    /\ leases[i].printed /\ leases[i].thread = "name" /\ Live(leases[i])
    /\ leases' = Renewed(i)
    /\ Start(p, "install", d, i, None)

Install(p) ==
  LET l == leases[proc[p].lease]
      owns == /\ Live(l) /\ l.path \in {proc[p].dir, None}
              /\ NeedsHarness(l) => HookOwner(p, l)
  IN
  /\ Doing(p, "install")
  /\ \/ /\ owns
        /\ leases' = Renewed(proc[p].lease)
        /\ proc' = [proc EXCEPT ![p].at = "write"]
        /\ UNCHANGED lock
     \/ /\ ~owns
        /\ leases' = IF Live(l) THEN Renewed(proc[p].lease) ELSE leases
        /\ End(p)
  /\ UNCHANGED <<cred, alive, released>>

(* cmd_agent_heartbeat *)
Heartbeat(p) ==
  /\ p \in alive /\ proc[p] = Idle
  /\ \E i \in DOMAIN leases :
       /\ leases[i].printed /\ Live(leases[i])
       /\ leases' = Renewed(i)
  /\ UNCHANGED <<cred, lock, proc, alive, released>>

(* cmd_agent_release: the lock of the lease's checkout, the status, then   *)
(* the credential                                                          *)
StartRelease(p) ==
  \E i \in DOMAIN leases :
    /\ leases[i].printed
    /\ Start(p, "release", leases[i].path, i, None)
    /\ UNCHANGED leases

Release(p) ==
  /\ Doing(p, "release")
  /\ leases' = [leases EXCEPT ![proc[p].lease].active = FALSE]
  /\ proc' = [proc EXCEPT ![p].at = "clean"]
  /\ UNCHANGED <<cred, lock, alive, released>>

(* remove_checkout_writer_credential *)
Cleaned_Kept(d, i) == cred
Cleaned(d, i) == [e \in Path |-> IF e = d /\ cred[e] = i THEN 0 ELSE cred[e]]

Clean(p) ==
  /\ proc[p].at = "clean"
  /\ cred' = Cleaned(proc[p].dir, proc[p].lease)
  /\ released' = released \union {proc[p].lease}
  /\ End(p)
  /\ UNCHANGED <<leases, alive>>

(* list *)
List(p) ==
  /\ p \in alive /\ proc[p] = Idle
  /\ leases' = Reaped(None)
  /\ UNCHANGED <<cred, lock, proc, alive, released>>

(* abandon_thread, unless one of the checkouts has an active mutation *)
AbandonThread(p) ==
  LET mine == {i \in DOMAIN leases : leases[i].thread = "name" /\ leases[i].active}
  IN
  /\ p \in alive /\ proc[p] = Idle
  /\ {leases[i].path : i \in mine} \intersect {d \in Path : lock[d] # None} = {}
  /\ leases' = [i \in DOMAIN leases |-> IF i \in mine THEN [leases[i] EXCEPT !.active = FALSE]
                                                      ELSE leases[i]]
  /\ UNCHANGED <<cred, lock, proc, alive, released>>

-----------------------------------------------------------------------------
(* Hooks of a harness (hook_checkout_writer).                              *)

StartHook(p) ==
  /\ Parent[p] # None
  /\ \E d \in Path, op \in {"hook", "unhook"} :
       /\ RequiresHook(d)
       /\ Start(p, op, d, 0, None)
  /\ UNCHANGED leases

(* bind_hook_session: only the session that the lease has, or its first *)
Bindable(i, h) == Live(leases[i]) /\ leases[i].session \in {h, None}
Bound(ls, i, h) == [ls EXCEPT ![i].session = h, ![i].pid = h, ![i].fresh = TRUE]

(* The lane has a live owner, the first one that the store lists: its      *)
(* credential, and its session, must fit; then a hook that releases goes   *)
(* on as a release does                                                    *)
HookBind(p) ==
  LET d == proc[p].dir
      h == Parent[p]
      ls == Reaped(d)
      fits(i) == cred[d] = i /\ Bindable(i, h)
  IN
  /\ proc[p].at = "do" /\ proc[p].op \in {"hook", "unhook"}
  /\ \E i \in Owners(ls, "name", d) :
       \/ /\ fits(i)
          /\ leases' = Bound(ls, i, h)
          /\ \/ /\ proc[p].op = "hook"
                /\ End(p)
             \/ /\ proc[p].op = "unhook"
                /\ proc' = [proc EXCEPT ![p].op = "release", ![p].lease = i]
                /\ UNCHANGED lock
       \/ /\ ~fits(i)
          /\ leases' = ls
          /\ End(p)
  /\ UNCHANGED <<cred, alive, released>>

(* The lane has no live owner: a new lease, for the harness's process *)
HookClaim(p) ==
  LET d == proc[p].dir
      ls == Reaped(d)
      task == \E i \in DOMAIN ls : ls[i].thread = "name" /\ ls[i].path = d /\ ls[i].task
  IN
  /\ Doing(p, "hook")
  /\ Len(leases) < MaxLeases
  /\ Owners(ls, "name", d) = {}
  /\ leases' = Append(ls, NewLease("name", d, task, Parent[p], None, FALSE))
  /\ proc' = [proc EXCEPT ![p].at = "bind", ![p].lease = Len(leases) + 1]
  /\ UNCHANGED <<cred, lock, alive, released>>

(* Bound to the session, it is written to the credential file *)
HookBindNew(p) ==
  LET i == proc[p].lease
  IN
  /\ proc[p].at = "bind"
  /\ \/ /\ Bindable(i, Parent[p])
        /\ leases' = Bound(leases, i, Parent[p])
        /\ proc' = [proc EXCEPT ![p].at = "write"]
        /\ UNCHANGED lock
     \/ /\ ~Bindable(i, Parent[p])
        /\ End(p)
        /\ UNCHANGED leases
  /\ UNCHANGED <<cred, alive, released>>

HookNothing(p) ==
  /\ Doing(p, "unhook")
  /\ Owners(Reaped(proc[p].dir), "name", proc[p].dir) = {}
  /\ leases' = Reaped(proc[p].dir)
  /\ End(p)
  /\ UNCHANGED <<cred, alive, released>>

-----------------------------------------------------------------------------
(* Captures (execute_save), and mutations for a device                     *)
(* (authenticate_checkout_writer).                                         *)

(* The lease that the capture starts with; then its hooks run *)
StartSave(p) ==
  /\ p \in alive /\ proc[p] = Idle
  /\ \E d \in Path :
       proc' = [proc EXCEPT ![p] = [at |-> "hooks", op |-> "save", dir |-> d,
                                    lease |-> cred[d], pid |-> None]]
  /\ UNCHANGED <<leases, cred, lock, alive, released>>

(* acquire_checkout_writer: try the lock, compare the credential *)
SaveLock(p) ==
  LET d == proc[p].dir
  IN
  /\ proc[p].at = "hooks"
  /\ \/ /\ lock[d] = None /\ cred[d] = proc[p].lease
        /\ lock' = [lock EXCEPT ![d] = p]
        /\ proc' = [proc EXCEPT ![p].at = IF cred[d] = 0 THEN "claim" ELSE "auth"]
     \/ /\ lock[d] # None \/ cred[d] # proc[p].lease
        /\ proc' = [proc EXCEPT ![p] = Idle]
        /\ UNCHANGED lock
  /\ UNCHANGED <<leases, cred, alive, released>>

(* authenticate_checkout_writer with a token that was printed *)
DeviceLock(p) ==
  /\ p \in alive /\ proc[p] = Idle
  /\ \E d \in Path, i \in DOMAIN leases :
       /\ leases[i].printed /\ lock[d] = None
       /\ lock' = [lock EXCEPT ![d] = p]
       /\ proc' = [proc EXCEPT ![p] = [at |-> "auth", op |-> "save", dir |-> d,
                                       lease |-> i, pid |-> None]]
  /\ UNCHANGED <<leases, cred, alive, released>>

(* authenticate_writer_with_lock *)
SaveAuthenticate(p) ==
  LET l == leases[proc[p].lease]
      owns == l.path \in {proc[p].dir, None}
      harness == NeedsHarness(l) => HookOwner(p, l)
  IN
  /\ proc[p].at = "auth"
  /\ leases' = IF harness /\ Live(l) THEN Renewed(proc[p].lease) ELSE leases
  /\ \/ /\ harness /\ Live(l) /\ owns
        /\ proc' = [proc EXCEPT ![p].at = "mutate"]
        /\ UNCHANGED lock
     \/ /\ ~(harness /\ Live(l) /\ owns)
        /\ End(p)
  /\ UNCHANGED <<cred, alive, released>>

(* A temporary lease, unless the lane is a harness's or has an owner *)
SaveClaim(p) ==
  LET d == proc[p].dir
      ls == Reaped(d)
  IN
  /\ proc[p].at = "claim"
  /\ Len(leases) < MaxLeases
  /\ \/ /\ RequiresHook(d)
        /\ End(p)
        /\ UNCHANGED leases
     \/ /\ ~RequiresHook(d) /\ Owners(ls, "id", d) # {}
        /\ leases' = ls
        /\ End(p)
     \/ /\ ~RequiresHook(d) /\ Owners(ls, "id", d) = {}
        /\ leases' = Append(ls, NewLease("id", d, FALSE, p, None, FALSE))
        /\ proc' = [proc EXCEPT ![p].at = "mutate", ![p].lease = Len(leases) + 1, ![p].pid = p]
        /\ UNCHANGED lock
  /\ UNCHANGED <<cred, alive, released>>

(* The mutation is over: a temporary lease is released with the lock *)
SaveFinish(p) ==
  /\ proc[p].at = "mutate"
  /\ leases' = IF proc[p].pid = p THEN [leases EXCEPT ![proc[p].lease].active = FALSE] ELSE leases
  /\ End(p)
  /\ UNCHANGED <<cred, alive, released>>

-----------------------------------------------------------------------------
(* Time and failures.                                                      *)

(* AGENT_LEASE_DURATION since the last heartbeat *)
Expire ==
  /\ \E i \in DOMAIN leases :
       /\ leases[i].active /\ leases[i].fresh
       /\ leases' = [leases EXCEPT ![i].fresh = FALSE]
  /\ UNCHANGED <<cred, lock, proc, alive, released>>

(* A process dies, and with it its locks; its pid may be used again *)
Crash(p) ==
  /\ p \in alive
  /\ alive' = alive \ {p}
  /\ proc' = [proc EXCEPT ![p] = Idle]
  /\ lock' = [d \in Path |-> IF lock[d] = p THEN None ELSE lock[d]]
  /\ UNCHANGED <<leases, cred, released>>

Restart(p) ==
  /\ p \notin alive
  /\ alive' = alive \union {p}
  /\ UNCHANGED <<leases, cred, lock, proc, released>>

HarnessExits(h) ==
  /\ h \in alive
  /\ \A p \in Proc : Parent[p] = h => proc[p] = Idle
  /\ alive' = alive \ {h}
  /\ UNCHANGED <<leases, cred, lock, proc, released>>

-----------------------------------------------------------------------------
Next ==
  \/ \E p \in Proc :
       \/ StartReserve(p) \/ Reserve(p) \/ StartFanout(p) \/ Fanout(p) \/ Lock(p)
       \/ WriteCredential(p) \/ StartInstall(p) \/ Install(p) \/ Heartbeat(p)
       \/ StartRelease(p) \/ Release(p) \/ Clean(p) \/ List(p) \/ AbandonThread(p)
       \/ StartHook(p) \/ HookBind(p) \/ HookClaim(p) \/ HookBindNew(p) \/ HookNothing(p)
       \/ StartSave(p) \/ SaveLock(p) \/ DeviceLock(p) \/ SaveAuthenticate(p)
       \/ SaveClaim(p) \/ SaveFinish(p)
       \/ Crash(p) \/ Restart(p)
  \/ Expire
  \/ \E h \in Harness : HarnessExits(h)

Spec == Init /\ [][Next]_vars

-----------------------------------------------------------------------------
(* Types, and every lock has a holder that runs. *)
TypeOK ==
  /\ leases \in Seq(Leases) /\ Len(leases) <= MaxLeases
  /\ cred \in [Path -> 0 .. Len(leases)]
  /\ \A d \in Path : lock[d] # None => lock[d] \in alive /\ proc[lock[d]].dir = d
  /\ alive \subseteq Proc \union Harness
  /\ released \subseteq DOMAIN leases

(* A checkout has one owner: no two active leases are of it, whatever was   *)
(* reserved, bound, claimed, reaped or reserved again meanwhile.  A lease   *)
(* without a checkout covers them all; beside it only the temporary leases  *)
(* of captures are active, which the name of the thread does not keep out.  *)
OneOwner ==
  \A i, j \in DOMAIN leases :
    /\ i # j
    /\ leases[i].active /\ leases[j].active
    => IF leases[i].path = None THEN leases[j].thread = "id" ELSE leases[i].path # leases[j].path

(* Authority is not retired under a mutation: the lease that a running      *)
(* capture was admitted with stays active until it ends, although it may    *)
(* expire and others list, reserve, release, bind or drop the thread.  This *)
(* is said of the leases that have a checkout, whose lock the store         *)
(* respects; one without a checkout is retired beside its capture.          *)
AuthorityKept ==
  \A p \in Proc :
    LET l == leases[proc[p].lease] IN proc[p].at = "mutate" /\ l.path # None => l.active

(* The same of every lease, as the comment on reap_expired_locked says it:  *)
(* "Never retire authority while a capture holds this checkout."            *)
AuthorityAlways ==
  \A p \in Proc : proc[p].at = "mutate" => leases[proc[p].lease].active

(* A checkout that a harness session owns is written by processes of that   *)
(* harness only, although a lease without a checkout may cover it too.      *)
HarnessOnly ==
  \A p \in Proc : \A i \in DOMAIN leases :
    /\ proc[p].at = "mutate"
    /\ leases[i].active /\ leases[i].path = proc[p].dir /\ NeedsHarness(leases[i])
    => proc[p].lease = i /\ Parent[p] = leases[i].session

(* A lease of a checkout that was released leaves no credential: the        *)
(* checkout is not refused to later writers for an authority that ended.    *)
(* The credentials of a lease without a checkout are not looked for.        *)
ReleasedGone ==
  \A i \in released : leases[i].path # None => \A d \in Path : cred[d] # i
=============================================================================
