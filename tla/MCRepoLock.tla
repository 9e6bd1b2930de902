----------------------------- MODULE MCRepoLock -----------------------------
(***************************************************************************)
(* RepoLock with three threads in one process, so that one can barge       *)
(* between an owner and a waiter, and a fourth thread in another process.  *)
(***************************************************************************)
EXTENDS RepoLock

CONSTANTS t1, t2, t3, t4, p1, p2

MCThreads == {t1, t2, t3, t4}
MCProcs == {p1, p2}
MCProcOf == [t \in MCThreads |-> IF t = t4 THEN p2 ELSE p1]
=============================================================================
