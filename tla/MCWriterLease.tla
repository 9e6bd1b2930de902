--------------------------- MODULE MCWriterLease ---------------------------
(* Two processes, each of a harness of its own. *)
EXTENDS WriterLease
CONSTANTS p1, p2, h1, h2

MCParent == [p \in Proc |-> IF p = p1 THEN h1 ELSE h2]

(* Both processes, and their harnesses with them, can be exchanged. *)
Exchange == {[x \in {p1, p2, h1, h2} |-> IF x = p1 THEN p2 ELSE IF x = p2 THEN p1
                                         ELSE IF x = h1 THEN h2 ELSE h1]}

(* Of a lease that has ended, nothing reads the process or the heartbeat. *)
Ended(l) == [l EXCEPT !.pid = None, !.fresh = FALSE]
Distinguished ==
  <<[i \in DOMAIN leases |-> IF leases[i].active THEN leases[i] ELSE Ended(leases[i])],
    cred, lock, proc, alive, released>>
=============================================================================
