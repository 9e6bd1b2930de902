---------------------------- MODULE OplogEntries ----------------------------
(***************************************************************************)
(* Entries of the operation log, and the ways crates/oplog makes and       *)
(* rewrites them.  An entry's id is its place in the log.                  *)
(***************************************************************************)
EXTENDS Integers, Sequences

CONSTANT Recs        \* operation records

Entry == [rec : Recs, batch : Nat, undone : BOOLEAN]

(* build_entries: not undone, in the batch named after its first entry *)
NewEntry(l, r) == [rec |-> r, batch |-> Len(l) + 1, undone |-> FALSE]

(* set_undone: mark a batch undone, or redone *)
SetUndone(l, b, u) ==
  [i \in DOMAIN l |-> IF l[i].batch = b THEN [l[i] EXCEPT !.undone = u] ELSE l[i]]

(* coalesce_batches: the secondary batch joins the primary *)
Coalesce(l, b, c) ==
  [i \in DOMAIN l |-> IF l[i].batch = c THEN [l[i] EXCEPT !.batch = b] ELSE l[i]]

Batches(l) == {l[i].batch : i \in DOMAIN l}

Rewrites(l) ==
  {SetUndone(l, b, u) : b \in Batches(l), u \in BOOLEAN}
    \union {Coalesce(l, bc[1], bc[2]) :
              bc \in {x \in Batches(l) \X Batches(l) : x[1] # x[2]}}
=============================================================================
