----------------------------- MODULE DurableLog -----------------------------
(***************************************************************************)
(* What the segmented operation log promises: one sequence of entries that *)
(* grows at its end; no entry is dropped or reordered while power holds;   *)
(* entries change only in the two ways that update_batch_undone_state and  *)
(* coalesce_batches rewrite them; and a power failure leaves a value that  *)
(* the log had since it was last forced to disk, or damages the log: from  *)
(* then on nothing of it is promised.  SegmentedOplog implements it with   *)
(* containers and a manifest.                                              *)
(***************************************************************************)
EXTENDS OplogEntries

VARIABLES
  log,      \* the entries, by id
  possible, \* the logs a power failure could leave
  damaged   \* has a power failure damaged the log?

vars == <<log, possible, damaged>>

Init ==
  /\ log = << >>
  /\ possible = {log}
  /\ damaged = FALSE

AppendBatch ==
  \E r \in Recs :
    /\ log' = Append(log, NewEntry(log, r))
    /\ possible' = possible \union {log'}

Rewrite ==
  /\ log' \in Rewrites(log)
  /\ possible' = possible \union {log'}

Sync ==
  /\ possible' = {log}
  /\ UNCHANGED log

PowerLoss ==
  /\ log' \in possible
  /\ possible' = {log'}

Intact ==
  /\ AppendBatch \/ Rewrite \/ Sync \/ PowerLoss
  /\ ~damaged
  /\ UNCHANGED damaged

Damage == damaged'

Next == Intact \/ Damage

Spec == Init /\ [][Next]_vars
=============================================================================
