-------------------------- MODULE MCTimelineOutbox --------------------------
(* Instances of TimelineOutbox for TLC.                                    *)
EXTENDS TimelineOutbox

CONSTANTS r1, r2

(* One run with three events and one state *)
MCEvents == [r \in Run |-> 3]
MCSnapshots == [r \in Run |-> 1]

(* Two runs that share the budget of the outbox *)
MCSharedEvents == [r \in Run |-> IF r = r1 THEN 2 ELSE 0]
MCSharedSnapshots == [r \in Run |-> 1]
=============================================================================
