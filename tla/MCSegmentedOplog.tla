-------------------------- MODULE MCSegmentedOplog --------------------------
(***************************************************************************)
(* SegmentedOplog with two handles, both writing, one of them reading.     *)
(***************************************************************************)
EXTENDS SegmentedOplog

CONSTANTS p1, p2

MCProcs == {p1, p2}
MCReaders == {p2}
MCRecs == {1, 2, 3}
=============================================================================
