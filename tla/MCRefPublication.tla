-------------------------- MODULE MCRefPublication --------------------------
(***************************************************************************)
(* Instances of RefPublication: clients c1 and c2 with a handle each, in   *)
(* one worktree or in two.                                                 *)
(***************************************************************************)
EXTENDS RefPublication, TLC

CONSTANTS c1, c2, h1, h2, w1, w2, s1, main, dev

MCClients == {c1, c2}
MCHandles == {h1, h2}
MCHandleOf == (c1 :> h1) @@ (c2 :> h2)

MCOneWorktree == {w1}
(* c1 works on the thread and on HEAD, c2 on the thread. *)
MCUses == (c1 :> Thread \union {w1}) @@ (c2 :> Thread)
MCSameWorktree == [h \in MCHandles |-> w1]

MCTwoWorktrees == {w1, w2}
MCUsesDev == (c1 :> {dev, w1}) @@ (c2 :> {dev})
MCOwnWorktree == (h1 :> w1) @@ (h2 :> w2)
=============================================================================
