---------------------------- MODULE MCGateLease ----------------------------
(***************************************************************************)
(* GateLease for TLC.  j1 and j2 work on the same worktree in different    *)
(* processes; j3 shares the process of j2 and has a worktree of its own,   *)
(* so that it meets the others only at the host slots.  With SameRoot all  *)
(* jobs work on one worktree.                                              *)
(***************************************************************************)
EXTENDS GateLease

CONSTANTS j1, j2, j3, p1, p2, w1, w2

ProcOf == [j \in Jobs |-> IF j = j1 THEN p1 ELSE p2]
RootOf == [j \in Jobs |-> IF j = j3 THEN w2 ELSE w1]
SameRoot == [j \in Jobs |-> w1]
=============================================================================
