---------------------------- MODULE MCWorkService ----------------------------
(* Instance of WorkService for TLC.                                        *)
EXTENDS WorkService, TLC

CONSTANTS k1, k2, k3

MCCall == {k1, k2, k3}
Symmetric == Permutations(MCCall)
=============================================================================
