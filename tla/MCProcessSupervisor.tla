------------------------- MODULE MCProcessSupervisor -------------------------
(* Two servers with one run each: either may recover what the other left. *)
EXTENDS ProcessSupervisor, TLC

CONSTANTS s1, s2, r1, r2

OneEach == r1 :> s1 @@ r2 :> s2
=============================================================================
