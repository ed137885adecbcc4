--------------------------- MODULE MCGateScheduler ---------------------------
(* Model values and symmetry for GateScheduler. *)
EXTENDS GateScheduler, TLC

\* Requests and commands are interchangeable.
Perms == Permutations(Request) \cup Permutations(Command)
=============================================================================
