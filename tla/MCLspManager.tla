---- MODULE MCLspManager ----
(* Instances of LspManager for TLC. *)
EXTENDS LspManager, TLC

\* Calls are interchangeable.
Symmetry == Permutations(Call)
====
