--------------------------- MODULE MCChangeService ---------------------------
(***************************************************************************)
(* TLC instances of ChangeService.  One request, whichever it is, creates  *)
(* the change; any of the others may then be any operation on it.          *)
(***************************************************************************)
EXTENDS ChangeService, TLC

CONSTANTS p1, p2, c, x, y, z, f1, f2

\* The second process serves one request, the first all others.
Served == [o \in Op |-> IF o = z THEN p2 ELSE p1]

\* Files are alike, and so are the requests of the first process.
Symmetry == Permutations({f1, f2}) \cup Permutations({c, x, y})
=============================================================================
