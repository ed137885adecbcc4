CONSTANTS
  p1 = p1  p2 = p2
  c = c  x = x  y = y  z = z
  f1 = f1  f2 = f2
  None = None  Base = Base  Absent = Absent
  Op = {c, x, y, z}
  Proc = {p1, p2}
  ProcOf <- Served
  File = {f1, f2}
  MaxRevisions = 2
  MaxCrashes = 1
  MaxSaveFaults = 2
SPECIFICATION Spec
CHECK_DEADLOCK FALSE
SYMMETRY Symmetry
INVARIANTS CandidateBytes WriterOwnsChange
PROPERTIES ExportsWhatWasChecked ImplementsLedger
