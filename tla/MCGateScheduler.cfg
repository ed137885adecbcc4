SPECIFICATION Spec
CONSTANTS
  Request = {r1, r2}
  Command = {c1, c2}
  MaxEdits = 1
  MaxDirty = 0
  MaxCancels = 1
  Closes = TRUE
  Faulty = TRUE
  NTargets = 1
  None = None
SYMMETRY Perms
INVARIANTS SoundEvidence
