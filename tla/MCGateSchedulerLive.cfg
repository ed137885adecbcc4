SPECIFICATION FairSpec
CONSTANTS
  Request = {r1, r2}
  Command = {c1}
  MaxEdits = 0
  MaxDirty = 1
  MaxCancels = 0
  Closes = TRUE
  Faulty = FALSE
  NTargets = 1
  None = None
PROPERTIES EveryRequestAnswered
