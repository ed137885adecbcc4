CONSTANTS
    k1 = k1
    k2 = k2
    k3 = k3
    Call <- MCCall
    Change = {c1}
    NGates = 2
    Cand = {d1, d2}
    Scoped = {d1}
    Diag = {e1}
    MaxActive = 1
    MaxRecords = 1
    MaxCandidates = 2
    MaxCompiles = 2
    MaxHandoffs = 1
    MaxRevisions = 2
    MaxEvents = 1
    None = None
SYMMETRY Symmetric
SPECIFICATION Spec
INVARIANTS ReadyMeansPassed TokenSingleUse CancelTakesEffect
CHECK_DEADLOCK FALSE
