SPECIFICATION Spec
CONSTANTS
    j1 = j1 j2 = j2 j3 = j3
    p1 = p1 p2 = p2
    w1 = w1 w2 = w2
    Jobs = {j1, j2, j3}
    Processes = {p1, p2}
    Proc <- ProcOf
    Roots = {w1, w2}
    Root <- RootOf
    NSlots = 2
    MaxFaults = 2
    Stalls = FALSE
    Nobody = Nobody
INVARIANTS
    ExclusionWithoutFaults
PROPERTIES
    EveryJobSettles DeadLeaseReclaimed
