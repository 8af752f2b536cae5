CONSTANTS
    None = None
    Keys = {k1, k2}
    Seqs = {0, 1}
    Rev = 7
    Calls = {c1, c2}
    MaxTime = 2
    MaxReceived = 2
    MaxHellos = 1
    MaxCrashes = 1
SPECIFICATION Spec
SYMMETRY StoreSymmetry
CHECK_DEADLOCK FALSE
INVARIANT
    StartedEarliest
