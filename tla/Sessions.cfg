SPECIFICATION Spec
CONSTANTS
    t1 = t1
    t2 = t2
    Tabs = {t1, t2}
    Device <- MCDevice
    MaxPairs = 3
    MaxChanges = 2
    MaxResets = 2
    MaxTokens = 3
    MaxLapses = 1
CHECK_DEADLOCK FALSE
INVARIANTS OneSuccessor RevocationReachesAll ReuseIsExplained
PROPERTIES ResetOnce
SYMMETRY TabSymmetry
