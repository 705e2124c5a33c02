CONSTANTS
    LimitTypes = {"Local"}
    Users = {u1}
    AuthTypes = {password}
    Config <- MCDynamic
    Threads = {t1, t2}
    MaxTime = 2
    MaxFailures = 2
    MaxBoots = 1
    IntMax = 20
    ZeroNano <- MCZeroNano
SPECIFICATION Spec
INVARIANTS LockHasEnd RestartKeepsLocks
PROPERTY NoEarlyUnlock
SYMMETRY Interchangeable
CHECK_DEADLOCK FALSE
