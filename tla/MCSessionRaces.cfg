SPECIFICATION FairSpec
CONSTANTS
    pw = pw
    fp = fp
    g1 = g1
    g2 = g2
    Signal = signal
    txs <- OneTx
    Keyboard = {pw}
    MFA = FALSE
    Required = {pw}
    Cap = 1
    Goroutines = {g1, g2}
    Reports = {"Failure", "Exception"}
    Timeouts = {FALSE}
    Methods = {"Start", "End", "EndAll", "SetQuitFlag", "LimitUpdated"}
    Flags <- EveryFactor
    MaxCalls = 3
    MaxAttempts = 1
    MaxReports = 1
INVARIANTS TypeOK ShownIsDevState ChargedOnce
PROPERTY EndQuits
CHECK_DEADLOCK FALSE
