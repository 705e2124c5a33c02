SPECIFICATION FairSpec
CONSTANTS
    pw = pw
    fp = fp
    g1 = g1
    g2 = g2
    Signal = signal
    txs <- TwoTxs
    Keyboard = {pw}
    MFA = FALSE
    Required = {fp, pw}
    Cap = 1
    Goroutines = {g1}
    Reports = {"Success", "Failure", "Exception"}
    Timeouts = {FALSE}
    Methods = {"Start", "EndAll", "Quit", "TTYChanged"}
    Flags <- EveryFactor
    MaxCalls = 2
    MaxAttempts = 1
    MaxReports = 1
PROPERTIES AnySuccessPasses FailuresCharged
CHECK_DEADLOCK FALSE
