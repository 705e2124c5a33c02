SPECIFICATION Spec
CONSTANTS
    pw = pw
    fp = fp
    g1 = g1
    g2 = g2
    Signal = signal
    txs <- TwoTxs
    Keyboard = {pw}
    MFA = TRUE
    Required = {fp, pw}
    Cap = 1
    Goroutines = {g1}
    Reports = {"Success", "Failure"}
    Timeouts = {TRUE}
    Methods = {"Start", "TTYChanged"}
    Flags <- AnyFactors
    MaxCalls = 2
    MaxAttempts = 2
    MaxReports = 1
INVARIANTS PassIsCurrent VerdictNeedsAll
CHECK_DEADLOCK FALSE
