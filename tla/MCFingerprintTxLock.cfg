CONSTANTS
    tx1 = tx1
    tx2 = tx2
    alice = alice
    bob = bob
    None = None
    g1 = g1
    g2 = g2
    g3 = g3
    Txs = {tx1}
    username <- oneSession
    Goroutines = {g1}
    Methods <- locks
    Serial = TRUE
    MaxCalls = 5
    MaxAttempts = 2
SPECIFICATION Spec
INVARIANT OneAttempt
CHECK_DEADLOCK FALSE
