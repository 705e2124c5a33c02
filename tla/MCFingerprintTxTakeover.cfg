CONSTANTS
    tx1 = tx1
    tx2 = tx2
    alice = alice
    bob = bob
    None = None
    g1 = g1
    g2 = g2
    g3 = g3
    Txs = {tx1, tx2}
    username <- oneUser
    Goroutines = {g1, g2, g3}
    Methods <- timers
    Serial = TRUE
    MaxCalls = 3
    MaxAttempts = 2
SPECIFICATION FairSpec
INVARIANTS TypeOK NoDoubleClose 
PROPERTIES  CallsReturn
CHECK_DEADLOCK FALSE
