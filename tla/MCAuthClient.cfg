CONSTANTS
    alice = alice
    bob = bob
    pw = pw
    fp = fp
    ukey = ukey
    Users = {alice, bob}
    Flags = {pw, fp, ukey}
    Password = pw
    Listed = {pw, fp}
    MaxTries <- tries
    Rules = {"use created", "quit first"}
    MaxSessions = 2
    MaxCalls = 3
    MaxCharges = 3
    MaxReports = 1
    MaxFaults = 1
    MaxEvents = 3
SPECIFICATION Spec
INVARIANTS TypeOK TokenReadable StatusIsCurrent LimitsConverge HandleSound
PROPERTY PromptTrue
SYMMETRY Interchangeable
CHECK_DEADLOCK FALSE
