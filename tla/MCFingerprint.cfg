CONSTANTS
    s1 = s1
    s2 = s2
    u1 = u1
    u2 = u2
    d1 = d1
    d2 = d2
    c1 = c1
    c2 = c2
    c3 = c3
    None = None
    Senders = {s1, s2}
    Users = {u1, u2}
    Devices = {d1, d2}
    Goroutines = {c1, c2}
    Methods = {"Claim", "Release", "NameLost", "Verify", "StopVerify", "SetDefaultDevice"}
    MaxCalls = 3
    MaxTimeouts = 3
    MaxStatuses = 1
SPECIFICATION FairSpec
INVARIANTS TypeOK HardwareAgrees
PROPERTY CallsReturn
CHECK_DEADLOCK FALSE
