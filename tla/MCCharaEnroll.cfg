CONSTANTS
    s1 = s1
    s2 = s2
    alice = alice
    a1 = a1
    a2 = a2
    a3 = a3
    c1 = c1
    c2 = c2
    n1 = n1
    n2 = n2
    None = None
    Driver = driver0
    Senders = {s1}
    user <- oneUser
    Hasty = {}
    Types = {"Face"}
    Names = {n1, n2}
    Ids = {a1, a2}
    Known = {a1}
    Calls = {c1, c2}
    Methods <- everyMethod
    Cap = 3
    MaxCalls = 4
    MaxStatuses = 1
    MaxChanges = 2
    MaxLost = 1
    MaxEvents = 4
SPECIFICATION Spec
INVARIANTS TypeOK NoClosedChannel DriverServesAction ToldIsSaved AvailableIsStored LostSenderReleased
CONSTRAINT FewEvents
SYMMETRY Interchangeable
CHECK_DEADLOCK FALSE
