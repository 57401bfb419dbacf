CONSTANTS
    c1 = c1
    c2 = c2
    c3 = c3
    a1 = a1
    a2 = a2
    a3 = a3
    NoAddress = NoAddress
    Clients = {c1}
    Addresses = {a1, a2, a3}
    StaticBackends <- NoBackends
    MaxBackends = 2
    SocketTimeout = 1
    HealthCooldown = 1
    BackendLease = 2
    Faults = {"refuse", "close"}
    MaxObjects = 3
SPECIFICATION FairSpec
INVARIANTS
    Membership
PROPERTIES
    MembersStay
    EveryRequestEnds
