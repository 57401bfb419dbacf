CONSTANTS
    c1 = c1
    c2 = c2
    c3 = c3
    a1 = a1
    a2 = a2
    a3 = a3
    NoAddress = NoAddress
    Clients = {c1}
    Addresses = {a1, a2}
    StaticBackends <- TwoBackends
    MaxBackends = 2
    SocketTimeout = 5
    HealthCooldown = 1
    BackendLease = 3
    Faults = {}
    MaxObjects = 2
SPECIFICATION Spec
INVARIANTS
    NoBackendMeans502
