CONSTANTS
    Clients = {}
    Addresses = {a1, a2}
    NoAddress = NoAddress
    StaticBackends <- NoBackends
    MaxBackends = 1
    SocketTimeout = 1
    HealthCooldown = 1
    BackendLease = 6
    Faults = {}
    MaxObjects = 2
    Refresh = 2
    OpTime = 1
    Tolerated = 0
SPECIFICATION RegistrationSpec
INVARIANTS
    StaysMember
    GracefulEndRemoves
    EndedIsForgotten
SYMMETRY Symmetry
