CONSTANTS
    Clients = {c1, c2}
    SocketTimeout = 2
    Faults = {"refuse", "reset", "close", "abort", "partial", "invalid"}
SPECIFICATION FairSpec
INVARIANTS
    TypeOK
    FailureIsReported
    ErrorJustified
PROPERTIES
    ImplementsGateway
    EveryRequestEnds
