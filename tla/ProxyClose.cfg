CONSTANTS
    Clients = {c1}
    SocketTimeout = 5
    Faults = {"close"}
SPECIFICATION Spec
INVARIANT NonTimeoutFailureMeans502
