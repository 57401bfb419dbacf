CONSTANTS
    Threads = {t1, t2, t3}
    Keys = {k1}
    Values = {v1}
    TTLs = {0, 1}
    TTL_MAX = 1
    STORE_CAP = 1
    NoKey = NoKey
    Missing = Missing
    None = None
    CLIENT_LIMIT = 2
SPECIFICATION FairServerSpec
INVARIANTS
    ServerTypeOK
    SlotsCounted
PROPERTIES
    DisconnectFreesSlot
    EveryConnectionDecided
