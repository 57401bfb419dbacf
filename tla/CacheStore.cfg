CONSTANTS
    Threads = {t1, t2}
    Keys = {k1, k2, k3}
    Values = {v1, v2}
    TTLs = {0, 1, 2}
    TTL_MAX = 2
    STORE_CAP = 2
    NoKey = NoKey
    Missing = Missing
    None = None
SPECIFICATION Spec
INVARIANTS
    TypeOK
    UniqueKeys
PROPERTIES
    ImplementsMap
SYMMETRY Symmetry
