CONSTANTS
    Threads = {t1, t2, t3}
    Keys = {hello, k2}
    Values = {HelloWorld, v2}
    TTLs = {1}
    TTL_MAX = 1
    STORE_CAP = 1
    NoKey = NoKey
    Missing = Missing
    None = None
    CLIENT_LIMIT = 1
    Handlers = {h1}
    Others = {t3}
    CACHE_KEY = hello
    CACHE_TTL = 1
    HelloText = HelloWorld
    OtherText = OtherText
    NoText = NoText
    NoSocket = NoSocket
SPECIFICATION FairAsideSpec
INVARIANTS
    AnswersAgree
PROPERTIES
    EveryRequestAnswered
    SlotsComeBack
