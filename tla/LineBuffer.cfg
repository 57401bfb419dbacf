CONSTANTS
    LINE_MAX = 4
    RECV_BUF = 2
    StreamLen = 7
SPECIFICATION Spec
CHECK_DEADLOCK FALSE
INVARIANTS
    TypeOK
    LinesAnswered
    RefusalJustified
    NothingHeldBack
