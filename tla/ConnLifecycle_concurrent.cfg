SPECIFICATION Spec
CONSTANTS
    Admins = {a1, a2}
    Waiters = {}
    Conns = {c1, c2}
    Loops = {l1, l2}
    Versions = {1}
    FailureThreshold = 1
    RestoreMayFail = TRUE
    NoConn = NoConn
    NoLoop = NoLoop
CHECK_DEADLOCK FALSE
SYMMETRY Symmetry
VIEW View
INVARIANTS LoopOwnership JoinsCancelledLoop ShutdownReleasesAll
