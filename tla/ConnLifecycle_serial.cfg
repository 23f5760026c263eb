SPECIFICATION FairSpec
CONSTANTS
    Admins = {a1}
    Waiters = {w1}
    Conns = {c1, c2}
    Loops = {l1, l2}
    Versions = {1, 2}
    FailureThreshold = 2
    RestoreMayFail = FALSE
    NoConn = NoConn
    NoLoop = NoLoop
CHECK_DEADLOCK FALSE
INVARIANTS ViewsAgree NoMissedAvailable
PROPERTY KeepsProbing
