SPECIFICATION Spec
CONSTANTS
    Admins = {a1, a2}
    Waiters = {}
    Conns = {c1, c2}
    Loops = {l1, l2}
    Versions = {1}
    FailureThreshold = 1
    RestoreMayFail = FALSE
    NoConn = NoConn
    NoLoop = NoLoop
CHECK_DEADLOCK FALSE
INVARIANT DeletedStaysStopped
