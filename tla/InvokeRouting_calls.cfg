SPECIFICATION Spec
CONSTANTS
    s1 = s1
    s2 = s2
    Callers = {x1, x2}
    Sources = {s1, s2}
    Limit <- OneLimited
    Threshold = 1
    Revocable = {s2}
    RedisFails = TRUE
    None = None
SYMMETRY Symmetry
INVARIANTS SentOnce PaidOnce QuotaHeld
