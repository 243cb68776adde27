CONSTANTS
    Thread = {t1, t2, t3}
    Key = {k1, k2, k3, k4}
    k1 = k1
    Capacity = 1
    Value = {v1}
    TTL = 1
    MaxClock = 2
    NoEntry = NoEntry
    Caller = {t1, t2, t3}
    Object = {o1, o2, o3, o4}
    MinRequests = 2
    MaxTotal = 2
    ResetAfter = 0
    Num = 1
    Den = 2
    MaxTime = 1
    None = None
SPECIFICATION MCSpec
SYMMETRY MCSymmetry
INVARIANTS OvershootBounded NoMissedTrip LostObjectsBounded
