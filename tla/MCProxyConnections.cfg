CONSTANTS
    Task = {t1, t2}
    Conn = {c1, c2, c3, c4}
    Size = 2
    KeepAlive = TRUE
    None = None
    Client = {k1, k2, k3}
    Stream = {r1, r2}
SPECIFICATION MCSpec
INVARIANTS LiveUsesPooled DrainLosesNothing
PROPERTIES LiveNeverReplaced EveryRequestEnds ShutdownEnds
CHECK_DEADLOCK FALSE
