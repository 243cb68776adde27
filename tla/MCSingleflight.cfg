CONSTANTS
    Caller = {c1, c2, c3}
    Key = {k1, k2}
    Result = {ok}
    Flight = {1, 2, 3}
    MayPanic = TRUE
    None = None
SPECIFICATION MCSpec
INVARIANTS OneUpstreamCallPerKey
PROPERTIES ImplementsCoalescedCall EveryCallEnds
