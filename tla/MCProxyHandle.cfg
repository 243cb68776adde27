CONSTANTS
    Task = {t1, t2}
    Key = {k1}
    Flight = {101, 102}
    Code = {5, 13, 14}
    Retries = {0, 2}
    Capacity = 1
    None = None
SPECIFICATION MCFairSpec
PROPERTIES ImplementsSingleflight EveryRequestEnds
