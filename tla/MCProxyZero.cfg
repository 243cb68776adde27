CONSTANTS
    Task = {t1}
    Key = {k1}
    Flight = {f1}
    Code = {14}
    Retries = {0}
    Capacity = 0
    None = None
SPECIFICATION Spec
INVARIANTS NoRequestPanics
