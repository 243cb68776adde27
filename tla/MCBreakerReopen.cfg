CONSTANTS
    Caller = {c1}
    Object = {o1}
    MinRequests = 1
    MaxTotal = 3
    ResetAfter = 0
    Num = 1
    Den = 2
    MaxTime = 1
    None = None
SPECIFICATION Spec
PROPERTIES ProbeFaultReopens
