CONSTANTS
    MaxRev = 3
    MaxErrors = 1
    StreamMayEnd = FALSE
SPECIFICATION FairSpec
PROPERTIES EventuallyCurrent
CHECK_DEADLOCK FALSE
