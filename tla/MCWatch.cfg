CONSTANTS
    MaxRev = 5
    MaxErrors = 3
    StreamMayEnd = TRUE
    MaxPush = 4
    MaxFailures = 3
    MayRewind = FALSE
    None = None
    Releaser = {1, 2}
    Service = {s1, s2}
    Version = {1, 2}
    Missing = Missing
    Absent = Absent
    Broken = Broken
    Torn = Torn
SPECIFICATION MCSpec
INVARIANT NeverTorn
PROPERTIES ImplementsConfigWatch DeliversPending UnsubscribeStops GithubImplementsConfigWatch GithubEventuallyCurrent GithubStops BrokenKept ImplementsEnvironmentLock
CHECK_DEADLOCK FALSE
