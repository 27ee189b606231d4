SPECIFICATION Spec
CONSTANTS
    Targets = {1, 2}
    Requests = {r1}
    Others = {o1}
    Configs <- ReloadedPools
    Preferences <- AnyOrSecond
    CursorPeriod = 2
    MaxAttempts = 2
    MaxFailures = 2
    MaxSuccesses = 1
    MaxReloads = 1
INVARIANT LeasesSound
INVARIANT FailoverSafe
