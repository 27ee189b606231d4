SPECIFICATION FairSpec
CONSTANTS
    Callers = {c1, c2, c3}
    LimitChoices <- ReloadedLimits
    MaxRounds = 2
INVARIANT PermitAccounting
INVARIANT QueueSound
PROPERTY ImplementsPool
PROPERTY NoLostWakeup
PROPERTY WaitersLeave
CHECK_DEADLOCK FALSE
