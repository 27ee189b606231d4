SPECIFICATION FairSpec
CONSTANTS
    Requests = {r1, r2}
    LimitChoices <- TwoLimits
    MaxAttempts = 2
    TrackUncertain = TRUE
    AllowChoices = {FALSE}
    FinishAttempt = FALSE
    Events = {"deadline", "control"}
INVARIANT StateMatchesWorker
INVARIANT PermitDiscipline
PROPERTY EveryRequestEnds
