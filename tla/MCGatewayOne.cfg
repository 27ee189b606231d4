SPECIFICATION Spec
CONSTANTS
    Requests = {r1}
    LimitChoices <- OnePermit
    MaxAttempts = 3
    TrackUncertain = TRUE
    AllowChoices = {TRUE, FALSE}
    FinishAttempt = TRUE
    Events = {"disconnect", "deadline", "journal", "cancel", "retry", "policy", "resolve", "deny"}
INVARIANT EndsRight
