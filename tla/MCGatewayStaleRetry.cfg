SPECIFICATION Spec
CONSTANTS
    Requests = {r1}
    LimitChoices <- OnePermit
    MaxAttempts = 3
    TrackUncertain = TRUE
    AllowChoices = {FALSE}
    FinishAttempt = FALSE
    Events = {"retry"}
PROPERTY UncertainNeedsOperator
CHECK_DEADLOCK FALSE
