SPECIFICATION FairSpec
CONSTANTS
    Requests = {r1}
    LimitChoices <- OnePermit
    MaxAttempts = 3
    TrackUncertain = TRUE
    AllowChoices = {FALSE}
    FinishAttempt = FALSE
    Events = {"resolve", "policy", "control", "journal", "deny"}
INVARIANT ResolutionHonoured
PROPERTY UncertainNeedsOperator
PROPERTY ResolutionWakes
