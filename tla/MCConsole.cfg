SPECIFICATION FairSpec
CONSTANTS
    Capacity = 2
    PageLimit = 1
    MaxEvents = 4
    Loads = {"status"}
    MaxSessions = 2
    MaxClients = 2
    MaxTurns = 2
    LateAnswers = FALSE
INVARIANT NoHoles
INVARIANT TokenBound
PROPERTY StaysComplete
PROPERTY SignInKept
PROPERTY ScreenRenewed
PROPERTY FeedFollows
CHECK_DEADLOCK FALSE
