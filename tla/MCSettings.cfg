SPECIFICATION Spec
CONSTANTS
    Plains = {"a", "b"}
    Policies = {"p", "q"}
    NoDraft = "none"
    FirstPlain = "a"
    FirstPolicy = "p"
    MaxTurns = 3
    MaxCrashes = 1
INVARIANT LedgerAgrees
PROPERTY ReleaseKeepsSettings
PROPERTY ReviewedPublished
CHECK_DEADLOCK FALSE
