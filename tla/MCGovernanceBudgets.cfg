SPECIFICATION Spec
CONSTANTS
    Reservations = {"q1", "q2"}
    Fixed <- OnePrincipal
    Upstreams = {"u1"}
    Configs <- Strict
    Usages = {1, 3}
    Retention = 0
    Recommended = {"none"}
    Attempts <- FirstRetries
    MaxNow = 1
    MaxEvents = 1
INVARIANT BudgetsSound
CHECK_DEADLOCK FALSE
