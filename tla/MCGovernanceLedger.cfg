SPECIFICATION Spec
CONSTANTS
    Reservations = {"q1"}
    Fixed <- OnePrincipal
    Upstreams = {"u1", "u2"}
    Configs <- AllModes
    Usages = {1, 3}
    Retention = 0
    Recommended = {"none"}
    Attempts <- FirstRetries
    MaxNow = 1
    MaxEvents = 2
INVARIANT LedgerSound
CHECK_DEADLOCK FALSE
