SPECIFICATION ViewsSpec
CONSTANTS
    Kinds = {"history", "incidents"}
    Filters <- SomeFilters
    Unfiltered <- Everything
    PageSize = 2
    Recorded = 3
    MaxRecords = 5
    MaxReads = 3
    MaxApplied = 1
    Fallible = {"more", "merge", "overview"}
    Races = {}
    Domains <- TwoDomains
    RingSize = 2
    MaxChanges = 3
    MaxDrops = 1
    MaxToggles = 2
    MaxEvents = 4
    LogFilters <- SomeLogFilters
    All <- EveryEntry
    Tail500 = 2
    Captures = {c1}
    Expired = {c1}
    None = None
    MaxSaved = 2
    MaxSteps = 3
    MaxEntries = 2
    MaxLoads = 1
    Requests = {r1, r2}
    Policies = {p1}
    Unset = Unset
    Starts <- PairsOfStates
    Unasked = 1
    MaxClicks = 3
    MaxMoves = 2
    MaxActs = 4
    Second = 2
    NoPolicy = NoPolicy
    OpenPolicies <- SomePolicies
    Typed <- SomeTyped
    TypedAttempts = {0, 1, 21, 1000, 1001}
    MaxEdits = 1
    Tasks = {t1, t2}
    Sources = {s1}
    Inputs <- SomeInputs
    Absent = Absent
    ThresholdLimit = 1
    MaxPresses = 2
    MaxFaults = 1
    SearchItems = {1, 2, 3, 4, 5}
    Local = {1, 2}
    CallOf <- ItemCalls
    SearchWords = {"a", "ab", "ac"}
    Blank = ""
    ShortWords = {"a"}
    Matching <- SearchTable
    MaxResults = 2
    MaxKeys = 4
    MaxEffects = 4
INVARIANT PagedRight
INVARIANT NothingMissed
INVARIANT DecisionsPreviewed
INVARIANT FormFaithful
INVARIANT RepeatSound
INVARIANT SceneOwned
PROPERTY StatusConverges
PROPERTY PausedFrozen
PROPERTY PanelsConverge
PROPERTY UncertainUntouched
PROPERTY EndedForGood
PROPERTY SearchMatches
CHECK_DEADLOCK FALSE
