------------------------------ MODULE PermitPool ------------------------------
(***************************************************************************)
(* What the concurrency limiter promises to ServeHTTP                      *)
(* (internal/proxy/limiter.go, Acquire and Release): a bounded set of      *)
(* permit holders and a bounded set of callers that wait for a permit.     *)
(* The order in which waiting callers are served is not part of it.        *)
(***************************************************************************)
EXTENDS Naturals, FiniteSets

CONSTANTS Callers,      \* the requests that ask for a permit
          LimitChoices  \* the <<max-active, max-waiting>> pairs that may be configured

VARIABLES holders,      \* callers for which Acquire returned nil
          queue         \* callers inside Acquire that wait for their turn

poolVars == <<holders, queue>>

PoolInit == holders = {} /\ queue = {}

Outside(c) == c \notin holders /\ c \notin queue
Free(l)    == Cardinality(holders) < l[1]
Room(l)    == Cardinality(queue) < l[2]

\* Acquire finds a free permit.
Grab(c) ==
    /\ Outside(c)
    /\ \E l \in LimitChoices : Free(l)
    /\ holders' = holders \cup {c}
    /\ UNCHANGED queue

\* Acquire returns ErrQueueFull.
Refuse(c) ==
    /\ Outside(c)
    /\ \E l \in LimitChoices : ~Free(l) /\ ~Room(l)
    /\ UNCHANGED poolVars

\* Acquire makes the caller wait.
Enqueue(c) ==
    /\ Outside(c)
    /\ \E l \in LimitChoices : ~Free(l) /\ Room(l)
    /\ queue' = queue \cup {c}
    /\ UNCHANGED holders

\* A waiting caller gets a permit.
Grant(c) ==
    /\ c \in queue
    /\ \E l \in LimitChoices : Free(l)
    /\ holders' = holders \cup {c}
    /\ queue' = queue \ {c}

\* A waiting caller gives up because its context ended.
Quit(c) ==
    /\ c \in queue
    /\ queue' = queue \ {c}
    /\ UNCHANGED holders

\* Release.
GiveBack(c) ==
    /\ c \in holders
    /\ holders' = holders \ {c}
    /\ UNCHANGED queue

PoolNext == \E c \in Callers : \/ Grab(c) \/ Refuse(c) \/ Enqueue(c)
                               \/ Grant(c) \/ Quit(c) \/ GiveBack(c)

PoolSpec == PoolInit /\ [][PoolNext]_poolVars
=============================================================================
