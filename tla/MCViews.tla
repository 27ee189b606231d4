------------------------------- MODULE MCViews -------------------------------
(* Instances of Views for TLC. *)
EXTENDS Views

\* Lists: every record, or those with an odd number.
Everything  == 1 .. MaxRecords
SomeFilters == {Everything, {r \in Everything : r % 2 = 1}}

\* Realtime.
TwoDomains == <<"status", "alerts">>

\* Panels.
EveryEntry     == 1 .. MaxEntries
SomeLogFilters == {EveryEntry, {e \in EveryEntry : e % 2 = 1}}

\* Requests: one that waits and one in doubt.
PairsOfStates ==
    LET first == CHOOSE r \in Requests : TRUE
    IN  {[r \in Requests |-> IF r = first THEN "waiting" ELSE "uncertain"]}

\* Repeat: an input that reaches every limit, one whose failures are used up
\* before its executions, and one the server refuses.
SomeInputs == {[executions |-> 2, failures |-> 2, threshold |-> 1, tokens |-> 2, forever |-> FALSE],
               [executions |-> 2, failures |-> 1, threshold |-> 0, tokens |-> 0, forever |-> TRUE],
               [executions |-> 2, failures |-> 2, threshold |-> 2, tokens |-> 1, forever |-> TRUE]}

\* RetryForm: policies on the limits, between them and off every list.
SomeTimes == {5 * Second, 5 * Second + 1, Minute, 90 * Minute, Day}
SomeSchedules ==
    {[mode |-> m] : m \in {"inherit", "immediate"}}
        \cup {[mode |-> "fixed", interval |-> i] : i \in SomeTimes}
        \cup {[mode |-> "random", minimum |-> i, maximum |-> j] : i, j \in SomeTimes}
        \cup {[mode |-> "exponential", base |-> i, maximum |-> j] : i, j \in SomeTimes}
SomePolicies == [duration : SomeTimes, schedule : SomeSchedules, attempts : {0, 3, 21}, honor : {FALSE}]
SomeTyped == {[num |-> n, den |-> 1] : n \in {0, 5, 24}} \cup {[num |-> 3, den |-> 7]}

\* GlobalSearch: a short word, and two words that share some of their items;
\* a request, a record of the history, a log, an incident and a capture.
SearchTable == [w \in SearchWords |->
    CASE w = "a" -> {1, 2, 3, 4, 5} [] w = "ab" -> {1, 3, 4} [] w = "ac" -> {2, 3, 5}]
ItemCalls == <<"page", "history", "logs", "incidents", "captures">>
=============================================================================
