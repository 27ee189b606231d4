----------------------------- MODULE GlobalSearch -----------------------------
(***************************************************************************)
(* The search of the console's header                                      *)
(* (web/src/components/GlobalSearch.tsx).  A query filters what the page   *)
(* has already, and 220 milliseconds after the last change asks the server *)
(* for more.  A change of the query, or closing, disposes of the effect    *)
(* that set the timer: its timer and the answers to its calls.             *)
(*                                                                         *)
(* An item is a number, in the order in which the results are listed; a    *)
(* query is what is left of the text after trimming and lowering.  Bound:  *)
(* MaxKeys things the operator does or the page changes.                   *)
(***************************************************************************)
EXTENDS Integers, Sequences, FiniteSets

CONSTANTS SearchItems,  \* what there is to find, on the server and on the page
          Local,        \* the items the page may have: requests, alerts and so on
          CallOf,       \* the call that finds an item, or "page" if only the page has it
          SearchWords, Blank,
          ShortWords,   \* words of one letter: nothing is asked for them
          Matching,     \* the items whose text includes a word
          MaxResults,   \* 8 in the code
          MaxKeys

\* One search makes four calls: the newest logs and all captures, whatever the
\* query is, and the history and the incidents that match it.
SearchCalls == {"logs", "captures", "history", "incidents"}

ASSUME SearchAssumption ==
    /\ SearchItems \subseteq Nat /\ IsFiniteSet(SearchItems)
    /\ Local \subseteq SearchItems /\ CallOf \in [SearchItems -> SearchCalls \cup {"page"}]
    /\ Blank \notin SearchWords /\ ShortWords \subseteq SearchWords
    /\ Matching \in [SearchWords -> SUBSET SearchItems]
    /\ MaxResults \in Nat \ {0} /\ MaxKeys \in Nat

VARIABLES query, open,
          timer,       \* the timer of the last effect is set
          local,       \* the items the page has
          found,       \* what the four calls found: logs, captures, remoteHistory, remoteIncidents
          activeIndex, \* the highlighted result, from 0, or -1
          searches,    \* calls under way, with the disposed flag of their effect
          lastOpened,  \* history: the item that was opened last, 0 for none
          keys

searchVars == <<query, open, timer, local, found, activeIndex, searches, lastOpened, keys>>

Includes(word) == IF word = Blank THEN {} ELSE Matching[word]

\* results: what matches, in order, the first of them.
MatchesOf(word, page, remote) == (page \cup UNION {remote[c] : c \in SearchCalls}) \cap Includes(word)
ResultsOf(word, page, remote) ==
    LET matches == MatchesOf(word, page, remote)
        listed  == IF Cardinality(matches) < MaxResults THEN Cardinality(matches) ELSE MaxResults
    IN  [i \in 1 .. listed |-> CHOOSE e \in matches : Cardinality({f \in matches : f < e}) = i - 1]
results == ResultsOf(query, local, found)

SearchTypeOK ==
    /\ query \in SearchWords \cup {Blank} /\ open \in BOOLEAN /\ timer \in BOOLEAN
    /\ activeIndex \in -1 .. MaxResults

SearchInit ==
    /\ query = Blank /\ open = FALSE /\ timer = FALSE
    /\ local = Local /\ found = [c \in SearchCalls |-> {}]
    /\ activeIndex = -1 /\ searches = {} /\ lastOpened = 0 /\ keys = 0

Key == keys < MaxKeys /\ keys' = keys + 1

\* The effect that highlights the first result, whenever the query or the
\* number of results has changed.
FirstOf(list) == IF list = <<>> THEN -1 ELSE 0
Highlight ==
    activeIndex' = IF query' # query \/ Len(results') # Len(results) THEN FirstOf(results') ELSE activeIndex

\* The effect of the query: what it set before is disposed of.
Effect(word, isOpen) ==
    /\ query' = word /\ open' = isOpen
    /\ IF word = query /\ isOpen = open
       THEN UNCHANGED <<timer, searches>>
       ELSE /\ timer' = (isOpen /\ word \notin ShortWords \cup {Blank})
            /\ searches' = {[c EXCEPT !.disposed = TRUE] : c \in searches}

typeQuery(word) ==
    /\ Key
    /\ Effect(word, TRUE)
    /\ UNCHANGED <<local, found, lastOpened>> /\ Highlight
focusSearch ==
    /\ Key /\ ~open
    /\ Effect(query, TRUE)
    /\ UNCHANGED <<local, found, lastOpened>> /\ Highlight
escape ==
    /\ Key /\ open
    /\ Effect(query, FALSE)
    /\ UNCHANGED <<local, found, lastOpened>> /\ Highlight

timerFires ==
    /\ timer /\ timer' = FALSE
    /\ searches' = searches \cup {[word |-> query, disposed |-> FALSE]}
    /\ UNCHANGED <<query, open, local, found, activeIndex, lastOpened, keys>>

\* What the server answers to each of the four.
AnswerTo(word) ==
    [c \in SearchCalls |-> {e \in SearchItems : CallOf[e] = c /\ (c \in {"history", "incidents"} => e \in Includes(word))}]

\* Promise.allSettled: each of the four answers is there or is not.
StoredAlways(call) ==
    \E fulfilled \in SUBSET SearchCalls :
       found' = [c \in SearchCalls |-> IF c \in fulfilled THEN AnswerTo(call.word)[c] ELSE found[c]]
Stored(call) ==
    IF call.disposed THEN found' = found
    ELSE \E fulfilled \in SUBSET SearchCalls :
            found' = [c \in SearchCalls |-> IF c \in fulfilled THEN AnswerTo(call.word)[c] ELSE found[c]]
searchLands(call) ==
    /\ Stored(call)
    /\ searches' = searches \ {call}
    /\ UNCHANGED <<query, open, timer, local, lastOpened, keys>> /\ Highlight

\* The page gets another status, history or list of incidents.
pageChanges ==
    /\ Key
    /\ \E page \in SUBSET Local \ {local} : local' = page
    /\ UNCHANGED <<query, open, timer, found, searches, lastOpened>> /\ Highlight

\* handleInputKeyDown and the mouse.
moveHighlight(direction) ==
    /\ Key /\ results # <<>>
    /\ activeIndex' = (activeIndex + direction + Len(results)) % Len(results)
    /\ UNCHANGED <<query, open, timer, local, found, searches, lastOpened>>
pointAt ==
    /\ Key /\ open
    /\ \E i \in 1 .. Len(results) : activeIndex' = i - 1
    /\ UNCHANGED <<query, open, timer, local, found, searches, lastOpened>>
select ==
    /\ results # <<>> /\ activeIndex >= 0
    /\ Key
    /\ lastOpened' = results[activeIndex + 1]
    /\ Effect(Blank, FALSE)
    /\ UNCHANGED <<local, found>> /\ Highlight

SearchNext ==
    \/ \E word \in SearchWords \cup {Blank} : typeQuery(word)
    \/ focusSearch
    \/ escape
    \/ timerFires
    \/ \E call \in searches : searchLands(call)
    \/ pageChanges
    \/ \E direction \in {-1, 1} : moveHighlight(direction)
    \/ pointAt
    \/ select
SearchSpec == SearchInit /\ [][SearchNext]_searchVars

------------------------------------------------------------------------------
\* What a call found is replaced only by what it finds for the query that
\* stands in the field, whichever of the four calls fail: an answer that comes
\* after the query was changed, or the search closed, is dropped (the disposed
\* flag of GlobalSearch.tsx).
SearchMatches ==
    [][ /\ SearchTypeOK'
        /\ \A c \in SearchCalls : found'[c] # found[c] => open /\ found'[c] = AnswerTo(query)[c] ]_searchVars
=============================================================================
