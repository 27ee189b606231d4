-------------------------------- MODULE Lists --------------------------------
(***************************************************************************)
(* The two paged lists of the console, history and incidents: filters,     *)
(* pages and cursors (web/src/App.tsx, HistoryView.tsx, IncidentsView.tsx, *)
(* historyPagination.ts) against the queries of the server                 *)
(* (internal/admin/query.go).                                              *)
(*                                                                         *)
(* The lists share no state, so a behaviour is about one of them: `kind`   *)
(* says which.  They differ in what reloads them in the background.  The   *)
(* history is read again every ten seconds and merged; the incidents       *)
(* result is not, but every refresh reads the incidents without filters    *)
(* for the overview, and stores the cursor of that page as the cursor of   *)
(* the filtered list.                                                      *)
(*                                                                         *)
(* A record is a number, newer records are larger, and a filter is the set *)
(* of records it matches.  The server answers a read at once; the answer   *)
(* arrives later.  Nothing in the console orders answers: with "reorder"   *)
(* in Races they overtake each other, as several connections allow; with   *)
(* "overlap" more is loaded while a read that replaces the list is under   *)
(* way.                                                                    *)
(***************************************************************************)
EXTENDS Integers, Sequences, FiniteSets, SequencesExt, Ordering

CONSTANTS Kinds,      \* the lists: a subset of {"history", "incidents"}
          Filters,    \* the filters an operator may apply
          Unfiltered, \* the filter that matches every record
          PageSize,   \* records of one page
          Recorded,   \* how many records there are at the start
          MaxRecords, \* bound: how many there may be
          MaxReads,   \* bound: reads under way
          MaxApplied, \* bound: how often filters are applied
          Fallible,   \* the uses whose reads may fail
          Races       \* which races happen: a subset of {"reorder", "overlap"}

ASSUME ListsAssumption ==
    /\ Kinds \subseteq {"history", "incidents"}
    /\ Unfiltered = 1 .. MaxRecords /\ Unfiltered \in Filters /\ Filters \subseteq SUBSET Unfiltered
    /\ PageSize \in Nat \ {0} /\ Recorded \in 0 .. MaxRecords
    /\ {MaxRecords, MaxReads, MaxApplied} \subseteq Nat /\ Races \subseteq {"reorder", "overlap"}

VARIABLES kind,    \* the list this behaviour is about
          newest,  \* the number of the newest record
          filters, \* historyFilters, incidentFilters
          items,   \* history, incidentResults: records in the order shown
          cursor,  \* historyCursor, incidentCursor: the last record read, 0 for none
          hasMore, \* historyHasMore, incidentsHaveMore
          reads,   \* reads whose answers have not arrived
          applied  \* how often filters were applied

listVars == <<kind, newest, filters, items, cursor, hasMore, reads, applied>>

\* One page: the newest matching records older than the cursor, newest first,
\* and a cursor only when there is more.
Query(filter, after) ==
    LET older == {r \in filter : r <= newest /\ (after = 0 \/ r < after)}
        page  == {r \in older : Cardinality({s \in older : s > r}) < PageSize}
        more  == older # page
    IN  [items   |-> Descending(page),
         next    |-> IF more THEN CHOOSE r \in page : \A s \in page : r <= s ELSE 0,
         hasMore |-> more]

\* A read and what the console will do with its answer:
\*   "apply"    applyFilters: replace the list,
\*   "boot"     the bootstrap asks for its session before it loads the list,
\*   "first"    loadHistory(), loadIncidents(): replace the list,
\*   "merge"    loadHistory(undefined, true): merge the first page,
\*   "more"     load the page after the cursor and append it,
\*   "overview" refresh: only the cursor of its page is kept.
Read(use, filter, after) == [use |-> use, page |-> Query(filter, after)]
Boot(run) == [use |-> "boot", run |-> run]

ListsTypeOK ==
    /\ kind \in Kinds
    /\ newest \in 0 .. MaxRecords
    /\ filters \in Filters
    /\ items \in Seq(1 .. MaxRecords)
    /\ cursor \in 0 .. MaxRecords /\ hasMore \in BOOLEAN
    /\ Len(reads) <= MaxReads + 2 * MaxApplied + 1

ListsInit ==
    /\ kind \in Kinds
    /\ newest = Recorded
    /\ filters = Unfiltered
    /\ items = <<>> /\ cursor = 0 /\ hasMore = FALSE
    /\ reads = <<Boot(0)>>
    /\ applied = 0

\* mergeHistoryPage: the fresh page, then what was loaded and is not in it.
mergeHistoryPage(current, fresh) ==
    fresh \o Subsequence(current, {i \in DOMAIN current : current[i] \notin Range(fresh)})

\* The next page goes behind what is loaded, without what is there already.
Appended(current, page) ==
    current \o Subsequence(page, {i \in DOMAIN page : page[i] \notin Range(current)})

------------------------------------------------------------------------------
\* applyHistoryFilters, applyIncidentFilters: by the form, the address bar or
\* the history of the browser.  The list is read, and because the filters
\* changed the bootstrap effect runs again.
applyFilters(filter) ==
    /\ applied < MaxApplied
    /\ applied' = applied + 1
    /\ filters' = filter
    /\ reads' = reads \o <<Read("apply", filter, 0), Boot(applied')>>
    /\ UNCHANGED <<kind, newest, items, cursor, hasMore>>

\* No read that replaces the list is under way.
Settled == \A i \in DOMAIN reads : reads[i].use \in {"merge", "more", "overview"}

\* The button below the list.
LoadMore ==
    /\ hasMore
    /\ "overlap" \in Races \/ Settled
    /\ Len(reads) < MaxReads
    /\ reads' = Append(reads, Read("more", filters, cursor))
    /\ UNCHANGED <<kind, newest, filters, items, cursor, hasMore, applied>>

\* The ten-second timer of the history view.
PollHistory ==
    /\ kind = "history"
    /\ Len(reads) < MaxReads
    /\ reads' = Append(reads, Read("merge", filters, 0))
    /\ UNCHANGED <<kind, newest, filters, items, cursor, hasMore, applied>>

\* refresh: reads the incidents of the overview, without filters.
RefreshOverview ==
    /\ kind = "incidents"
    /\ Len(reads) < MaxReads
    /\ reads' = Append(reads, Read("overview", Unfiltered, 0))
    /\ UNCHANGED <<kind, newest, filters, items, cursor, hasMore, applied>>

\* selectView: opening the view reads its list.
OpenView ==
    /\ Len(reads) < MaxReads
    /\ reads' = Append(reads, Read("first", filters, 0))
    /\ UNCHANGED <<kind, newest, filters, items, cursor, hasMore, applied>>

\* A request completes, or an incident opens.
NewRecord ==
    /\ newest < MaxRecords
    /\ newest' = newest + 1
    /\ UNCHANGED <<kind, filters, items, cursor, hasMore, reads, applied>>

\* The effect of an answer on the list.
ListAfter(use, page) ==
    CASE use \in {"apply", "first"} -> page.items
      [] use = "merge" -> mergeHistoryPage(items, page.items)
      [] use = "more" -> Appended(items, page.items)
      [] use = "overview" -> items

\* The cursor of every page is kept, also of one that was merged.
CursorAfterFirst(use, page) == IF use = "merge" \/ cursor = 0 THEN page.next ELSE cursor
CursorAfter(use, page) == page.next

\* An answer arrives.  The bootstrap goes on to load the list unless its
\* effect ran again since; every other answer is used, whatever was applied
\* since it was asked for.
Arrive(i) ==
    LET read == reads[i]
        rest == RemoveAt(reads, i)
    IN  IF read.use = "boot"
        THEN /\ reads' = IF read.run = applied
                         THEN rest \o <<Read("first", filters, 0)>> ELSE rest
             /\ UNCHANGED <<items, cursor, hasMore>>
        ELSE /\ reads' = rest
             /\ items' = ListAfter(read.use, read.page)
             /\ cursor' = CursorAfter(read.use, read.page)
             /\ hasMore' = read.page.hasMore

\* A read fails: a message, and the list stays.
Fail(i) ==
    /\ reads[i].use \in Fallible
    /\ reads' = RemoveAt(reads, i)
    /\ UNCHANGED <<items, cursor, hasMore>>

Answer ==
    /\ \E i \in 1 .. (IF "reorder" \notin Races /\ reads # <<>> THEN 1 ELSE Len(reads)) : Arrive(i) \/ Fail(i)
    /\ UNCHANGED <<kind, newest, filters, applied>>

ListsNext ==
    \/ \E filter \in Filters : applyFilters(filter)
    \/ LoadMore \/ PollHistory \/ RefreshOverview \/ OpenView \/ NewRecord \/ Answer

ListsSpec == ListsInit /\ [][ListsNext]_listVars

------------------------------------------------------------------------------
\* The list is newest first and shows no record twice, however polls, pages
\* and new records interleave: pages are put together without sorting.
NewestFirst == \A i, j \in DOMAIN items : i < j => items[i] > items[j]

\* Paging skips nothing: every record that the filters match, between the
\* newest one shown and the cursor, is in the list; without a cursor, all of
\* them.  A record left out could not be reached by loading more.
NothingSkipped ==
    Settled => \A r \in filters :
        (items # <<>> /\ r <= items[1] /\ (cursor = 0 \/ r >= cursor)) => r \in Range(items)

\* When no read that replaces it is under way the list shows what its filters
\* match, and nothing of filters applied before.
SettledMatches == Settled => Range(items) \subseteq filters

\* Pages, polls and filters put together make one list: in order, no record
\* twice, none left out, and none of filters applied before (App.tsx loadMore,
\* mergePages and the filters of the lists).
PagedRight == ListsTypeOK /\ NewestFirst /\ NothingSkipped /\ SettledMatches
=============================================================================
